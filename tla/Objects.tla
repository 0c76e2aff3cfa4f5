------------------------------ MODULE Objects ------------------------------
(***************************************************************************)
(* What #[object] makes of a struct (libfoxlive_derive/src/object.rs), and *)
(* the object it generates (rpc/object.rs, rpc/value.rs).                  *)
(*                                                                         *)
(* At build time the macro takes the attributes of the struct, then those  *)
(* of its members, one after the other: #[field(..)] declares a member,    *)
(* #[meta(..)] gives it a metadata, and both are removed from what is      *)
(* handed back to the compiler, which rejects the ones that are left.  At  *)
(* run time users get and set the declared members by index.               *)
(***************************************************************************)
EXTENDS Integers, Sequences, SequencesExt

CONSTANTS
    Members,   \* the members: their type and whether a setter is declared
    Numbers,   \* what a value holds beside its type
    MaxAttrs   \* bound on the attributes of a member

ASSUME MembersAssumption ==
    /\ MaxAttrs \in Nat /\ Numbers # {}
    /\ Len(Members) \in Nat /\ DOMAIN Members = 1 .. Len(Members)
    /\ \A k \in DOMAIN Members : Members[k].setter \in BOOLEAN

VARIABLES
    written,  \* the attributes in the source; 0 is the struct itself
    attrs,    \* the attributes that are left
    at,       \* the member that is read
    attrI,    \* FieldDecl::new's attr_i, 0 when it was not found
    i,        \* drain_attrs' index
    metas,    \* the metadatas taken so far, of the struct and of its members
    fields,   \* Object::fields: the members, in order of their index
    phase,    \* what the macro is at, or that there is an object
    values,   \* the object: the values of its members
    acked     \* history: the value each index holds for its users

vars == <<written, attrs, at, attrI, i, metas, fields, phase, values, acked>>
building == <<written, attrs, at, attrI, i, metas, fields>>

Own == DOMAIN Members
Types == {Members[k].type : k \in Own}
Value == [type : Types, number : Numbers]

Kinds == {"field", "meta", "other"}
Attribute == [kind : Kinds, nth : 1 .. MaxAttrs]
HasKind(kind, s) == \E n \in DOMAIN s : s[n].kind = kind

\* The lists of attributes that may be written: #[field] is on members, once.
Lists(allowed) ==
    {s \in UNION {[1 .. n -> Attribute] : n \in 0 .. MaxAttrs} :
        /\ \A k \in DOMAIN s : s[k].nth = k /\ s[k].kind \in allowed
        /\ \A k, l \in DOMAIN s : s[k].kind = "field" /\ s[l].kind = "field" => k = l}

Init ==
    /\ \E own \in Lists(Kinds \ {"field"}), of \in [Own -> Lists(Kinds)] :
          written = [k \in {0} \cup Own |-> IF k = 0 THEN own ELSE of[k]]
    /\ attrs = written /\ at = 0 /\ attrI = 0 /\ i = 1
    /\ metas = [k \in {0} \cup Own |-> << >>] /\ fields = << >>
    /\ phase = "drain"
    /\ values \in {v \in [Own -> Value] : \A k \in Own : v[k].type = Members[k].type}
    /\ acked = << >>

(***************************************************************************)
(* The macro                                                               *)
(***************************************************************************)
IsFirstField(n) ==
    attrs[at][n].kind = "field" /\ \A k \in 1 .. n - 1 : attrs[at][k].kind # "field"

FindField ==
    /\ phase = "find" /\ at \in Own
    /\ \E n \in DOMAIN attrs[at] : IsFirstField(n) /\ attrI' = n
    /\ i' = 1 /\ phase' = "drain"
    /\ UNCHANGED <<written, attrs, at, metas, fields, values, acked>>

\* A member without #[field] is not looked at any further.
SkipMember ==
    /\ phase = "find" /\ at \in Own
    /\ \A n \in DOMAIN attrs[at] : attrs[at][n].kind # "field"
    /\ at' = at + 1
    /\ UNCHANGED <<written, attrs, attrI, i, metas, fields, phase, values, acked>>

Draining == phase = "drain" /\ i # Len(attrs[at]) + 1

\* Mutated form of DrainTake: the index moves on over the one that follows.
DrainTakeAdvance ==
    /\ Draining /\ attrs[at][i].kind = "meta"
    /\ metas' = [metas EXCEPT ![at] = Append(@, attrs[at][i])]
    /\ attrs' = [attrs EXCEPT ![at] = RemoveAt(@, i)]
    /\ i' = IF i > Len(attrs'[at]) THEN i ELSE i + 1
    /\ UNCHANGED <<written, at, attrI, fields, phase, values, acked>>

DrainTake ==
    /\ Draining /\ attrs[at][i].kind = "meta"
    /\ metas' = [metas EXCEPT ![at] = Append(@, attrs[at][i])]
    /\ attrs' = [attrs EXCEPT ![at] = RemoveAt(@, i)]
    /\ UNCHANGED <<written, at, attrI, i, fields, phase, values, acked>>

DrainLeave ==
    /\ Draining /\ attrs[at][i].kind # "meta"
    /\ i' = i + 1
    /\ UNCHANGED <<written, attrs, at, attrI, metas, fields, phase, values, acked>>

Drained == phase = "drain" /\ i = Len(attrs[at]) + 1

\* get_metadatas is done with the struct.
ReadMembers ==
    /\ Drained /\ at = 0
    /\ at' = 1 /\ phase' = "find"
    /\ UNCHANGED <<written, attrs, attrI, i, metas, fields, values, acked>>

\* attrs.remove(attr_i) of the index found before the attributes were drained;
\* it panics beyond the end.
FinishField ==
    /\ Drained /\ at # 0
    /\ IF attrI \in DOMAIN attrs[at]
       THEN /\ attrs' = [attrs EXCEPT ![at] = RemoveAt(@, attrI)]
            /\ fields' = Append(fields, at)
            /\ at' = at + 1 /\ attrI' = 0 /\ phase' = "find"
       ELSE phase' = "failed" /\ UNCHANGED <<attrs, fields, at, attrI>>
    /\ UNCHANGED <<written, i, metas, values, acked>>

\* What is rendered compiles when no attribute of the macro is left in it, for
\* members that are Copy: the get and set that are generated move others.
Render ==
    /\ phase = "find" /\ at \notin Own
    /\ IF \A k \in DOMAIN attrs : \A n \in DOMAIN attrs[k] : attrs[k][n].kind = "other"
       THEN /\ phase' = "object"
            /\ acked' = [n \in DOMAIN fields |-> values[fields[n]].number]
       ELSE phase' = "failed" /\ UNCHANGED acked
    /\ UNCHANGED <<building, values>>

(***************************************************************************)
(* The object; its indices count from 0                                    *)
(***************************************************************************)
Indices == 0 .. Len(Members)

\* Mutated form of Member: the indices are those of the struct.
MemberOfStruct(index) == index + 1

\* The member an index stands for.
Member(index) == fields[index + 1]

\* Mutated form of Accepts: any value is taken.
AcceptsAny(k, value) == TRUE

\* value.try_into() for the type of the member, or of the setter's argument.
Accepts(k, value) == value.type = Members[k].type

\* set_value() that returns Ok: the member itself is assigned, a setter may
\* store and return another number.
SetValue(index, value) ==
    /\ phase = "object" /\ index < Len(fields)
    /\ LET k == Member(index)
       IN  /\ Accepts(k, value)
           /\ \E number \in IF Members[k].setter THEN Numbers ELSE {value.number} :
                 /\ values' = [values EXCEPT ![k] = [value EXCEPT !.number = number]]
                 /\ acked' = [acked EXCEPT ![index + 1] = number]
    /\ UNCHANGED <<building, phase>>

\* set_value() that returns Err: no such index, another type, or the setter's.
RefuseValue(index, value) ==
    /\ phase = "object"
    /\ index < Len(fields) =>
          ~Accepts(Member(index), value) \/ Members[Member(index)].setter
    /\ UNCHANGED vars

Next ==
    \/ FindField \/ SkipMember \/ DrainTake \/ DrainLeave
    \/ ReadMembers \/ FinishField \/ Render
    \/ \E index \in Indices, value \in Value :
          SetValue(index, value) \/ RefuseValue(index, value)

Spec == Init /\ [][Next]_vars

-----------------------------------------------------------------------------
(***************************************************************************)
(* Correctness                                                             *)
(***************************************************************************)
TypeOK ==
    /\ DOMAIN attrs = {0} \cup Own /\ \A k \in DOMAIN attrs : attrs[k] \in Seq(Attribute)
    /\ at \in Nat /\ attrI \in 0 .. MaxAttrs /\ i \in 1 .. MaxAttrs + 1
    /\ \A k \in DOMAIN metas : metas[k] \in Seq(Attribute)
    /\ fields \in Seq(Own) /\ phase \in {"find", "drain", "object", "failed"}
    /\ \A k \in Own : values[k] \in Value /\ values[k].type = Members[k].type
    /\ acked \in Seq(Numbers)

\* The struct, or a member with #[field], without #[meta] before it.
Annotated(k) == k # 0 /\ HasKind("field", written[k])
MetaFirst(k) ==
    Annotated(k) /\ \E a, b \in DOMAIN written[k] :
        a < b /\ written[k][a].kind = "meta" /\ written[k][b].kind = "field"

\* s is what of t is of a kind, each attribute once, in the order of t.
Picks(s, kind, t) ==
    /\ \A n \in DOMAIN s :
          s[n].kind = kind /\ s[n].nth \in DOMAIN t /\ t[s[n].nth] = s[n]
    /\ \A m, n \in DOMAIN s : m < n => s[m].nth < s[n].nth
    /\ \A k \in DOMAIN t : t[k].kind = kind => \E n \in DOMAIN s : s[n] = t[k]

\* However the attributes of a struct that compiles are ordered, its fields are
\* the annotated members in the order of the struct, each with all its
\* metadatas, and the attributes of others, as of the struct, are what is left.
\* It fails to compile only for a #[meta] before the #[field] it belongs to or
\* on a member without one.
Derived ==
    /\ phase = "object" =>
          /\ ToSet(fields) = {k \in Own : Annotated(k)}
          /\ \A m, n \in DOMAIN fields : m < n => fields[m] < fields[n]
          /\ \A k \in DOMAIN written :
                /\ Picks(attrs[k], "other", written[k])
                /\ Picks(metas[k], "meta", written[k])
    /\ phase = "failed" =>
          \E k \in Own : \/ MetaFirst(k)
                         \/ ~Annotated(k) /\ HasKind("meta", written[k])

\* get_value() of an index returns what the last set_value() of the same index
\* returned, however the other members are set and others refused.
Acknowledged ==
    phase = "object" => \A n \in DOMAIN fields : values[fields[n]].number = acked[n]
=============================================================================
