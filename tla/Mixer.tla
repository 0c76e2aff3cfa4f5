------------------------------- MODULE Mixer -------------------------------
(***************************************************************************)
(* What an audio graph promises, without an order, an arena or slots: it   *)
(* is edited between two cycles, and in a cycle every node that is there   *)
(* is mixed exactly once, after all of its parents, and hears through each *)
(* edge what the parent rendered in this cycle and nothing else.  Nothing  *)
(* is promised of what is heard from ports, which add to what was there,   *)
(* and from sinks, which render nothing.                                   *)
(***************************************************************************)
CONSTANTS Indices, EdgeIndices, Kinds

VARIABLES
    kind, edges,  \* the graph
    mixing,       \* a cycle is under way
    done,         \* the nodes mixed in this cycle
    heard         \* what was heard through each edge in this cycle

vars == <<kind, edges, mixing, done, heard>>

Edge == [id : EdgeIndices, parent : Indices, child : Indices]
Silence == [i \in EdgeIndices |-> {}]

Live == {n \in Indices : kind[n] # "vacant"}
Inputs(n) == IF kind[n] \in {"source", "port"} THEN {} ELSE {e \in edges : e.child = n}

Init ==
    /\ kind = [n \in Indices |-> "vacant"] /\ edges = {}
    /\ mixing = FALSE /\ done = {} /\ heard = Silence

\* Edges connect nodes that are there, and are told apart by their index.
Edit ==
    /\ ~mixing
    /\ kind' \in [Indices -> Kinds \cup {"vacant"}]
    /\ edges' \subseteq Edge
    /\ \A e \in edges' : {e.parent, e.child} \subseteq Live'
    /\ \A e, f \in edges' : e.id = f.id => e = f
    /\ UNCHANGED <<mixing, done, heard>>

Begin ==
    /\ ~mixing
    /\ mixing' = TRUE /\ done' = {} /\ heard' = Silence
    /\ UNCHANGED <<kind, edges>>

Mix(n) ==
    /\ mixing /\ n \in Live \ done
    /\ \A e \in edges : e.child = n => e.parent \in done
    /\ done' = done \cup {n}
    /\ \A e \in Inputs(n) : kind[e.parent] \in {"source", "filter"} => heard'[e.id] = {e.parent}
    /\ \A i \in EdgeIndices \ {e.id : e \in Inputs(n)} : heard'[i] = heard[i]
    /\ UNCHANGED <<kind, edges, mixing>>

End ==
    /\ mixing /\ done = Live
    /\ mixing' = FALSE /\ done' = {} /\ heard' = Silence
    /\ UNCHANGED <<kind, edges>>

Next == Edit \/ Begin \/ End \/ \E n \in Indices : Mix(n)

Spec == Init /\ [][Next]_vars
=============================================================================
