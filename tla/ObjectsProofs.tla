--------------------------- MODULE ObjectsProofs ---------------------------
(***************************************************************************)
(* Proofs about Objects, for all structs and all values.                   *)
(***************************************************************************)
EXTENDS Objects, SequenceTheorems, TLAPS

-----------------------------------------------------------------------------
(***************************************************************************)
(* Attributes                                                              *)
(***************************************************************************)
\* What is before the element removed, and what is after it.
LEMMA RemoveParts ==
    ASSUME NEW S, NEW s \in Seq(S), NEW n \in DOMAIN s
    PROVE  /\ Len(s) \in Nat /\ n \in 1 .. Len(s)
           /\ SubSeq(s, 1, n - 1) \in Seq(S) /\ Len(SubSeq(s, 1, n - 1)) = n - 1
           /\ \A l \in 1 .. n - 1 : SubSeq(s, 1, n - 1)[l] = s[l]
           /\ SubSeq(s, n + 1, Len(s)) \in Seq(S) /\ Len(SubSeq(s, n + 1, Len(s))) = Len(s) - n
           /\ \A l \in 1 .. Len(s) - n : SubSeq(s, n + 1, Len(s))[l] = s[n + l]
<1>1. /\ Len(s) \in Nat /\ n \in 1 .. Len(s) /\ n - 1 \in Int /\ n + 1 \in Int
      /\ \A l \in 1 .. Len(s) : s[l] \in S
  OBVIOUS
<1>2. (\A l \in 1 .. n - 1 : s[l] \in S) /\ (\A l \in n + 1 .. Len(s) : s[l] \in S)
  BY <1>1
<1>3. /\ SubSeq(s, 1, n - 1) \in Seq(S)
      /\ Len(SubSeq(s, 1, n - 1)) = IF 1 <= n - 1 THEN (n - 1) - 1 + 1 ELSE 0
      /\ \A l \in 1 .. (n - 1) - 1 + 1 : SubSeq(s, 1, n - 1)[l] = s[1 + l - 1]
  BY <1>1, <1>2, SubSeqProperties
<1>4. ASSUME NEW b \in Int, NEW e \in Int, \A l \in b .. e : s[l] \in S
      PROVE  /\ SubSeq(s, b, e) \in Seq(S)
             /\ Len(SubSeq(s, b, e)) = IF b <= e THEN e - b + 1 ELSE 0
             /\ \A l \in 1 .. e - b + 1 : SubSeq(s, b, e)[l] = s[b + l - 1]
  BY <1>4, SubSeqProperties
<1>5. /\ SubSeq(s, n + 1, Len(s)) \in Seq(S)
      /\ Len(SubSeq(s, n + 1, Len(s))) =
            IF n + 1 <= Len(s) THEN Len(s) - (n + 1) + 1 ELSE 0
      /\ \A l \in 1 .. Len(s) - (n + 1) + 1 :
            SubSeq(s, n + 1, Len(s))[l] = s[(n + 1) + l - 1]
  <2>1. n + 1 \in Int /\ Len(s) \in Int
    BY <1>1
  <2> QED BY <1>2, <1>4, <2>1, Zenon
<1>6. /\ (IF 1 <= n - 1 THEN (n - 1) - 1 + 1 ELSE 0) = n - 1
      /\ (IF n + 1 <= Len(s) THEN Len(s) - (n + 1) + 1 ELSE 0) = Len(s) - n
      /\ (n - 1) - 1 + 1 = n - 1 /\ Len(s) - (n + 1) + 1 = Len(s) - n
  BY <1>1
<1>7. ASSUME NEW l \in 1 .. n - 1 PROVE SubSeq(s, 1, n - 1)[l] = s[l]
  <2>1. 1 + l - 1 = l
    OBVIOUS
  <2> QED BY <1>3, <1>6, <2>1
<1>8. ASSUME NEW l \in 1 .. Len(s) - n PROVE SubSeq(s, n + 1, Len(s))[l] = s[n + l]
  <2>1. (n + 1) + l - 1 = n + l
    BY <1>1
  <2> QED BY <1>5, <1>6, <2>1
<1> QED BY <1>1, <1>3, <1>5, <1>6, <1>7, <1>8, Zenon

LEMMA Removed ==
    ASSUME NEW S, NEW s \in Seq(S), NEW n \in DOMAIN s
    PROVE  /\ RemoveAt(s, n) \in Seq(S) /\ Len(RemoveAt(s, n)) = Len(s) - 1
           /\ DOMAIN RemoveAt(s, n) = 1 .. Len(s) - 1
<1> DEFINE low == SubSeq(s, 1, n - 1)
           high == SubSeq(s, n + 1, Len(s))
<1>1. /\ Len(s) \in Nat /\ n \in 1 .. Len(s) /\ low \in Seq(S) /\ Len(low) = n - 1
      /\ high \in Seq(S) /\ Len(high) = Len(s) - n
  BY RemoveParts
<1>2. RemoveAt(s, n) = low \o high
  BY DEF RemoveAt
<1> HIDE DEF low, high
<1>3. low \o high \in Seq(S) /\ Len(low \o high) = Len(low) + Len(high)
  BY <1>1, ConcatProperties
<1>4. Len(low) + Len(high) = Len(s) - 1
  BY <1>1
<1>5. RemoveAt(s, n) \in Seq(S) /\ Len(RemoveAt(s, n)) = Len(s) - 1
  BY <1>2, <1>3, <1>4
<1> QED BY <1>5

LEMMA RemovedAt ==
    ASSUME NEW S, NEW s \in Seq(S), NEW n \in DOMAIN s, NEW k \in DOMAIN RemoveAt(s, n)
    PROVE  /\ k \in 1 .. Len(s) - 1
           /\ RemoveAt(s, n)[k] = IF k < n THEN s[k] ELSE s[k + 1]
<1> DEFINE low == SubSeq(s, 1, n - 1)
           high == SubSeq(s, n + 1, Len(s))
<1>1. /\ Len(s) \in Nat /\ n \in 1 .. Len(s) /\ low \in Seq(S) /\ Len(low) = n - 1
      /\ high \in Seq(S) /\ Len(high) = Len(s) - n
      /\ \A l \in 1 .. n - 1 : low[l] = s[l]
      /\ \A l \in 1 .. Len(s) - n : high[l] = s[n + l]
  BY RemoveParts
<1>2. RemoveAt(s, n) = low \o high
  BY DEF RemoveAt
<1> HIDE DEF low, high
<1>3. k \in 1 .. Len(s) - 1
  BY Removed
<1>4. k \in Nat /\ n \in Nat /\ k \in 1 .. Len(low) + Len(high)
  BY <1>1, <1>3
<1>5. (low \o high)[k] = IF k <= Len(low) THEN low[k] ELSE high[k - Len(low)]
  BY <1>1, <1>4, ConcatProperties
<1>6. CASE k < n
  <2>1. k \in 1 .. n - 1 /\ k <= Len(low)
    BY <1>1, <1>4, <1>6
  <2> QED BY <1>1, <1>2, <1>3, <1>5, <1>6, <2>1, Zenon
<1>7. CASE ~ (k < n)
  <2>1. k - (n - 1) \in 1 .. Len(s) - n /\ n + (k - (n - 1)) = k + 1 /\ ~ (k <= n - 1)
    <3>1. Len(s) \in Nat /\ n \in Nat
      BY <1>1
    <3> QED BY <1>3, <1>4, <1>7, <3>1
  <2>2. high[k - (n - 1)] = s[k + 1]
    BY <1>1, <2>1, Zenon
  <2> QED BY <1>1, <1>2, <1>3, <1>5, <1>7, <2>1, <2>2, Zenon
<1> QED BY <1>6, <1>7

\* Where the element at k was before the one at n was removed.
Was(n, k) == IF k < n THEN k ELSE k + 1

LEMMA WasOrder ==
    ASSUME NEW n \in Nat, NEW k \in Nat
    PROVE  /\ Was(n, k) \in Nat /\ Was(n, k) # n /\ k <= Was(n, k)
           /\ k < n => Was(n, k) = k
           /\ n <= k => Was(n, k) = k + 1 /\ n < Was(n, k)
           /\ \A l \in Nat : k < l => Was(n, k) < Was(n, l)
BY DEF Was

LEMMA WasAt ==
    ASSUME NEW S, NEW s \in Seq(S), NEW n \in DOMAIN s, NEW k \in DOMAIN RemoveAt(s, n)
    PROVE  k \in Nat /\ Was(n, k) \in DOMAIN s /\ RemoveAt(s, n)[k] = s[Was(n, k)]
<1>1. k \in 1 .. Len(s) - 1 /\ RemoveAt(s, n)[k] = IF k < n THEN s[k] ELSE s[k + 1]
  BY RemovedAt
<1>2. Len(s) \in Nat /\ DOMAIN s = 1 .. Len(s)
  OBVIOUS
<1>3. k \in 1 .. Len(s) /\ k + 1 \in 1 .. Len(s) /\ k \in Nat
  BY <1>1, <1>2
<1> QED BY <1>1, <1>2, <1>3, Zenon DEF Was

LEMMA StillThere ==
    ASSUME NEW S, NEW s \in Seq(S), NEW n \in DOMAIN s, NEW l \in DOMAIN s, l # n
    PROVE  \E k \in DOMAIN RemoveAt(s, n) : RemoveAt(s, n)[k] = s[l]
<1>1. Len(s) \in Nat /\ n \in 1 .. Len(s) /\ l \in 1 .. Len(s)
  OBVIOUS
<1>2. PICK k \in 1 .. Len(s) - 1 : IF k < n THEN l = k ELSE l = k + 1
  <2>1. CASE l < n
    BY <1>1, <2>1
  <2>2. CASE n < l
    <3>1. l - 1 \in 1 .. Len(s) - 1 /\ ~ (l - 1 < n) /\ l = (l - 1) + 1
      BY <1>1, <2>2
    <3> QED BY <3>1
  <2> QED BY <1>1, <2>1, <2>2
<1>3. k \in DOMAIN RemoveAt(s, n)
  BY Removed
<1>4. RemoveAt(s, n)[k] = IF k < n THEN s[k] ELSE s[k + 1]
  BY <1>3, RemovedAt
<1> QED BY <1>2, <1>3, <1>4

LEMMA Element ==
    ASSUME NEW s \in Seq(Attribute), NEW k \in DOMAIN s
    PROVE  k \in 1 .. Len(s) /\ s[k] \in Attribute /\ s[k].nth \in Nat /\ s[k].kind \in Kinds
<1>1. s[k] \in Attribute /\ k \in 1 .. Len(s)
  OBVIOUS
<1>2. s[k].nth \in 1 .. MaxAttrs /\ s[k].kind \in Kinds
  BY <1>1 DEF Attribute
<1> QED BY <1>1, <1>2, MembersAssumption

\* The attributes of one place in the source, numbered as they are written.
Written(t) ==
    /\ \A k \in DOMAIN t : t[k].nth = k
    /\ \A k, l \in DOMAIN t : t[k].kind = "field" /\ t[l].kind = "field" => k = l

LEMMA Listed ==
    ASSUME NEW allowed \in SUBSET Kinds, NEW s \in Lists(allowed)
    PROVE  /\ s \in Seq(Attribute) /\ Len(s) <= MaxAttrs
           /\ Written(s) /\ \A n \in DOMAIN s : s[n].kind \in allowed
<1>1. PICK n \in 0 .. MaxAttrs : s \in [1 .. n -> Attribute]
  BY DEF Lists
<1>2. Written(s) /\ \A k \in DOMAIN s : s[k].kind \in allowed
  BY DEF Lists, Written
<1> QED BY <1>1, <1>2, MembersAssumption

-----------------------------------------------------------------------------
(***************************************************************************)
(* Draining one place: t is what was written there, s what is left of it,  *)
(* m the metadatas taken from it, and i the index.                         *)
(***************************************************************************)
\* s holds attributes of t, in the order of t.
Part(s, t) ==
    /\ \A n \in DOMAIN s : s[n].nth \in DOMAIN t /\ t[s[n].nth] = s[n]
    /\ \A k, l \in DOMAIN s : k < l => s[k].nth < s[l].nth

\* No attribute is lost, nor a metadata passed over; the metadatas were taken
\* in order, and an attribute that followed one has moved down.
Split(t, s, m, n) ==
    /\ Part(s, t) /\ Part(m, t)
    /\ \A k \in DOMAIN t : (\E l \in DOMAIN s : s[l] = t[k]) \/ (\E l \in DOMAIN m : m[l] = t[k])
    /\ \A k \in DOMAIN m : m[k].kind = "meta"
    /\ \A k \in DOMAIN s : k < n => s[k].kind # "meta"
    /\ \A k \in DOMAIN m, l \in DOMAIN s : n <= l => m[k].nth < s[l].nth
    /\ \A k \in DOMAIN s : k <= s[k].nth
    /\ \A k \in DOMAIN m, l \in DOMAIN s : m[k].nth < s[l].nth => l < s[l].nth

\* The index of #[field] still holds, unless there was a #[meta] before it.
Found(t, s, f) ==
    /\ f \in DOMAIN t /\ t[f].kind = "field"
    /\ (\A k \in DOMAIN t : k < f => t[k].kind # "meta") =>
          \A k \in 1 .. f : k \in DOMAIN s /\ s[k] = t[k]

LEMMA SplitStart ==
    ASSUME NEW t \in Seq(Attribute), Written(t)
    PROVE  Split(t, t, << >>, 1)
BY DEF Split, Part, Written

LEMMA SplitLeave ==
    ASSUME NEW t \in Seq(Attribute), NEW s \in Seq(Attribute), NEW m \in Seq(Attribute),
           NEW n \in DOMAIN s, Split(t, s, m, n), s[n].kind # "meta"
    PROVE  Split(t, s, m, n + 1)
<1>1. \A k \in DOMAIN s : k < n + 1 => k < n \/ k = n
  OBVIOUS
<1>2. \A k \in DOMAIN s : n + 1 <= k => n <= k
  OBVIOUS
<1> QED BY <1>1, <1>2, Zenon DEF Split

LEMMA SplitTake ==
    ASSUME NEW t \in Seq(Attribute), NEW s \in Seq(Attribute), NEW m \in Seq(Attribute),
           NEW n \in DOMAIN s, Split(t, s, m, n), s[n].kind = "meta"
    PROVE  Split(t, RemoveAt(s, n), Append(m, s[n]), n)
<1> DEFINE r == RemoveAt(s, n)
           a == Append(m, s[n])
<1>1. r \in Seq(Attribute) /\ n \in Nat
  BY Removed
<1>2. /\ a \in Seq(Attribute) /\ DOMAIN a = 1 .. Len(m) + 1
      /\ a[Len(m) + 1] = s[n] /\ \A k \in DOMAIN m : a[k] = m[k]
  OBVIOUS
<1>13. ASSUME NEW k \in DOMAIN r
       PROVE  k \in Nat /\ Was(n, k) \in DOMAIN s /\ r[k] = s[Was(n, k)]
  BY WasAt
<1> HIDE DEF r, a
<1>3. \A k \in DOMAIN s : k \in 1 .. Len(s) /\ s[k].nth \in Nat
  BY Element
<1>4. \A k \in DOMAIN m : k \in 1 .. Len(m) /\ m[k].nth \in Nat
  BY Element
<1>14. \A k \in DOMAIN a : (k \in DOMAIN m /\ a[k] = m[k]) \/ (k = Len(m) + 1 /\ a[k] = s[n])
  BY <1>2
<1>15. Part(s, t) /\ Part(m, t)
  BY DEF Split
<1>5. Part(r, t)
  <2>1. ASSUME NEW k \in DOMAIN r PROVE r[k].nth \in DOMAIN t /\ t[r[k].nth] = r[k]
    BY <1>13, <1>15, Zenon DEF Part
  <2>2. ASSUME NEW k \in DOMAIN r, NEW l \in DOMAIN r, k < l PROVE r[k].nth < r[l].nth
    <3>1. Was(n, k) < Was(n, l)
      BY <1>1, <1>13, <2>2, WasOrder
    <3> QED BY <1>13, <1>15, <3>1, Zenon DEF Part
  <2> QED BY <2>1, <2>2 DEF Part
<1>6. Part(a, t)
  <2>1. ASSUME NEW k \in DOMAIN a PROVE a[k].nth \in DOMAIN t /\ t[a[k].nth] = a[k]
    BY <1>14, <1>15 DEF Part
  <2>2. ASSUME NEW k \in DOMAIN a, NEW l \in DOMAIN a, k < l PROVE a[k].nth < a[l].nth
    <3>1. k \in DOMAIN m /\ a[k] = m[k]
      BY <1>2, <2>2
    <3>2. CASE l \in DOMAIN m /\ a[l] = m[l]
      BY <1>15, <2>2, <3>1, <3>2 DEF Part
    <3>3. CASE a[l] = s[n]
      <4>1. m[k].nth < s[n].nth
        BY <1>3, <3>1 DEF Split
      <4> QED BY <3>1, <3>3, <4>1
    <3> QED BY <1>14, <3>2, <3>3
  <2> QED BY <2>1, <2>2 DEF Part
<1>7. ASSUME NEW k \in DOMAIN t
      PROVE  (\E l \in DOMAIN r : r[l] = t[k]) \/ (\E l \in DOMAIN a : a[l] = t[k])
  <2>1. CASE \E l \in DOMAIN m : m[l] = t[k]
    <3>1. PICK l \in DOMAIN m : m[l] = t[k]
      BY <2>1
    <3>2. l \in DOMAIN a /\ a[l] = m[l]
      BY <1>2, <1>4
    <3> QED BY <3>1, <3>2
  <2>2. CASE \E l \in DOMAIN s : s[l] = t[k]
    <3>1. PICK l \in DOMAIN s : s[l] = t[k]
      BY <2>2
    <3>2. CASE l = n
      BY <1>2, <3>1, <3>2
    <3>3. CASE l # n
      <4>1. \E b \in DOMAIN r : r[b] = s[l]
        BY <3>1, <3>3, StillThere DEF r
      <4> QED BY <3>1, <4>1
    <3> QED BY <3>2, <3>3
  <2> QED BY <2>1, <2>2 DEF Split
<1>8. \A k \in DOMAIN a : a[k].kind = "meta"
  BY <1>14 DEF Split
<1>9. ASSUME NEW k \in DOMAIN r, k < n PROVE r[k].kind # "meta"
  <2>1. Was(n, k) = k
    BY <1>1, <1>9, <1>13, WasOrder
  <2> QED BY <1>9, <1>13, <2>1, Zenon DEF Split
<1>10. ASSUME NEW k \in DOMAIN a, NEW l \in DOMAIN r, n <= l PROVE a[k].nth < r[l].nth
  <2>1. n < Was(n, l) /\ Was(n, l) \in DOMAIN s /\ r[l] = s[Was(n, l)] /\ Was(n, l) \in Nat
    BY <1>1, <1>10, <1>13, WasOrder
  <2>2. CASE k \in DOMAIN m /\ a[k] = m[k]
    <3>1. n <= Was(n, l)
      BY <1>3, <2>1
    <3> QED BY <2>1, <2>2, <3>1 DEF Split
  <2>3. CASE a[k] = s[n]
    BY <1>15, <2>1, <2>3 DEF Part
  <2> QED BY <1>14, <2>2, <2>3
<1>11. ASSUME NEW k \in DOMAIN r PROVE k <= r[k].nth
  <2>1. Was(n, k) <= s[Was(n, k)].nth
    BY <1>13 DEF Split
  <2>2. k \in Nat /\ k <= Was(n, k) /\ Was(n, k) \in Nat /\ r[k].nth \in Nat
    BY <1>1, <1>3, <1>13, WasOrder
  <2> QED BY <1>13, <2>1, <2>2
<1>12. ASSUME NEW k \in DOMAIN a, NEW l \in DOMAIN r, a[k].nth < r[l].nth PROVE l < r[l].nth
  <2>1. CASE l < n
    <3>1. r[l] = s[l] /\ l \in DOMAIN s /\ s[l].nth < s[n].nth
      <4>1. Was(n, l) = l
        BY <1>1, <1>13, <2>1, WasOrder
      <4> QED BY <1>13, <1>15, <2>1, <4>1 DEF Part
    <3>2. k \in DOMAIN m /\ a[k] = m[k]
      <4>1. a[k] # s[n]
        BY <1>3, <1>12, <3>1
      <4> QED BY <1>14, <4>1
    <3> QED BY <1>12, <3>1, <3>2 DEF Split
  <2>2. CASE n <= l
    <3>1. Was(n, l) <= s[Was(n, l)].nth /\ l < Was(n, l)
      <4>1. Was(n, l) = l + 1
        BY <1>1, <1>13, <2>2, WasOrder
      <4> QED BY <1>13, <4>1 DEF Split
    <3> QED BY <1>3, <1>13, <3>1
  <2> QED BY <1>1, <1>13, <2>1, <2>2
<1> QED BY <1>5, <1>6, <1>7, <1>8, <1>9, <1>10, <1>11, <1>12 DEF Split, r, a

LEMMA SplitEnd ==
    ASSUME NEW t \in Seq(Attribute), NEW s \in Seq(Attribute), NEW m \in Seq(Attribute),
           Written(t), Split(t, s, m, Len(s) + 1)
    PROVE  /\ Picks(m, "meta", t)
           /\ \A k \in DOMAIN s : s[k].kind # "meta"
           /\ \A k \in DOMAIN t : t[k].kind # "meta" => \E l \in DOMAIN s : s[l] = t[k]
<1>1. \A k \in DOMAIN s : s[k].kind # "meta"
  BY DEF Split
<1>2. \A k \in DOMAIN t : t[k].kind = "meta" => \E l \in DOMAIN m : m[l] = t[k]
  BY <1>1 DEF Split
<1>3. \A k \in DOMAIN t : t[k].kind # "meta" => \E l \in DOMAIN s : s[l] = t[k]
  BY DEF Split
<1>4. Part(m, t) /\ \A k \in DOMAIN m : m[k].kind = "meta"
  BY DEF Split
<1> QED BY <1>1, <1>2, <1>3, <1>4 DEF Picks, Part

LEMMA FoundStart ==
    ASSUME NEW t \in Seq(Attribute), NEW f \in DOMAIN t, t[f].kind = "field"
    PROVE  Found(t, t, f)
BY DEF Found

LEMMA FoundTake ==
    ASSUME NEW t \in Seq(Attribute), NEW s \in Seq(Attribute), NEW n \in DOMAIN s,
           s[n].kind = "meta", NEW f, Found(t, s, f)
    PROVE  Found(t, RemoveAt(s, n), f)
<1> SUFFICES ASSUME \A k \in DOMAIN t : k < f => t[k].kind # "meta", NEW k \in 1 .. f
             PROVE  k \in DOMAIN RemoveAt(s, n) /\ RemoveAt(s, n)[k] = t[k]
  BY DEF Found
<1>1. f \in DOMAIN t /\ f \in Nat /\ \A l \in 1 .. f : l \in DOMAIN s /\ s[l] = t[l]
  BY DEF Found
<1>2. f < n
  <2>1. SUFFICES ASSUME n <= f PROVE FALSE
    BY <1>1
  <2>2. s[n] = t[n] /\ n \in DOMAIN t
    BY <1>1, <2>1
  <2> QED BY <1>1, <2>1, <2>2 DEF Found
<1>3. RemoveAt(s, n) \in Seq(Attribute) /\ Len(RemoveAt(s, n)) = Len(s) - 1
  BY Removed
<1>4. k \in DOMAIN RemoveAt(s, n) /\ k < n
  BY <1>1, <1>2, <1>3
<1> QED BY <1>1, <1>4, RemovedAt

\* Without #[meta] before #[field], what is removed in the end is #[field].
LEMMA FieldRemoved ==
    ASSUME NEW t \in Seq(Attribute), NEW s \in Seq(Attribute), NEW m \in Seq(Attribute),
           Written(t), Split(t, s, m, Len(s) + 1), NEW f, Found(t, s, f),
           \A k \in DOMAIN t : k < f => t[k].kind # "meta"
    PROVE  f \in DOMAIN s /\ Picks(RemoveAt(s, f), "other", t)
<1> DEFINE r == RemoveAt(s, f)
<1>1. /\ f \in DOMAIN t /\ t[f].kind = "field" /\ f \in Nat
      /\ f \in DOMAIN s /\ s[f] = t[f]
  BY DEF Found
<1>2. ASSUME NEW k \in DOMAIN r
      PROVE  k \in Nat /\ Was(f, k) \in DOMAIN s /\ Was(f, k) # f /\ r[k] = s[Was(f, k)]
  <2>1. k \in Nat /\ Was(f, k) \in DOMAIN s /\ r[k] = s[Was(f, k)]
    BY <1>1, WasAt
  <2> QED BY <1>1, <2>1, WasOrder
<1> HIDE DEF r
<1>3. /\ \A k \in DOMAIN s : s[k].kind # "meta"
      /\ \A k \in DOMAIN t : t[k].kind # "meta" => \E l \in DOMAIN s : s[l] = t[k]
  BY SplitEnd
<1>4. /\ \A k \in DOMAIN s : s[k].nth \in DOMAIN t /\ t[s[k].nth] = s[k] /\ s[k].nth \in Nat
      /\ \A k, l \in DOMAIN s : k < l => s[k].nth < s[l].nth
  BY DEF Split, Part
<1>5. ASSUME NEW k \in DOMAIN s, k # f PROVE s[k].kind = "other"
  <2>1. s[k].nth # s[f].nth
    <3>1. k < f \/ f < k
      BY <1>1, <1>5
    <3> QED BY <1>1, <1>4, <3>1
  <2>2. s[k].kind # "field"
    BY <1>1, <1>4, <2>1 DEF Written
  <2>3. s[k].kind \in Kinds
    BY Element
  <2> QED BY <1>3, <2>2, <2>3 DEF Kinds
<1>6. ASSUME NEW k \in DOMAIN r
      PROVE  r[k].kind = "other" /\ r[k].nth \in DOMAIN t /\ t[r[k].nth] = r[k]
  BY <1>2, <1>4, <1>5
<1>7. ASSUME NEW k \in DOMAIN r, NEW l \in DOMAIN r, k < l PROVE r[k].nth < r[l].nth
  <2>1. Was(f, k) < Was(f, l)
    BY <1>1, <1>2, <1>7, WasOrder
  <2> QED BY <1>2, <1>4, <2>1
<1>8. ASSUME NEW k \in DOMAIN t, t[k].kind = "other" PROVE \E l \in DOMAIN r : r[l] = t[k]
  <2>1. PICK l \in DOMAIN s : s[l] = t[k]
    BY <1>3, <1>8
  <2>2. l # f
    BY <1>1, <1>8, <2>1
  <2>3. \E c \in DOMAIN r : r[c] = s[l]
    BY <1>1, <2>2, StillThere DEF r
  <2> QED BY <2>1, <2>3
<1> QED BY <1>1, <1>6, <1>7, <1>8 DEF Picks, r

\* With one, #[field] has moved below the index found, and is what is left.
LEMMA FieldLeft ==
    ASSUME NEW t \in Seq(Attribute), NEW s \in Seq(Attribute), NEW m \in Seq(Attribute),
           Written(t), Split(t, s, m, Len(s) + 1), NEW f \in DOMAIN s, Found(t, s, f),
           NEW b \in DOMAIN t, b < f, t[b].kind = "meta"
    PROVE  HasKind("field", RemoveAt(s, f))
<1>1. f \in DOMAIN t /\ t[f].kind = "field" /\ t[f].nth = f /\ t[b].nth = b
  BY DEF Found, Written
<1>2. PICK l \in DOMAIN s : s[l] = t[f]
  BY <1>1, SplitEnd
<1>3. PICK k \in DOMAIN m : m[k] = t[b]
  BY SplitEnd DEF Split
<1>4. l < f
  BY <1>1, <1>2, <1>3 DEF Split
<1>5. RemoveAt(s, f) \in Seq(Attribute) /\ Len(RemoveAt(s, f)) = Len(s) - 1
  BY Removed
<1>6. l \in DOMAIN RemoveAt(s, f)
  BY <1>4, <1>5
<1>7. RemoveAt(s, f)[l] = s[l]
  BY <1>4, <1>6, RemovedAt
<1> QED BY <1>1, <1>2, <1>6, <1>7 DEF HasKind

-----------------------------------------------------------------------------
(***************************************************************************)
(* The inductive invariant                                                 *)
(***************************************************************************)
Places == {0} \cup Own
Attributes == {s \in Seq(Attribute) : Len(s) <= MaxAttrs}

Typed ==
    /\ attrs \in [Places -> Attributes] /\ metas \in [Places -> Seq(Attribute)]
    /\ at \in Nat /\ attrI \in 0 .. MaxAttrs /\ i \in Nat \ {0}
    /\ fields \in Seq(Own) /\ phase \in {"find", "drain", "object", "failed"}
    /\ values \in [Own -> Value]
    /\ \A k \in Own : values[k].type = Members[k].type
    /\ acked \in Seq(Numbers)

\* drain_attrs never passes the end of the attributes it drains.
Drains ==
    /\ i <= MaxAttrs + 1
    /\ phase = "drain" => at \in Places /\ i <= Len(attrs[at]) + 1

\* Members are declared in the order they are read in, so that no two indices
\* stand for the same.
Distinct ==
    /\ \A n \in DOMAIN fields : phase # "object" /\ phase # "failed" => fields[n] < at
    /\ \A m, n \in DOMAIN fields : m < n => fields[m] < fields[n]

Agrees ==
    phase = "object" =>
        /\ Len(acked) = Len(fields)
        /\ \A n \in DOMAIN fields : values[fields[n]].number = acked[n]

IInv == Typed /\ Drains /\ Distinct /\ Agrees

LEMMA OwnIsNat == Own \subseteq Nat \ {0}
BY MembersAssumption DEF Own

LEMMA FieldType ==
    ASSUME fields \in Seq(Own), NEW n \in DOMAIN fields
    PROVE  fields[n] \in Own /\ fields[n] \in Nat /\ fields[n] > 0 /\ n \in Nat
<1>1. fields[n] \in Own /\ n \in Nat
  OBVIOUS
<1>2. fields[n] \in Nat \ {0}
  BY <1>1, OwnIsNat
<1> QED BY <1>1, <1>2

LEMMA InitIInv == Init => IInv
<1> SUFFICES ASSUME Init PROVE IInv
  OBVIOUS
<1>1. PICK own \in Lists(Kinds \ {"field"}), of \in [Own -> Lists(Kinds)] :
         written = [k \in {0} \cup Own |-> IF k = 0 THEN own ELSE of[k]]
  BY DEF Init
<1>2. own \in Attributes
  BY <1>1, Listed DEF Attributes
<1>3. \A k \in Own : of[k] \in Attributes
  BY <1>1, Listed DEF Attributes
<1>4. attrs \in [Places -> Attributes]
  BY <1>1, <1>2, <1>3, OwnIsNat DEF Init, Places
<1>5. metas \in [Places -> Seq(Attribute)]
  BY DEF Init, Places
<1>6. values \in [Own -> Value] /\ \A k \in Own : values[k].type = Members[k].type
  BY DEF Init
<1>7. Typed
  BY <1>4, <1>5, <1>6, MembersAssumption DEF Init, Typed
<1>8. Drains
  BY <1>4, MembersAssumption DEF Init, Drains, Places, Attributes
<1>9. Distinct /\ Agrees
  BY DEF Init, Distinct, Agrees
<1> QED BY <1>7, <1>8, <1>9 DEF IInv

-----------------------------------------------------------------------------
(***************************************************************************)
(* The macro                                                               *)
(***************************************************************************)
LEMMA FindStep == ASSUME IInv, FindField \/ SkipMember PROVE IInv'
<1>1. at \in Own /\ attrs[at] \in Attributes /\ at \in Nat \ {0} /\ at \in Places
  BY OwnIsNat DEF FindField, SkipMember, IInv, Typed, Places
<1>2. \A n \in DOMAIN attrs[at] : n \in 1 .. MaxAttrs
  BY <1>1, MembersAssumption DEF Attributes
<1>3. Typed'
  <2>1. CASE FindField
    <3>1. attrI' \in 0 .. MaxAttrs
      BY <1>2, <2>1 DEF FindField
    <3> QED BY <2>1, <3>1 DEF FindField, IInv, Typed
  <2>2. CASE SkipMember
    BY <1>1, <2>2 DEF SkipMember, IInv, Typed
  <2> QED BY <2>1, <2>2
<1>4. Drains'
  BY <1>1, MembersAssumption DEF FindField, SkipMember, IInv, Drains, Attributes
<1>5. Distinct'
  <2>1. \A n \in DOMAIN fields : fields[n] \in Nat /\ fields[n] < at
    <3>1. fields \in Seq(Own) /\ phase = "find"
      BY DEF FindField, SkipMember, IInv, Typed
    <3> QED BY <3>1, FieldType DEF IInv, Distinct
  <2> QED BY <1>1, <2>1 DEF FindField, SkipMember, IInv, Distinct
<1>6. Agrees'
  BY DEF FindField, SkipMember, Agrees
<1> QED BY <1>3, <1>4, <1>5, <1>6 DEF IInv

LEMMA DrainStep == ASSUME IInv, DrainTake \/ DrainLeave PROVE IInv'
<1>1. /\ phase = "drain" /\ at \in Places /\ attrs[at] \in Seq(Attribute)
      /\ Len(attrs[at]) <= MaxAttrs /\ i \in DOMAIN attrs[at]
  BY DEF DrainTake, DrainLeave, Draining, IInv, Typed, Drains, Attributes
<1>2. RemoveAt(attrs[at], i) \in Seq(Attribute) /\ Len(RemoveAt(attrs[at], i)) = Len(attrs[at]) - 1
  BY <1>1, Removed
<1>3. CASE DrainTake
  <2>1. /\ attrs' = [attrs EXCEPT ![at] = RemoveAt(attrs[at], i)]
        /\ metas' = [metas EXCEPT ![at] = Append(metas[at], attrs[at][i])]
        /\ UNCHANGED <<written, at, attrI, i, fields, phase, values, acked>>
    BY <1>3 DEF DrainTake
  <2>2. RemoveAt(attrs[at], i) \in Attributes
    BY <1>1, <1>2, MembersAssumption DEF Attributes
  <2>3. attrs' \in [Places -> Attributes] /\ attrs'[at] = RemoveAt(attrs[at], i)
    BY <1>1, <2>1, <2>2 DEF IInv, Typed
  <2>4. metas' \in [Places -> Seq(Attribute)]
    <3>1. metas[at] \in Seq(Attribute) /\ attrs[at][i] \in Attribute
      BY <1>1 DEF IInv, Typed
    <3>2. Append(metas[at], attrs[at][i]) \in Seq(Attribute)
      BY <3>1
    <3> QED BY <1>1, <2>1, <3>2 DEF IInv, Typed
  <2>5. Typed'
    BY <2>1, <2>3, <2>4 DEF IInv, Typed
  <2>6. Drains'
    BY <1>1, <1>2, <2>1, <2>3 DEF IInv, Drains, Typed
  <2> QED BY <1>1, <2>1, <2>5, <2>6 DEF IInv, Distinct, Agrees
<1>4. CASE DrainLeave
  BY <1>1, <1>4, MembersAssumption DEF DrainLeave, IInv, Typed, Drains, Distinct, Agrees
<1> QED BY <1>3, <1>4

LEMMA MembersStep == ASSUME IInv, ReadMembers PROVE IInv'
<1>1. fields = << >>
  <2>1. \A n \in DOMAIN fields : fields[n] \in Nat \ {0} /\ fields[n] < 0
    BY OwnIsNat DEF ReadMembers, Drained, IInv, Typed, Distinct
  <2>2. fields \in Seq(Own) /\ \A n \in 1 .. Len(fields) : FALSE
    BY <2>1 DEF IInv, Typed
  <2>3. ASSUME Len(fields) > 0 PROVE FALSE
    <3>1. 1 \in 1 .. Len(fields)
      BY <2>2, <2>3
    <3> QED BY <2>2, <3>1
  <2> QED BY <2>2, <2>3
<1> QED BY <1>1 DEF ReadMembers, IInv, Typed, Drains, Distinct, Agrees

LEMMA FinishStep == ASSUME IInv, FinishField PROVE IInv'
<1>1. /\ phase = "drain" /\ at \in Own /\ at \in Nat \ {0} /\ at \in Places
      /\ attrs[at] \in Seq(Attribute) /\ Len(attrs[at]) <= MaxAttrs
  BY OwnIsNat DEF FinishField, Drained, IInv, Typed, Drains, Attributes, Places
<1>2. CASE attrI \in DOMAIN attrs[at]
  <2>1. /\ attrs' = [attrs EXCEPT ![at] = RemoveAt(attrs[at], attrI)]
        /\ fields' = Append(fields, at) /\ at' = at + 1 /\ attrI' = 0 /\ phase' = "find"
        /\ UNCHANGED <<written, i, metas, values, acked>>
    BY <1>2 DEF FinishField
  <2>2. RemoveAt(attrs[at], attrI) \in Attributes
    BY <1>1, <1>2, Removed, MembersAssumption DEF Attributes
  <2>3. attrs' \in [Places -> Attributes]
    BY <1>1, <2>1, <2>2 DEF IInv, Typed
  <2>4. fields' \in Seq(Own)
    BY <1>1, <2>1 DEF IInv, Typed
  <2>5. Typed'
    BY <1>1, <2>1, <2>3, <2>4, MembersAssumption DEF IInv, Typed
  <2>6. Drains'
    BY <2>1 DEF IInv, Drains
  <2>7. /\ fields \in Seq(Own) /\ DOMAIN fields' = 1 .. Len(fields) + 1
        /\ \A n \in 1 .. Len(fields) : fields'[n] = fields[n] /\ fields[n] < at /\ fields[n] \in Nat
        /\ fields'[Len(fields) + 1] = at
    <3>1. fields \in Seq(Own) /\ DOMAIN fields = 1 .. Len(fields)
      BY DEF IInv, Typed
    <3>2. \A n \in DOMAIN fields : fields[n] < at /\ fields[n] \in Nat
      BY <1>1, <3>1, FieldType DEF IInv, Distinct
    <3>3. /\ DOMAIN fields' = 1 .. Len(fields) + 1 /\ fields'[Len(fields) + 1] = at
          /\ \A n \in 1 .. Len(fields) : fields'[n] = fields[n]
      BY <1>1, <2>1, <3>1
    <3> QED BY <3>1, <3>2, <3>3
  <2>8. Distinct'
    <3>1. ASSUME NEW n \in DOMAIN fields' PROVE fields'[n] < at'
      BY <1>1, <2>1, <2>7
    <3>2. ASSUME NEW m \in DOMAIN fields', NEW n \in DOMAIN fields', m < n
          PROVE fields'[m] < fields'[n]
      BY <2>7, <3>2 DEF IInv, Distinct
    <3> QED BY <3>1, <3>2 DEF Distinct
  <2>9. Agrees'
    BY <2>1 DEF Agrees
  <2> QED BY <2>5, <2>6, <2>8, <2>9 DEF IInv
<1>3. CASE attrI \notin DOMAIN attrs[at]
  BY <1>3 DEF FinishField, IInv, Typed, Drains, Distinct, Agrees
<1> QED BY <1>2, <1>3

LEMMA RenderStep == ASSUME IInv, Render PROVE IInv'
<1>1. /\ UNCHANGED <<written, attrs, at, attrI, i, metas, fields, values>>
      /\ \/ phase' = "object" /\ acked' = [n \in DOMAIN fields |-> values[fields[n]].number]
         \/ phase' = "failed" /\ acked' = acked
  BY DEF Render, building
<1>2. fields \in Seq(Own) /\ \A n \in DOMAIN fields : values[fields[n]].number \in Numbers
  <2>1. \A k \in Own : values[k].number \in Numbers
    BY DEF IInv, Typed, Value
  <2> QED BY <2>1, FieldType DEF IInv, Typed
<1>3. /\ acked' \in Seq(Numbers)
      /\ phase' = "object" =>
            /\ Len(acked') = Len(fields)
            /\ \A n \in DOMAIN fields : acked'[n] = values[fields[n]].number
  <2>1. acked \in Seq(Numbers)
    BY DEF IInv, Typed
  <2>2. CASE phase' = "object" /\ acked' = [n \in DOMAIN fields |-> values[fields[n]].number]
    <3>1. DOMAIN fields = 1 .. Len(fields) /\ Len(fields) \in Nat
      BY <1>2
    <3> QED BY <1>2, <2>2, <3>1
  <2> QED BY <1>1, <2>1, <2>2
<1>4. Typed'
  BY <1>1, <1>3 DEF IInv, Typed
<1> QED BY <1>1, <1>3, <1>4 DEF IInv, Drains, Distinct, Agrees

-----------------------------------------------------------------------------
(***************************************************************************)
(* The object                                                              *)
(***************************************************************************)
LEMMA SetStep ==
    ASSUME IInv, NEW index \in Indices, NEW value \in Value, SetValue(index, value)
    PROVE  IInv'
<1> DEFINE k == Member(index)
<1>1. /\ phase = "object" /\ index + 1 \in DOMAIN fields /\ fields \in Seq(Own)
      /\ k = fields[index + 1] /\ k \in Own /\ value.type = Members[k].type
  BY MembersAssumption DEF SetValue, Accepts, Member, IInv, Typed, Indices
<1>2. PICK number \in IF Members[k].setter THEN Numbers ELSE {value.number} :
         /\ values' = [values EXCEPT ![k] = [value EXCEPT !.number = number]]
         /\ acked' = [acked EXCEPT ![index + 1] = number]
  BY DEF SetValue
<1> HIDE DEF k
<1>3. number \in Numbers
  BY <1>2 DEF Value
<1>4. UNCHANGED <<written, attrs, at, attrI, i, metas, fields, phase>>
  BY DEF SetValue, building
<1> DEFINE new == [value EXCEPT !.number = number]
<1>5. new \in Value /\ new.type = Members[k].type /\ new.number = number
  BY <1>1, <1>3 DEF Value
<1> HIDE DEF new
<1>6. values' = [values EXCEPT ![k] = new]
  BY <1>2 DEF new
<1>7. /\ values' \in [Own -> Value] /\ values'[k] = new
      /\ \A l \in Own : l # k => values'[l] = values[l]
  BY <1>1, <1>5, <1>6 DEF IInv, Typed
<1>8. /\ acked' \in Seq(Numbers) /\ Len(acked') = Len(fields) /\ acked'[index + 1] = number
      /\ \A n \in DOMAIN fields : n # index + 1 => acked'[n] = acked[n]
  BY <1>1, <1>2, <1>3 DEF IInv, Typed, Agrees
<1>9. Typed'
  BY <1>4, <1>5, <1>7, <1>8 DEF IInv, Typed
<1>10. ASSUME NEW n \in DOMAIN fields PROVE values'[fields[n]].number = acked'[n]
  <2>1. CASE n = index + 1
    BY <1>1, <1>5, <1>7, <1>8, <2>1
  <2>2. CASE n # index + 1
    <3>1. fields[n] # k /\ fields[n] \in Own
      <4>1. fields[n] \in Nat /\ k \in Nat /\ fields[n] \in Own
        BY <1>1, FieldType
      <4>2. n < index + 1 \/ index + 1 < n
        BY <1>1, <2>2
      <4> QED BY <1>1, <4>1, <4>2 DEF IInv, Distinct
    <3> QED BY <1>1, <1>7, <1>8, <2>2, <3>1 DEF IInv, Agrees
  <2> QED BY <2>1, <2>2
<1>11. Agrees'
  BY <1>4, <1>8, <1>10 DEF Agrees
<1> QED BY <1>4, <1>9, <1>11 DEF IInv, Drains, Distinct

LEMMA Inductive == IInv /\ [Next]_vars => IInv'
<1> SUFFICES ASSUME IInv, [Next]_vars PROVE IInv'
  OBVIOUS
<1>1. CASE UNCHANGED vars
  BY <1>1 DEF vars, IInv, Typed, Drains, Distinct, Agrees
<1>2. CASE \E index \in Indices, value \in Value : RefuseValue(index, value)
  BY <1>1, <1>2 DEF RefuseValue, vars, IInv, Typed, Drains, Distinct, Agrees
<1> QED
  BY <1>1, <1>2, FindStep, DrainStep, MembersStep, FinishStep, RenderStep, SetStep DEF Next

LEMMA Invariant == Spec => []IInv
BY InitIInv, Inductive, PTL DEF Spec

-----------------------------------------------------------------------------
(***************************************************************************)
(* What the macro has read of the struct, on top of IInv                   *)
(***************************************************************************)
Source ==
    /\ written \in [Places -> Attributes]
    /\ \A k \in Places : Written(written[k])
    /\ \A n \in DOMAIN written[0] : written[0][n].kind # "field"

Untouched(k) == attrs[k] = written[k] /\ metas[k] = << >>

\* A member read: its field is removed with its metadatas, or it is not looked
\* at, or what was removed is not the #[field].
Read(k) ==
    /\ ~MetaFirst(k) /\ (k = 0 \/ Annotated(k)) =>
          Picks(attrs[k], "other", written[k]) /\ Picks(metas[k], "meta", written[k])
    /\ MetaFirst(k) => HasKind("field", attrs[k])
    /\ k # 0 /\ ~Annotated(k) => Untouched(k)

Progress ==
    phase \in {"find", "drain"} =>
        /\ \A k \in Places : k < at => Read(k)
        /\ \A k \in Places : k > at => Untouched(k)
        /\ phase = "find" => at # 0 /\ (at \in Own => Untouched(at))
        /\ phase = "drain" => Split(written[at], attrs[at], metas[at], i)
        /\ phase = "drain" /\ at # 0 => Found(written[at], attrs[at], attrI)
        /\ \A n \in DOMAIN fields : Annotated(fields[n])
        /\ \A k \in Own : k < at /\ Annotated(k) => \E n \in DOMAIN fields : fields[n] = k

DInv == Source /\ Progress /\ Derived

LEMMA InitDInv == Init => DInv
<1> SUFFICES ASSUME Init PROVE DInv
  OBVIOUS
<1>1. PICK own \in Lists(Kinds \ {"field"}), of \in [Own -> Lists(Kinds)] :
         written = [k \in {0} \cup Own |-> IF k = 0 THEN own ELSE of[k]]
  BY DEF Init
<1>2. own \in Attributes /\ Written(own) /\ \A n \in DOMAIN own : own[n].kind # "field"
  BY <1>1, Listed DEF Attributes
<1>3. \A k \in Own : of[k] \in Attributes /\ Written(of[k])
  BY <1>1, Listed DEF Attributes
<1>4. Source
  BY <1>1, <1>2, <1>3, OwnIsNat DEF Source, Places
<1>5. Split(written[0], attrs[0], metas[0], 1)
  <2>1. written[0] \in Seq(Attribute) /\ Written(written[0])
    BY <1>4 DEF Source, Places, Attributes
  <2>2. attrs[0] = written[0] /\ metas[0] = << >>
    BY DEF Init
  <2> QED BY <2>1, <2>2, SplitStart
<1>6. \A k \in Places : ~(k < 0) /\ Untouched(k)
  BY OwnIsNat DEF Init, Places, Untouched
<1>7. \A k \in Own : ~(k < 0)
  BY OwnIsNat
<1>8. Progress
  BY <1>5, <1>6, <1>7 DEF Init, Progress
<1> QED BY <1>4, <1>8 DEF Init, DInv, Derived

LEMMA FindD == ASSUME IInv, DInv, FindField PROVE DInv'
<1>1. /\ phase = "find" /\ at \in Own /\ at \in Places /\ at # 0 /\ Untouched(at)
      /\ written[at] \in Seq(Attribute) /\ Written(written[at])
  BY OwnIsNat DEF FindField, DInv, Progress, Source, Places, Attributes
<1>2. /\ attrI' \in DOMAIN written[at] /\ written[at][attrI'].kind = "field"
      /\ i' = 1 /\ phase' = "drain"
      /\ UNCHANGED <<written, attrs, at, metas, fields>>
  BY <1>1 DEF FindField, IsFirstField, Untouched
<1>3. Split(written[at], attrs[at], metas[at], 1) /\ Found(written[at], attrs[at], attrI')
  BY <1>1, <1>2, SplitStart, FoundStart DEF Untouched
<1>4. Source'
  BY <1>2 DEF DInv, Source
<1>5. Progress'
  BY <1>1, <1>2, <1>3
     DEF DInv, Progress, Read, Untouched, MetaFirst, Annotated
<1> QED BY <1>2, <1>4, <1>5 DEF DInv, Derived

LEMMA SkipD == ASSUME IInv, DInv, SkipMember PROVE DInv'
<1>1. /\ phase = "find" /\ at \in Own /\ at \in Places /\ at \in Nat /\ at # 0 /\ Untouched(at)
      /\ ~Annotated(at)
  BY OwnIsNat DEF SkipMember, DInv, Progress, Places, Untouched, Annotated, HasKind
<1>2. at' = at + 1 /\ UNCHANGED <<written, attrs, attrI, i, metas, fields, phase>>
  BY DEF SkipMember
<1>3. Source'
  BY <1>2 DEF DInv, Source
<1>4. Read(at)
  BY <1>1 DEF Read, MetaFirst
<1>5. ASSUME NEW k \in Places PROVE (k < at' => k < at \/ k = at) /\ (k > at' => k > at) /\ (k = at' => k > at)
  BY <1>1, <1>2, OwnIsNat DEF Places
<1>6. /\ \A k \in Places : k < at' => Read(k)
      /\ \A k \in Places : k >= at' => Untouched(k)
  <2>1. \A k \in Places : k >= at' => k > at
    BY <1>1, <1>2, OwnIsNat DEF Places
  <2> QED BY <1>1, <1>4, <1>5, <2>1 DEF DInv, Progress
<1>7. /\ \A n \in DOMAIN fields : Annotated(fields[n])
      /\ \A k \in Own : k < at' /\ Annotated(k) => \E n \in DOMAIN fields : fields[n] = k
  BY <1>1, <1>5 DEF DInv, Progress, Places
<1>8. at' # 0 /\ (at' \in Own => at' \in Places /\ at' >= at')
  BY <1>1, <1>2 DEF Places
<1>9. Progress'
  BY <1>1, <1>2, <1>6, <1>7, <1>8
     DEF Progress, Read, Untouched, MetaFirst, Annotated
<1> QED BY <1>1, <1>2, <1>3, <1>9 DEF DInv, Derived

LEMMA DrainD == ASSUME IInv, DInv, DrainTake \/ DrainLeave PROVE DInv'
<1>1. /\ phase = "drain" /\ at \in Places
      /\ written[at] \in Seq(Attribute) /\ attrs[at] \in Seq(Attribute) /\ metas[at] \in Seq(Attribute)
      /\ i \in DOMAIN attrs[at]
      /\ UNCHANGED <<written, at, attrI, fields, phase>>
  <2>1. /\ phase = "drain" /\ at \in Places /\ i # Len(attrs[at]) + 1
        /\ UNCHANGED <<written, at, attrI, fields, phase>>
    BY DEF DrainTake, DrainLeave, Draining, IInv, Drains
  <2>2. /\ written[at] \in Seq(Attribute) /\ attrs[at] \in Seq(Attribute)
        /\ metas[at] \in Seq(Attribute)
    BY <2>1 DEF IInv, Typed, Attributes, DInv, Source
  <2>3. i \in Nat \ {0} /\ i <= Len(attrs[at]) + 1
    BY <2>1 DEF IInv, Typed, Drains
  <2> QED BY <2>1, <2>2, <2>3
<1>2. /\ Split(written[at], attrs[at], metas[at], i)
      /\ at # 0 => Found(written[at], attrs[at], attrI)
  BY <1>1 DEF DInv, Progress
<1>3. /\ Split(written[at], attrs'[at], metas'[at], i')
      /\ at # 0 => Found(written[at], attrs'[at], attrI)
      /\ \A k \in Places : k # at => attrs'[k] = attrs[k] /\ metas'[k] = metas[k]
  <2>1. CASE DrainLeave
    <3>1. attrs[at][i].kind # "meta" /\ i' = i + 1 /\ UNCHANGED <<attrs, metas>>
      BY <2>1 DEF DrainLeave
    <3> QED BY <1>1, <1>2, <3>1, SplitLeave
  <2>2. CASE DrainTake
    <3>1. /\ attrs[at][i].kind = "meta" /\ i' = i
          /\ attrs' = [attrs EXCEPT ![at] = RemoveAt(attrs[at], i)]
          /\ metas' = [metas EXCEPT ![at] = Append(metas[at], attrs[at][i])]
      BY <2>2 DEF DrainTake
    <3>2. attrs \in [Places -> Attributes] /\ metas \in [Places -> Seq(Attribute)]
      BY DEF IInv, Typed
    <3>3. /\ attrs'[at] = RemoveAt(attrs[at], i) /\ metas'[at] = Append(metas[at], attrs[at][i])
          /\ \A k \in Places : k # at => attrs'[k] = attrs[k] /\ metas'[k] = metas[k]
      BY <1>1, <3>1, <3>2
    <3>4. Split(written[at], RemoveAt(attrs[at], i), Append(metas[at], attrs[at][i]), i)
      BY <1>1, <1>2, <3>1, SplitTake
    <3>5. at # 0 => Found(written[at], RemoveAt(attrs[at], i), attrI)
      BY <1>1, <1>2, <3>1, FoundTake
    <3> QED BY <3>1, <3>3, <3>4, <3>5
  <2> QED BY <2>1, <2>2
<1>4. Source'
  BY <1>1 DEF DInv, Source
<1>5. \A k \in Places : (k < at => k # at) /\ (k > at => k # at)
  BY OwnIsNat DEF Places
<1>6. /\ \A k \in Places : k < at => Read(k)'
      /\ \A k \in Places : k > at => Untouched(k)'
  BY <1>1, <1>3, <1>5 DEF DInv, Progress, Read, Untouched, MetaFirst, Annotated
<1>7. Progress'
  BY <1>1, <1>3, <1>6 DEF DInv, Progress, Annotated
<1> QED BY <1>1, <1>4, <1>7 DEF DInv, Derived

LEMMA MembersD == ASSUME IInv, DInv, ReadMembers PROVE DInv'
<1>1. /\ phase = "drain" /\ at = 0 /\ i = Len(attrs[0]) + 1 /\ 0 \in Places
      /\ at' = 1 /\ phase' = "find" /\ UNCHANGED <<written, attrs, attrI, i, metas, fields>>
  BY DEF ReadMembers, Drained, Places
<1>2. /\ written[0] \in Seq(Attribute) /\ attrs[0] \in Seq(Attribute) /\ metas[0] \in Seq(Attribute)
      /\ Written(written[0]) /\ Split(written[0], attrs[0], metas[0], Len(attrs[0]) + 1)
  BY <1>1 DEF IInv, Typed, Attributes, DInv, Source, Progress
<1>3. Picks(metas[0], "meta", written[0])
  BY <1>2, SplitEnd
<1>4. Picks(attrs[0], "other", written[0])
  <2>1. Part(attrs[0], written[0])
    BY <1>2 DEF Split
  <2>2. /\ \A k \in DOMAIN attrs[0] : attrs[0][k].kind # "meta"
        /\ \A k \in DOMAIN written[0] :
              written[0][k].kind # "meta" => \E l \in DOMAIN attrs[0] : attrs[0][l] = written[0][k]
    BY <1>2, SplitEnd
  <2>3. \A k \in DOMAIN attrs[0] : attrs[0][k].kind = "other"
    <3>1. \A k \in DOMAIN attrs[0] : attrs[0][k].kind \in Kinds
      BY <1>2, Element
    <3>2. \A k \in DOMAIN attrs[0] : attrs[0][k].kind # "field"
      BY <2>1 DEF Part, DInv, Source
    <3> QED BY <2>2, <3>1, <3>2 DEF Kinds
  <2>4. \A k \in DOMAIN written[0] : written[0][k].kind = "other" => written[0][k].kind # "meta"
    OBVIOUS
  <2> QED BY <2>1, <2>2, <2>3, <2>4 DEF Part, Picks
<1>5. Source'
  BY <1>1 DEF DInv, Source
<1>6. Read(0)
  BY <1>3, <1>4 DEF Read, MetaFirst, Annotated
<1>7. /\ \A k \in Places : k < 1 => k = 0
      /\ \A k \in Places : k >= 1 => k > 0
      /\ \A k \in Own : ~(k < 1)
  BY OwnIsNat DEF Places
<1>8. \A k \in Places : k >= 1 => Untouched(k)
  BY <1>1, <1>7 DEF DInv, Progress
<1>9. \A k \in Places : k > 1 => k >= 1
  BY OwnIsNat DEF Places
<1>10. 1 \in Own => Untouched(1)
  BY <1>8 DEF Places
<1>11. Progress'
  BY <1>1, <1>6, <1>7, <1>8, <1>9, <1>10
     DEF DInv, Progress, Read, Untouched, MetaFirst, Annotated
<1> QED BY <1>1, <1>5, <1>11 DEF DInv, Derived

LEMMA FinishD == ASSUME IInv, DInv, FinishField PROVE DInv'
<1>1. /\ phase = "drain" /\ at \in Own /\ at \in Places /\ at \in Nat /\ at # 0
      /\ written[at] \in Seq(Attribute) /\ attrs[at] \in Seq(Attribute) /\ metas[at] \in Seq(Attribute)
      /\ i = Len(attrs[at]) + 1 /\ Written(written[at])
      /\ UNCHANGED <<written, i, metas>>
  BY OwnIsNat DEF FinishField, Drained, IInv, Typed, Drains, Attributes, Places, DInv, Source
<1>2. /\ Split(written[at], attrs[at], metas[at], Len(attrs[at]) + 1)
      /\ Found(written[at], attrs[at], attrI)
  BY <1>1 DEF DInv, Progress
<1>3. attrI \in DOMAIN written[at] /\ written[at][attrI].kind = "field" /\ Annotated(at)
  BY <1>1, <1>2 DEF Found, Annotated, HasKind
<1>4. /\ ~MetaFirst(at) => \A k \in DOMAIN written[at] : k < attrI => written[at][k].kind # "meta"
      /\ MetaFirst(at) => \E k \in DOMAIN written[at] : k < attrI /\ written[at][k].kind = "meta"
  <2>1. ~MetaFirst(at) => \A k \in DOMAIN written[at] : k < attrI => written[at][k].kind # "meta"
    BY <1>3 DEF MetaFirst
  <2>2. ASSUME MetaFirst(at)
        PROVE  \E k \in DOMAIN written[at] : k < attrI /\ written[at][k].kind = "meta"
    <3>1. PICK a, b \in DOMAIN written[at] :
             a < b /\ written[at][a].kind = "meta" /\ written[at][b].kind = "field"
      BY <2>2 DEF MetaFirst
    <3>2. b = attrI
      BY <1>1, <1>3, <3>1 DEF Written
    <3> QED BY <3>1, <3>2
  <2> QED BY <2>1, <2>2
<1>5. ~MetaFirst(at) =>
         attrI \in DOMAIN attrs[at] /\ Picks(RemoveAt(attrs[at], attrI), "other", written[at])
  BY <1>1, <1>2, <1>4, FieldRemoved
<1>6. Source'
  BY <1>1 DEF DInv, Source
<1>7. CASE attrI \in DOMAIN attrs[at]
  <2>1. /\ attrs' = [attrs EXCEPT ![at] = RemoveAt(attrs[at], attrI)]
        /\ fields' = Append(fields, at) /\ at' = at + 1 /\ phase' = "find"
    BY <1>7 DEF FinishField
  <2>2. /\ attrs'[at] = RemoveAt(attrs[at], attrI)
        /\ \A k \in Places : k # at => attrs'[k] = attrs[k]
    BY <1>1, <2>1 DEF IInv, Typed
  <2>3. MetaFirst(at) => HasKind("field", attrs'[at])
    <3>1. ASSUME MetaFirst(at) PROVE HasKind("field", RemoveAt(attrs[at], attrI))
      <4>1. PICK b \in DOMAIN written[at] : b < attrI /\ written[at][b].kind = "meta"
        BY <1>4, <3>1
      <4> QED BY <1>1, <1>2, <1>7, <4>1, FieldLeft
    <3> QED BY <2>2, <3>1
  <2>4. Picks(metas[at], "meta", written[at])
    BY <1>1, <1>2, SplitEnd
  <2>5. ASSUME NEW k \in Places, k = at PROVE Read(k)'
    <3>1. Annotated(k) /\ k # 0 /\ (Annotated(k) <=> Annotated(k)') /\ (MetaFirst(k) <=> MetaFirst(k)')
      BY <1>1, <1>3, <2>5 DEF Annotated, MetaFirst
    <3>2. /\ ~MetaFirst(k) => Picks(attrs'[k], "other", written'[k])
          /\ Picks(metas'[k], "meta", written'[k])
          /\ MetaFirst(k) => HasKind("field", attrs'[k])
      BY <1>1, <1>5, <2>2, <2>3, <2>4, <2>5
    <3> QED BY <3>1, <3>2 DEF Read
  <2>6. ASSUME NEW k \in Places, k < at PROVE Read(k)'
    <3>1. k # at
      BY <1>1, <2>6
    <3>2. attrs'[k] = attrs[k] /\ Read(k)
      BY <1>1, <2>2, <2>6, <3>1 DEF DInv, Progress
    <3> QED BY <1>1, <3>2 DEF Read, Untouched, MetaFirst, Annotated
  <2>7. ASSUME NEW k \in Places, k > at PROVE Untouched(k)'
    <3>1. k # at /\ attrs'[k] = attrs[k] /\ Untouched(k)
      BY <1>1, <2>2, <2>7 DEF DInv, Progress
    <3> QED BY <1>1, <3>1 DEF Untouched
  <2>8. ASSUME NEW k \in Places
        PROVE  (k < at + 1 => k < at \/ k = at) /\ (k >= at + 1 => k > at)
    BY <1>1, OwnIsNat DEF Places
  <2>9. /\ \A n \in DOMAIN fields' : Annotated(fields'[n])
        /\ \A k \in Own : k < at + 1 /\ Annotated(k) => \E n \in DOMAIN fields' : fields'[n] = k
    <3>1. /\ fields \in Seq(Own) /\ DOMAIN fields' = 1 .. Len(fields) + 1
          /\ fields'[Len(fields) + 1] = at
          /\ \A n \in DOMAIN fields : fields'[n] = fields[n] /\ n \in DOMAIN fields'
      BY <1>1, <2>1 DEF IInv, Typed
    <3>2. ASSUME NEW n \in DOMAIN fields' PROVE Annotated(fields'[n])
      <4>1. n = Len(fields) + 1 \/ n \in DOMAIN fields
        BY <3>1
      <4> QED BY <1>1, <1>3, <3>1, <4>1 DEF DInv, Progress
    <3>3. ASSUME NEW k \in Own, k < at + 1, Annotated(k)
          PROVE  \E n \in DOMAIN fields' : fields'[n] = k
      <4>1. CASE k = at
        <5>1. Len(fields) + 1 \in DOMAIN fields'
          BY <3>1
        <5> QED BY <3>1, <4>1, <5>1
      <4>2. CASE k < at
        BY <1>1, <3>1, <3>3, <4>2 DEF DInv, Progress
      <4> QED BY <2>8, <3>3, <4>1, <4>2 DEF Places
    <3> QED BY <3>2, <3>3
  <2>10. /\ \A n \in DOMAIN fields' : Annotated(fields[n])'
         /\ \A k \in Own : k < at' /\ Annotated(k)' => \E n \in DOMAIN fields' : fields'[n] = k
    <3>1. \A k : Annotated(k)' <=> Annotated(k)
      BY <1>1 DEF Annotated
    <3>2. \A n \in DOMAIN fields' : Annotated(fields[n])'
      BY <1>1, <2>9 DEF Annotated
    <3> QED BY <2>1, <2>9, <3>1, <3>2
  <2>11. at' # 0 /\ (at' \in Own => Untouched(at)')
    <3>1. ASSUME NEW k \in Places, k = at + 1 PROVE Untouched(k)'
      BY <1>1, <2>7, <2>8, <3>1
    <3> QED BY <1>1, <2>1, <3>1 DEF Places, Untouched
  <2>12. Progress'
    <3>1. ASSUME NEW k \in Places, k < at' PROVE Read(k)'
      BY <2>1, <2>5, <2>6, <2>8, <3>1
    <3>2. ASSUME NEW k \in Places, k > at' PROVE Untouched(k)'
      <4>1. k > at
        BY <1>1, <2>1, <3>2 DEF Places
      <4> QED BY <2>7, <4>1
    <3>3. phase' = "find"
      BY <2>1
    <3> QED BY <2>10, <2>11, <3>1, <3>2, <3>3 DEF Progress
  <2>13. Derived'
    BY <2>1 DEF Derived
  <2> QED BY <1>6, <2>12, <2>13 DEF DInv
<1>8. CASE attrI \notin DOMAIN attrs[at]
  BY <1>1, <1>5, <1>6, <1>8 DEF FinishField, DInv, Progress, Derived, MetaFirst, Annotated
<1> QED BY <1>7, <1>8

LEMMA RenderD == ASSUME IInv, DInv, Render PROVE DInv'
<1>1. /\ phase = "find" /\ at \notin Own /\ at \in Nat /\ at # 0
      /\ UNCHANGED <<written, attrs, at, attrI, i, metas, fields>>
      /\ written \in [Places -> Attributes] /\ attrs \in [Places -> Attributes]
  BY DEF Render, building, IInv, Typed, DInv, Source, Progress
<1>2. ASSUME NEW k \in Places PROVE k < at /\ Read(k)
  <2>1. k < at
    BY <1>1, MembersAssumption DEF Places, Own
  <2> QED BY <1>1, <2>1 DEF DInv, Progress
<1>3. Source'
  BY <1>1 DEF DInv, Source
<1>4. CASE \A k \in DOMAIN attrs : \A n \in DOMAIN attrs[k] : attrs[k][n].kind = "other"
  <2>1. phase' = "object"
    BY <1>4 DEF Render
  <2>2. ASSUME NEW k \in Places
        PROVE  Picks(attrs[k], "other", written[k]) /\ Picks(metas[k], "meta", written[k])
    <3>1. \A n \in DOMAIN attrs[k] : attrs[k][n].kind = "other"
      BY <1>1, <1>4
    <3>2. ~MetaFirst(k)
      BY <1>2, <3>1 DEF Read, HasKind
    <3>3. CASE k = 0 \/ Annotated(k)
      BY <1>2, <3>2, <3>3 DEF Read
    <3>4. CASE k # 0 /\ ~Annotated(k)
      <4>1. /\ attrs[k] = written[k] /\ metas[k] = << >>
            /\ written[k] \in Seq(Attribute) /\ Written(written[k])
        BY <1>1, <1>2, <3>4 DEF Read, Untouched, DInv, Source, Attributes
      <4>2. Picks(written[k], "other", written[k])
        BY <3>1, <4>1 DEF Picks, Written
      <4>3. Picks(<< >>, "meta", written[k])
        BY <3>1, <4>1 DEF Picks
      <4> QED BY <4>1, <4>2, <4>3
    <3> QED BY <3>3, <3>4
  <2>3. ToSet(fields) = {k \in Own : Annotated(k)}
    <3>1. fields \in Seq(Own) /\ \A n \in DOMAIN fields : Annotated(fields[n])
      BY <1>1 DEF IInv, Typed, DInv, Progress
    <3>2. \A k \in Own : Annotated(k) => \E n \in DOMAIN fields : fields[n] = k
      BY <1>1, <1>2 DEF DInv, Progress, Places
    <3> QED BY <3>1, <3>2 DEF ToSet
  <2>4. \A m, n \in DOMAIN fields : m < n => fields[m] < fields[n]
    BY DEF IInv, Distinct
  <2>5. Derived'
    <3>1. DOMAIN written = Places
      BY <1>1
    <3> QED BY <1>1, <2>1, <2>2, <2>3, <2>4, <3>1 DEF Derived, Annotated
  <2> QED BY <1>3, <2>1, <2>5 DEF DInv, Progress
<1>5. CASE ~(\A k \in DOMAIN attrs : \A n \in DOMAIN attrs[k] : attrs[k][n].kind = "other")
  <2>1. phase' = "failed"
    BY <1>5 DEF Render
  <2>2. PICK k \in Places : \E n \in DOMAIN attrs[k] : attrs[k][n].kind # "other"
    BY <1>1, <1>5
  <2>3. PICK n \in DOMAIN attrs[k] : attrs[k][n].kind # "other"
    BY <2>2
  <2>4. ~Picks(attrs[k], "other", written[k])
    BY <2>3 DEF Picks
  <2>5. MetaFirst(k) \/ (k # 0 /\ ~Annotated(k))
    BY <1>2, <2>4 DEF Read
  <2>6. CASE MetaFirst(k)
    <3>1. k \in Own
      BY <2>6 DEF MetaFirst, Annotated, Places
    <3> QED BY <1>1, <1>3, <2>1, <2>6, <3>1 DEF DInv, Progress, Derived, MetaFirst, Annotated
  <2>7. CASE k # 0 /\ ~Annotated(k)
    <3>1. k \in Own /\ attrs[k] = written[k] /\ written[k] \in Seq(Attribute)
      BY <1>1, <1>2, <2>7 DEF Read, Untouched, Places, Attributes
    <3>2. n \in DOMAIN written[k] /\ written[k][n].kind \in Kinds /\ written[k][n].kind # "other"
      BY <2>3, <3>1, Element
    <3>3. written[k][n].kind = "meta"
      BY <2>7, <3>2 DEF Annotated, HasKind, Kinds
    <3>4. HasKind("meta", written[k])
      BY <3>2, <3>3 DEF HasKind
    <3> QED BY <1>1, <1>3, <2>1, <2>7, <3>1, <3>4 DEF DInv, Progress, Derived, MetaFirst, Annotated
  <2> QED BY <2>5, <2>6, <2>7
<1> QED BY <1>4, <1>5

LEMMA KeepD == ASSUME DInv, UNCHANGED <<building, phase>> PROVE DInv'
BY DEF DInv, building, Source, Progress, Derived, Read, Untouched, MetaFirst, Annotated

LEMMA InductiveD == IInv /\ DInv /\ [Next]_vars => DInv'
<1> SUFFICES ASSUME IInv, DInv, [Next]_vars PROVE DInv'
  OBVIOUS
<1>1. CASE UNCHANGED vars
  BY <1>1, KeepD DEF vars, building
<1>2. CASE \E index \in Indices, value \in Value : RefuseValue(index, value)
  BY <1>2, KeepD DEF RefuseValue, vars, building
<1>3. CASE \E index \in Indices, value \in Value : SetValue(index, value)
  BY <1>3, KeepD DEF SetValue
<1> QED
  BY <1>1, <1>2, <1>3, FindD, SkipD, DrainD, MembersD, FinishD, RenderD DEF Next

LEMMA InvariantD == Spec => []DInv
BY Invariant, InitDInv, InductiveD, PTL DEF Spec

-----------------------------------------------------------------------------
(***************************************************************************)
(* Theorems                                                                *)
(***************************************************************************)
\* The macro never reads an attribute beyond the end of a list it removes from
\* (drain_attrs, attrs.remove), and members keep their types.
THEOREM TypeCorrect == Spec => []TypeOK
<1>1. IInv => TypeOK
  BY MembersAssumption DEF IInv, Typed, Drains, TypeOK, Places, Attributes
<1> QED BY <1>1, Invariant, PTL

\* What set_value acknowledged for an index is what get_value returns for it,
\* whatever was set or refused in between, for structs of any number of members.
THEOREM ValuesKept == Spec => []Acknowledged
<1>1. IInv => Acknowledged
  BY DEF IInv, Agrees, Acknowledged
<1> QED BY <1>1, Invariant, PTL
\* Whatever attributes a struct has and in whatever order, #[object] declares
\* the members with #[field], in order, each with all its #[meta], and leaves
\* the attributes of others; or it fails, for a #[meta] out of place.
THEOREM DerivedRight == Spec => []Derived
<1>1. DInv => Derived
  BY DEF DInv
<1> QED BY <1>1, InvariantD, PTL
=============================================================================
