----------------------------- MODULE GraphProofs -----------------------------
(***************************************************************************)
(* Proofs about Graph, for every number of nodes and edges, all kinds of   *)
(* units and every capacity of the transport.                              *)
(***************************************************************************)
EXTENDS Graph, FiniteSetTheorems, TLAPS

-----------------------------------------------------------------------------
(***************************************************************************)
(* Edits                                                                   *)
(***************************************************************************)
UnitsOK ==
    /\ kind \in [Indices -> Kinds \cup {"vacant"}] /\ channels \in [Indices -> Nat]
    /\ order \in [Indices -> Nat] /\ edges \subseteq Edge /\ nChannels \in Nat

\* Edges connect nodes that are there, and no two have the same index.
Links ==
    /\ \A e \in edges : e.parent \in Live /\ e.child \in Live
    /\ \A e, f \in edges : e.id = f.id => e = f

\* What an edit may do: unless it marks the graph as edited it only removes.
Edited ==
    /\ phase' = phase \/ phase' = "panicked"
    /\ edited' = TRUE \/ (edited' = edited /\ edges' \subseteq edges /\ Live' \subseteq Live)

LEMMA ChannelsType == ASSUME NEW k, NEW c \in ChannelsOf(k) PROVE c \in Nat
BY IndicesAssumption DEF ChannelsOf

LEMMA InsertEffect ==
    ASSUME UnitsOK, NEW n \in Indices, NEW k \in Kinds, NEW c \in ChannelsOf(k), Insert(n, k, c)
    PROVE  /\ kind' \in [Indices -> Kinds \cup {"vacant"}] /\ channels' \in [Indices -> Nat]
           /\ order' \in [Indices -> Nat] /\ nChannels' \in Nat
           /\ Live' = Live \cup {n} /\ edited' = TRUE
<1>1. c \in Nat
  BY ChannelsType
<1>2. k # "vacant"
  BY IndicesAssumption
<1>3. /\ kind' \in [Indices -> Kinds \cup {"vacant"}] /\ channels' \in [Indices -> Nat]
      /\ order' \in [Indices -> Nat] /\ nChannels' \in Nat /\ edited' = TRUE
  BY <1>1 DEF UnitsOK, Insert, Larger
<1>4. Live' = Live \cup {n}
  BY <1>2 DEF UnitsOK, Insert, Live
<1> QED BY <1>3, <1>4

LEMMA ConnectEffect ==
    ASSUME edges \subseteq Edge, NEW present, NEW parent \in Indices, NEW child \in Indices,
           \A e \in edges : e.parent \in present /\ e.child \in present,
           \A e, f \in edges : e.id = f.id => e = f,
           Connect(parent, child, present)
    PROVE  /\ edges' \subseteq Edge
           /\ \A e \in edges' : e.parent \in present /\ e.child \in present
           /\ \A e, f \in edges' : e.id = f.id => e = f
           /\ phase' = phase \/ phase' = "panicked"
<1>1. CASE {parent, child} \subseteq present
  <2>1. PICK i \in EdgeIndices \ {e.id : e \in edges} :
          edges' = edges \cup {[id |-> i, parent |-> parent, child |-> child]}
    BY <1>1 DEF Connect
  <2> DEFINE new == [id |-> i, parent |-> parent, child |-> child]
  <2>2. /\ new \in Edge /\ new.id = i /\ new.parent = parent /\ new.child = child
        /\ \A e \in edges : e.id # i
    BY <2>1 DEF Edge
  <2>3. edges' = edges \cup {new} /\ phase' = phase
    BY <1>1, <2>1 DEF Connect
  <2> HIDE DEF new
  <2> QED BY <1>1, <2>2, <2>3
<1>2. CASE ~ ({parent, child} \subseteq present)
  BY <1>2 DEF Connect
<1> QED BY <1>1, <1>2

LEMMA MethodEffect ==
    ASSUME UnitsOK, Links, edited \in BOOLEAN, Method
    PROVE  UnitsOK' /\ Links' /\ Edited /\ edited' \in BOOLEAN
<1>1. ASSUME NEW n \in Indices, NEW k \in Kinds, NEW c \in ChannelsOf(k), AddNode(n, k, c)
      PROVE  UnitsOK' /\ Links' /\ Edited /\ edited' \in BOOLEAN
  <2>1. edges' = edges /\ phase' = phase /\ Insert(n, k, c)
    BY <1>1 DEF AddNode
  <2>2. /\ kind' \in [Indices -> Kinds \cup {"vacant"}] /\ channels' \in [Indices -> Nat]
        /\ order' \in [Indices -> Nat] /\ nChannels' \in Nat
        /\ Live' = Live \cup {n} /\ edited' = TRUE
    BY <2>1, InsertEffect
  <2> QED BY <2>1, <2>2 DEF UnitsOK, Links, Edited
<1>2. ASSUME NEW n \in Indices, NEW k \in Kinds, NEW c \in ChannelsOf(k),
             NEW parent \in Indices, AddChild(parent, n, k, c)
      PROVE  UnitsOK' /\ Links' /\ Edited /\ edited' \in BOOLEAN
  <2>1. Insert(n, k, c) /\ Connect(parent, n, Live \cup {n})
    BY <1>2 DEF AddChild
  <2>2. /\ kind' \in [Indices -> Kinds \cup {"vacant"}] /\ channels' \in [Indices -> Nat]
        /\ order' \in [Indices -> Nat] /\ nChannels' \in Nat
        /\ Live' = Live \cup {n} /\ edited' = TRUE
    BY <2>1, InsertEffect
  <2>3. \A e \in edges : e.parent \in Live \cup {n} /\ e.child \in Live \cup {n}
    BY DEF Links
  <2>4. /\ edges' \subseteq Edge
        /\ \A e \in edges' : e.parent \in Live \cup {n} /\ e.child \in Live \cup {n}
        /\ \A e, f \in edges' : e.id = f.id => e = f
        /\ phase' = phase \/ phase' = "panicked"
    <3> DEFINE present == Live \cup {n}
    <3>1. /\ \A e \in edges : e.parent \in present /\ e.child \in present
          /\ edges \subseteq Edge /\ \A e, f \in edges : e.id = f.id => e = f
          /\ Connect(parent, n, present)
      BY <2>1, <2>3 DEF Links, UnitsOK
    <3> HIDE DEF present
    <3>2. /\ edges' \subseteq Edge
          /\ \A e \in edges' : e.parent \in present /\ e.child \in present
          /\ \A e, f \in edges' : e.id = f.id => e = f
          /\ phase' = phase \/ phase' = "panicked"
      BY <3>1, ConnectEffect
    <3> QED BY <3>2 DEF present
  <2> QED BY <2>2, <2>4 DEF UnitsOK, Links, Edited
<1>3. ASSUME NEW parent \in Indices, NEW child \in Indices, AddEdge(parent, child)
      PROVE  UnitsOK' /\ Links' /\ Edited /\ edited' \in BOOLEAN
  <2>1. /\ Connect(parent, child, Live) /\ edited' = TRUE
        /\ UNCHANGED <<kind, channels, order, nChannels>>
    BY <1>3 DEF AddEdge
  <2>2. /\ edges' \subseteq Edge
        /\ \A e \in edges' : e.parent \in Live /\ e.child \in Live
        /\ \A e, f \in edges' : e.id = f.id => e = f
        /\ phase' = phase \/ phase' = "panicked"
    BY <2>1, ConnectEffect DEF Links, UnitsOK
  <2>3. Live' = Live
    BY <2>1 DEF Live
  <2> QED BY <2>1, <2>2, <2>3 DEF UnitsOK, Links, Edited
<1>4. ASSUME UNCHANGED <<kind, channels, order, nChannels, phase, edited>>, edges' \subseteq edges
      PROVE  UnitsOK' /\ Links' /\ Edited /\ edited' \in BOOLEAN
  <2>1. Live' = Live
    BY <1>4 DEF Live
  <2> QED BY <1>4, <2>1 DEF UnitsOK, Links, Edited
<1>5. ASSUME NEW parent \in Indices, NEW child \in Indices, DisconnectNodes(parent, child)
      PROVE  UnitsOK' /\ Links' /\ Edited /\ edited' \in BOOLEAN
  BY <1>4, <1>5 DEF DisconnectNodes
<1>6. ASSUME NEW n \in Indices, RemoveNode(n)
      PROVE  UnitsOK' /\ Links' /\ Edited /\ edited' \in BOOLEAN
  <2>1. /\ kind' = [kind EXCEPT ![n] = "vacant"]
        /\ edges' = {e \in edges : e.parent # n /\ e.child # n}
        /\ channels' = [channels EXCEPT ![n] = 0] /\ order' = [order EXCEPT ![n] = 0]
        /\ UNCHANGED <<nChannels, phase, edited>>
    BY <1>6 DEF RemoveNode
  <2>2. Live' = Live \ {n}
    BY <2>1 DEF Live, UnitsOK
  <2>3. UnitsOK'
    BY <2>1 DEF UnitsOK
  <2> QED BY <2>1, <2>2, <2>3 DEF Links, Edited
<1>7. ASSUME NEW i \in EdgeIndices, RemoveEdge(i)
      PROVE  UnitsOK' /\ Links' /\ Edited /\ edited' \in BOOLEAN
  BY <1>4, <1>7 DEF RemoveEdge
<1> QED BY <1>1, <1>2, <1>3, <1>5, <1>6, <1>7 DEF Method

-----------------------------------------------------------------------------
(***************************************************************************)
(* Sorts and cycles, of any nodes L and edges E                            *)
(***************************************************************************)
Before == OpToRel(<, Nat)

LEMMA BeforeMeans == \A x, y \in Nat : <<x, y>> \in Before <=> x < y
BY Zenon DEF Before, OpToRel

LEMMA Least == ASSUME NEW S, S \subseteq Nat, S # {} PROVE \E m \in S : \A k \in S : m <= k
<1>1. IsWellFoundedOn(Before, Nat)
  BY NatLessThanWellFounded DEF Before
<1>2. PICK m \in S : \A k \in S : <<k, m>> \notin Before
  BY <1>1, WFMin
<1>3. ASSUME NEW k \in S PROVE m <= k
  <2>1. k \in Nat /\ m \in Nat
    OBVIOUS
  <2>2. ~(k < m)
    BY <2>1, <1>2, BeforeMeans, Zenon
  <2> QED BY <2>1, <2>2
<1> QED BY <1>3

\* Every set of nodes has one without a parent in the set.
Acyclic(L, E) ==
    \A C \in SUBSET L : C # {} => \E n \in C : \A e \in E : e.child = n => e.parent \notin C

Sorted(s, L, E) ==
    /\ \A n \in L : \E i \in DOMAIN s : s[i] = n
    /\ \A i, j \in DOMAIN s : s[i] = s[j] => i = j
    /\ \A e \in E : \A i, j \in DOMAIN s : (s[i] = e.parent /\ s[j] = e.child) => i < j

\* The nodes of s are different, and each comes after its parents.
Prefix(s, k, E) ==
    /\ \A i, j \in 1 .. k : s[i] = s[j] => i = j
    /\ \A e \in E, j \in 1 .. k : s[j] = e.child => \E i \in 1 .. j - 1 : s[i] = e.parent

\* Of a set of sorted nodes the first has no parent in the set.
LEMMA SortedAcyclic ==
    ASSUME NEW L, NEW E, NEW N \in Nat, NEW s \in [1 .. N -> L], Sorted(s, L, E)
    PROVE  Acyclic(L, E)
<1> SUFFICES ASSUME NEW C \in SUBSET L, C # {}
             PROVE  \E n \in C : \A e \in E : e.child = n => e.parent \notin C
  BY DEF Acyclic
<1> DEFINE places == {i \in 1 .. N : s[i] \in C}
<1>1. places \subseteq Nat /\ places # {}
  BY DEF Sorted
<1>2. PICK m \in places : \A i \in places : m <= i
  <2> HIDE DEF places
  <2> QED BY <1>1, Least
<1>3. ASSUME NEW e \in E, e.child = s[m], e.parent \in C PROVE FALSE
  <2>1. PICK i \in 1 .. N : s[i] = e.parent
    BY <1>3 DEF Sorted
  <2>2. i < m
    BY <1>3, <2>1 DEF Sorted
  <2> QED BY <1>2, <1>3, <2>1, <2>2
<1> QED BY <1>3

\* A prefix that has not all nodes is followed by one whose parents it has.
LEMMA PrefixGrows ==
    ASSUME NEW L, NEW E, IsFiniteSet(L), Acyclic(L, E), \A e \in E : e.parent \in L,
           NEW k \in Nat, NEW s \in [1 .. k -> L], Prefix(s, k, E), k # Cardinality(L)
    PROVE  k < Cardinality(L) /\ \E t \in [1 .. k + 1 -> L] : Prefix(t, k + 1, E)
<1> DEFINE rest == {n \in L : \A i \in 1 .. k : s[i] # n}
<1>1. /\ IsFiniteSet(1 .. k) /\ Cardinality(1 .. k) = k
      /\ Cardinality(L) \in Nat
  BY FS_Interval, FS_CardinalityType
<1>2. s \in Injection(1 .. k, L)
  BY DEF Prefix, Injection, IsInjective
<1>3. k <= Cardinality(L) /\ s \notin Surjection(1 .. k, L)
  BY <1>1, <1>2, FS_Injection
<1>4. rest \in SUBSET L /\ rest # {}
  BY <1>3 DEF Surjection
<1>5. PICK n \in rest : \A e \in E : e.child = n => e.parent \notin rest
  <2> HIDE DEF rest
  <2> QED BY <1>4 DEF Acyclic
<1> DEFINE t == [i \in 1 .. k + 1 |-> IF i <= k THEN s[i] ELSE n]
<1>6. t \in [1 .. k + 1 -> L] /\ t[k + 1] = n /\ \A i \in 1 .. k : t[i] = s[i]
  OBVIOUS
<1>7. \A i \in 1 .. k + 1 : i \in 1 .. k \/ i = k + 1
  OBVIOUS
<1> HIDE DEF t
<1>8. \A i, j \in 1 .. k + 1 : t[i] = t[j] => i = j
  BY <1>6, <1>7 DEF Prefix
<1>9. ASSUME NEW e \in E, NEW j \in 1 .. k + 1, t[j] = e.child
      PROVE  \E i \in 1 .. j - 1 : t[i] = e.parent
  <2>1. CASE j \in 1 .. k
    <3>1. PICK i \in 1 .. j - 1 : s[i] = e.parent
      BY <1>6, <1>9, <2>1 DEF Prefix
    <3> QED BY <1>6, <2>1, <3>1
  <2>2. CASE j = k + 1
    <3>1. PICK i \in 1 .. k : s[i] = e.parent
      BY <1>5, <1>6, <1>9, <2>2
    <3> QED BY <1>6, <2>2, <3>1
  <2> QED BY <1>7, <2>1, <2>2
<1> QED BY <1>1, <1>3, <1>6, <1>8, <1>9 DEF Prefix

\* Nodes without a cycle can be sorted: the longest prefix has them all.
LEMMA AcyclicSorted ==
    ASSUME NEW L, NEW E, IsFiniteSet(L), Acyclic(L, E), \A e \in E : e.parent \in L
    PROVE  \E s \in [1 .. Cardinality(L) -> L] : Sorted(s, L, E)
<1> DEFINE N == Cardinality(L)
           left == {d \in 0 .. N : \E s \in [1 .. N - d -> L] : Prefix(s, N - d, E)}
<1>1. N \in Nat
  BY FS_CardinalityType
<1>2. N \in left
  <2>1. 1 .. N - N = {}
    BY <1>1
  <2>2. [i \in 1 .. N - N |-> i] \in [1 .. N - N -> L]
    BY <2>1
  <2>3. \A s : Prefix(s, N - N, E)
    BY <2>1 DEF Prefix
  <2>4. \E s \in [1 .. N - N -> L] : Prefix(s, N - N, E)
    BY <2>2, <2>3, Zenon
  <2>5. N \in 0 .. N
    BY <1>1
  <2> HIDE DEF N
  <2> QED BY <2>4, <2>5
<1>3. PICK d \in left : \A c \in left : d <= c
  <2>1. left \subseteq Nat /\ left # {}
    BY <1>1, <1>2
  <2> HIDE DEF left
  <2> QED BY <2>1, Least
<1>4. PICK s \in [1 .. N - d -> L] : Prefix(s, N - d, E)
  OBVIOUS
<1>5. d \in 0 .. N /\ N - d \in Nat
  BY <1>1
<1>6. d = 0
  <2> SUFFICES ASSUME d # 0 PROVE FALSE
    OBVIOUS
  <2>1. N - d # N
    BY <1>1, <1>5
  <2>2. N - d < N /\ \E t \in [1 .. N - d + 1 -> L] : Prefix(t, N - d + 1, E)
    BY <1>4, <1>5, <2>1, PrefixGrows
  <2>3. N - (d - 1) = N - d + 1 /\ d - 1 \in 0 .. N
    BY <1>1, <1>5
  <2>4. d - 1 \in left
    BY <2>2, <2>3
  <2> HIDE DEF left
  <2> QED BY <1>3, <1>5, <2>4
<1>7. s \in [1 .. N -> L] /\ Prefix(s, N, E)
  BY <1>1, <1>4, <1>6
<1>8. \A n \in L : \E i \in 1 .. N : s[i] = n
  <2>1. /\ IsFiniteSet(1 .. N) /\ Cardinality(1 .. N) = N
    BY <1>1, FS_Interval
  <2>2. s \in Injection(1 .. N, L)
    BY <1>7 DEF Prefix, Injection, IsInjective
  <2>3. s \in Surjection(1 .. N, L)
    BY <2>1, <2>2, FS_Injection
  <2> QED BY <2>3 DEF Surjection
<1>9. ASSUME NEW e \in E, NEW i \in 1 .. N, NEW j \in 1 .. N, s[i] = e.parent, s[j] = e.child
      PROVE  i < j
  <2>1. PICK h \in 1 .. j - 1 : s[h] = e.parent
    BY <1>7, <1>9 DEF Prefix
  <2>2. h \in 1 .. N /\ h < j
    BY <1>1
  <2> QED BY <1>7, <1>9, <2>1, <2>2 DEF Prefix
<1>10. Sorted(s, L, E)
  BY <1>7, <1>8, <1>9 DEF Sorted, Prefix
<1> QED BY <1>7, <1>10

-----------------------------------------------------------------------------
(***************************************************************************)
(* The order                                                               *)
(***************************************************************************)
\* Removing nodes and edges keeps an order an order.
LEMMA EditKeepsOrder == Topological /\ Edited /\ ordered' = ordered => Topological'
BY DEF Topological, IsSort, Edited

LEMMA SortEffect ==
    ASSUME Topological, ordered \in Seq(Indices), edited \in BOOLEAN, Sort, UNCHANGED units
    PROVE  /\ Topological' /\ ordered' \in Seq(Indices) /\ edited' \in BOOLEAN
           /\ phase' \in {"idle", "panicked"}
<1>1. Live' = Live /\ edges' = edges
  BY DEF units, Live
<1>2. CASE ordered' \in Sorts /\ edited' = FALSE /\ phase' = "idle"
  <2>1. IsFiniteSet(Live) /\ Live \subseteq Indices
    BY IndicesAssumption, FS_Subset DEF Live
  <2>2. Cardinality(Live) \in Nat
    BY <2>1, FS_CardinalityType
  <2>3. /\ ordered' \in [1 .. Cardinality(Live) -> Live]
        /\ \A n \in Live : \E i \in DOMAIN ordered' : ordered'[i] = n
        /\ \A i, j \in DOMAIN ordered' : ordered'[i] = ordered'[j] => i = j
        /\ \A e \in edges : \A i, j \in DOMAIN ordered' :
              (ordered'[i] = e.parent /\ ordered'[j] = e.child) => i < j
    BY <1>2 DEF Sorts, IsSort
  <2>4. ordered' \in Seq(Indices)
    BY <2>1, <2>2, <2>3
  <2>5. Topological'
    BY <1>1, <2>3 DEF Topological, IsSort
  <2> QED BY <1>2, <2>4, <2>5
<1>3. CASE phase' = "panicked" /\ UNCHANGED <<ordered, edited>>
  BY <1>1, <1>3 DEF Topological, IsSort
<1> QED BY <1>2, <1>3 DEF Sort

-----------------------------------------------------------------------------
(***************************************************************************)
(* A cycle of process_nodes                                                *)
(***************************************************************************)
\* What the nodes that were processed rendered is in the arena, in slots below
\* the next one, the other slots have only what is old, and what was merged
\* through an edge is what its parent rendered; nothing was merged yet for the
\* nodes to come.
CycleInv ==
    InCycle =>
        /\ ~edited
        /\ Len(buffers) = Len(ordered) /\ step \in 1 .. Len(ordered) + 1 /\ slot < step
        /\ \A i \in 1 .. step - 1 :
              LET n == ordered[i]
              IN  n \in Live =>
                    /\ order[n] < slot
                    /\ kind[n] # "sink" => buffers[order[n] + 1] \ {"old"} = {n}
                    /\ kind[n] \in {"source", "filter"} => buffers[order[n] + 1] = {n}
        /\ \A j \in slot + 1 .. Len(buffers) : buffers[j] \subseteq {"old"}
        /\ MixFresh
        /\ \A e \in edges : ~Processed(e.child) => heard[e.id] = {}

\* No client has more requests under way than the bus holds, and a response
\* that is missing is one of a request the graph has not served.
TransportInv ==
    /\ outstanding <= Capacity /\ requests + bus <= outstanding
    /\ Answered

GraphInv == TypeOK /\ Links /\ Topological /\ CycleInv /\ TransportInv

LEMMA GraphInit == Init => GraphInv
<1> SUFFICES ASSUME Init PROVE GraphInv
  OBVIOUS
<1>1. << >> \in Seq(Indices) /\ << >> \in Seq(Content) /\ {} \in Content
  BY DEF Content
<1>2. TypeOK
  <2>1. /\ kind \in [Indices -> Kinds \cup {"vacant"}] /\ channels \in [Indices -> Nat]
        /\ order \in [Indices -> Nat] /\ heard \in [EdgeIndices -> Content]
    BY <1>1 DEF Init
  <2>2. /\ edges \subseteq Edge /\ nChannels \in Nat
        /\ ordered \in Seq(Indices) /\ buffers \in Seq(Content)
        /\ phase = "idle" /\ step \in Nat /\ slot \in Nat
        /\ edited \in BOOLEAN
    BY <1>1 DEF Init
  <2>3. requests \in Nat /\ bus \in 0 .. Capacity /\ outstanding \in Nat
    BY IndicesAssumption DEF Init
  <2> QED BY <2>1, <2>2, <2>3 DEF TypeOK
<1>3. Live = {}
  BY DEF Init, Live
<1>4. TransportInv
  BY IndicesAssumption DEF Init, TransportInv, Answered
<1> QED BY <1>2, <1>3, <1>4 DEF Init, GraphInv, Links, Topological, IsSort, CycleInv, InCycle

\* The node that is next is in the order once and after its parents, and finds
\* its slots and theirs.
LEMMA NextNode ==
    ASSUME GraphInv, NEW n \in Indices, IsNext(n)
    PROVE  /\ \A i \in 1 .. Len(ordered) : ordered[i] = n => i = step
           /\ \A e \in edges : e.child = n =>
                 \E i \in 1 .. step - 1 : ordered[i] = e.parent /\ e.parent \in Live
           /\ step \in 1 .. Len(ordered) /\ slot < Len(ordered) /\ InArena(n)
<1> DEFINE len == Len(ordered)
<1>0. phase = "processing" /\ step <= len /\ n = ordered[step] /\ n \in Live
  BY DEF IsNext
<1>1. /\ TypeOK /\ Links /\ Topological /\ CycleInv
      /\ len \in Nat /\ step \in Nat /\ slot \in Nat /\ ordered \in Seq(Indices)
      /\ DOMAIN ordered = 1 .. len /\ order \in [Indices -> Nat] /\ ~edited
  <2>1. TypeOK /\ Links /\ Topological /\ CycleInv
    BY DEF GraphInv
  <2>2. step \in Nat /\ slot \in Nat /\ ordered \in Seq(Indices) /\ order \in [Indices -> Nat]
    BY <2>1 DEF TypeOK
  <2>3. ~edited
    BY <1>0, <2>1 DEF CycleInv, InCycle
  <2> QED BY <2>1, <2>2, <2>3
<1>2. /\ Len(buffers) = len /\ step \in 1 .. len + 1 /\ slot < step
      /\ \A i \in 1 .. step - 1 : ordered[i] \in Live => order[ordered[i]] < slot
  BY <1>0, <1>1 DEF CycleInv, InCycle
<1>3. step \in 1 .. len /\ slot < len
  BY <1>0, <1>1, <1>2
<1>4. \A i \in 1 .. len : ordered[i] = n => i = step
  BY <1>0, <1>1, <1>3 DEF Topological, IsSort
<1>5. ASSUME NEW e \in edges, e.child = n
      PROVE  \E i \in 1 .. step - 1 : ordered[i] = e.parent /\ e.parent \in Live
  <2>1. e.parent \in Live
    BY <1>1 DEF Links
  <2>2. PICK i \in 1 .. len : ordered[i] = e.parent
    BY <1>1, <2>1 DEF Topological, IsSort
  <2>3. i < step
    BY <1>0, <1>1, <1>3, <1>5, <2>2 DEF Topological, IsSort
  <2> QED BY <1>1, <2>1, <2>2, <2>3
<1>6. InArena(n)
  <2>1. ASSUME NEW e \in Inputs(n) PROVE order[e.parent] < Len(buffers)
    <3>1. e \in edges /\ e.child = n /\ e \in Edge
      BY <1>1 DEF Inputs, TypeOK
    <3>2. PICK i \in 1 .. step - 1 : ordered[i] = e.parent /\ e.parent \in Live
      BY <1>5, <3>1
    <3>3. order[e.parent] < slot /\ order[e.parent] \in Nat
      BY <1>1, <1>2, <3>1, <3>2 DEF Edge
    <3>4. slot < Len(buffers) /\ slot \in Nat /\ Len(buffers) \in Nat
      BY <1>1, <1>2, <1>3
    <3> QED BY <3>3, <3>4
  <2> QED BY <1>2, <1>3, <2>1 DEF InArena
<1> QED BY <1>3, <1>4, <1>5, <1>6

\* A node that is processed hears its parents.
LEMMA ProcessNodeStep ==
    ASSUME GraphInv, NEW n \in Indices, ProcessNode(n)
    PROVE  GraphInv'
<1> DEFINE len == Len(ordered)
<1>0. /\ phase = "processing" /\ step <= len /\ n = ordered[step] /\ n \in Live /\ IsNext(n)
      /\ order' = [order EXCEPT ![n] = slot] /\ slot' = slot + 1
      /\ UNCHANGED <<kind, channels, edges, nChannels, ordered, phase, edited, transport>>
  BY DEF ProcessNode, ProcessStep, IsNext
<1>1. /\ TypeOK /\ Links /\ Topological /\ CycleInv
      /\ len \in Nat /\ step \in Nat /\ slot \in Nat /\ ordered \in Seq(Indices)
      /\ buffers \in Seq(Content) /\ DOMAIN ordered = 1 .. len
      /\ order \in [Indices -> Nat] /\ ~edited
  <2>1. TypeOK /\ Links /\ Topological /\ CycleInv
    BY DEF GraphInv
  <2>2. /\ step \in Nat /\ slot \in Nat /\ ordered \in Seq(Indices)
        /\ buffers \in Seq(Content) /\ order \in [Indices -> Nat]
    BY <2>1 DEF TypeOK
  <2>3. ~edited
    BY <1>0, <2>1 DEF CycleInv, InCycle
  <2> QED BY <2>1, <2>2, <2>3
<1>2. /\ Len(buffers) = len /\ step \in 1 .. len + 1 /\ slot < step
      /\ \A i \in 1 .. step - 1 : ordered[i] \in Live =>
            /\ order[ordered[i]] < slot
            /\ kind[ordered[i]] # "sink" => buffers[order[ordered[i]] + 1] \ {"old"} = {ordered[i]}
            /\ kind[ordered[i]] \in {"source", "filter"} =>
                  buffers[order[ordered[i]] + 1] = {ordered[i]}
      /\ \A j \in slot + 1 .. Len(buffers) : buffers[j] \subseteq {"old"}
      /\ MixFresh
      /\ \A e \in edges : ~Processed(e.child) => heard[e.id] = {}
  BY <1>0, <1>1 DEF CycleInv, InCycle
<1>3. step \in 1 .. len /\ slot < len
  BY <1>0, NextNode
<1>4. \A i \in 1 .. len : ordered[i] = n => i = step
  BY <1>0, NextNode
<1>5. \A e \in edges : e.child = n =>
         \E i \in 1 .. step - 1 : ordered[i] = e.parent /\ e.parent \in Live
  BY <1>0, NextNode
<1>6. InArena(n)
  BY <1>0, NextNode
<1>7. /\ heard' = [i \in EdgeIndices |-> Merged(n, i)]
      /\ buffers' = IF kind[n] = "sink" THEN buffers
                    ELSE [buffers EXCEPT ![slot + 1] = Rendered(n, buffers[slot + 1])]
      /\ step' = step + 1
  BY DEF ProcessNode, ProcessStep
<1>8. slot + 1 \in 1 .. Len(buffers) /\ DOMAIN buffers = 1 .. Len(buffers)
  BY <1>1, <1>2, <1>3
<1>9. Rendered(n, buffers[slot + 1]) \in Content
  <2>1. buffers[slot + 1] \in Content
    BY <1>1, <1>8
  <2> QED BY <2>1 DEF Rendered, Content
<1>10. buffers' \in Seq(Content) /\ Len(buffers') = len
  <2>1. CASE kind[n] = "sink"
    BY <1>1, <1>2, <1>7, <2>1
  <2>2. CASE kind[n] # "sink"
    <3>1. buffers' = [buffers EXCEPT ![slot + 1] = Rendered(n, buffers[slot + 1])]
      BY <1>7, <2>2
    <3>2. buffers' \in Seq(Content) /\ Len(buffers') = Len(buffers)
      BY <1>1, <1>8, <1>9, <3>1
    <3> QED BY <1>2, <3>2
  <2> QED BY <2>1, <2>2
<1>11. ASSUME NEW i \in EdgeIndices PROVE Merged(n, i) \in Content
  <2>1. heard[i] \in Content
    BY <1>1 DEF TypeOK
  <2>2. ASSUME NEW e \in {f \in Inputs(n) : f.id = i} PROVE buffers[order[e.parent] + 1] \in Content
    <3>1. e \in edges /\ e \in Edge /\ e \in Inputs(n)
      BY <1>1 DEF Inputs, TypeOK
    <3>2. order[e.parent] \in Nat /\ order[e.parent] < Len(buffers)
      BY <1>1, <1>6, <3>1 DEF InArena, Edge
    <3>3. order[e.parent] + 1 \in 1 .. Len(buffers)
      BY <1>1, <1>2, <3>2
    <3> QED BY <1>1, <3>3
  <2> DEFINE parts == {buffers[order[e.parent] + 1] : e \in {f \in Inputs(n) : f.id = i}}
  <2>3. \A p \in parts : p \in Content
    BY <2>2
  <2>4. Merged(n, i) = heard[i] \cup UNION parts
    BY DEF Merged
  <2> HIDE DEF parts
  <2> QED BY <2>1, <2>3, <2>4 DEF Content
<1>12. TypeOK'
  <2>1. /\ order' \in [Indices -> Nat] /\ step' \in Nat /\ slot' \in Nat
        /\ heard' \in [EdgeIndices -> Content] /\ buffers' \in Seq(Content)
    BY <1>0, <1>1, <1>7, <1>10, <1>11
  <2> QED BY <1>0, <1>1, <1>7, <2>1 DEF TypeOK, transport
<1>13. Live' = Live /\ Links' /\ Topological'
  BY <1>0, <1>1 DEF Live, Links, Topological, IsSort
\* The slot that is written is none of those written before.
<1>14. ASSUME NEW i \in 1 .. step, ordered[i] \in Live
       PROVE  /\ order'[ordered[i]] < slot'
              /\ kind[ordered[i]] # "sink" => buffers'[order'[ordered[i]] + 1] \ {"old"} = {ordered[i]}
              /\ kind[ordered[i]] \in {"source", "filter"} =>
                    buffers'[order'[ordered[i]] + 1] = {ordered[i]}
  <2>1. CASE i = step
    <3>1. order'[n] = slot /\ ordered[i] = n
      BY <1>0, <1>1, <2>1
    <3>2. kind[n] # "sink" => buffers'[slot + 1] = Rendered(n, buffers[slot + 1])
      BY <1>7, <1>8
    <3>3. n # "old"
      BY IndicesAssumption
    <3>4. buffers[slot + 1] \subseteq {"old"}
      BY <1>1, <1>2, <1>8
    <3> QED BY <1>0, <1>1, <3>1, <3>2, <3>3, <3>4 DEF Rendered
  <2>2. CASE i # step
    <3>1. i \in 1 .. step - 1 /\ ordered[i] # n /\ i \in 1 .. len
      BY <1>1, <1>3, <1>4, <2>2
    <3>2. order'[ordered[i]] = order[ordered[i]] /\ order[ordered[i]] < slot
          /\ order[ordered[i]] \in Nat
      BY <1>0, <1>1, <1>2, <1>14, <3>1
    <3>3. buffers'[order[ordered[i]] + 1] = buffers[order[ordered[i]] + 1]
      <4>1. slot \in Nat /\ slot + 1 \in 1 .. Len(buffers) /\ Len(buffers) \in Nat
        BY <1>1, <1>2, <1>8
      <4>2. order[ordered[i]] + 1 # slot + 1 /\ order[ordered[i]] + 1 \in 1 .. Len(buffers)
        BY <3>2, <4>1
      <4> QED BY <1>7, <1>8, <4>2
    <3>4. /\ kind[ordered[i]] # "sink" => buffers[order[ordered[i]] + 1] \ {"old"} = {ordered[i]}
          /\ kind[ordered[i]] \in {"source", "filter"} =>
                buffers[order[ordered[i]] + 1] = {ordered[i]}
      BY <1>2, <1>14, <3>1
    <3>5. order'[ordered[i]] < slot'
      BY <1>0, <1>1, <3>2
    <3> QED BY <3>2, <3>3, <3>4, <3>5
  <2> QED BY <2>1, <2>2
<1>15. \A m : Processed(m)' <=> (Processed(m) \/ m = n)
  <2>1. phase' = "processing" /\ ordered' = ordered /\ step' - 1 = step
    BY <1>0, <1>1, <1>7
  <2>2. \A m : Processed(m)' <=> \E i \in 1 .. step : ordered[i] = m
    BY <2>1 DEF Processed, InCycle
  <2>3. \A m : Processed(m) <=> \E i \in 1 .. step - 1 : ordered[i] = m
    BY <1>0 DEF Processed, InCycle
  <2>4. 1 .. step = (1 .. step - 1) \cup {step} /\ ordered[step] = n
    BY <1>0, <1>3
  <2> QED BY <2>2, <2>3, <2>4
<1>16. ~Processed(n)
  BY <1>1, <1>3, <1>4 DEF Processed, InCycle
<1>17. ASSUME NEW e \in edges, e \in Inputs(n)
       PROVE  heard'[e.id] = buffers[order[e.parent] + 1]
  <2>1. e \in Edge /\ e.id \in EdgeIndices /\ e.child = n
    BY <1>1, <1>17 DEF TypeOK, Edge, Inputs
  <2>2. {f \in Inputs(n) : f.id = e.id} = {e}
    BY <1>1, <1>17 DEF Links, Inputs
  <2>3. heard[e.id] = {}
    BY <1>2, <1>16, <2>1
  <2>4. Merged(n, e.id) = {} \cup UNION {buffers[order[f.parent] + 1] : f \in {e}}
    BY <2>2, <2>3 DEF Merged
  <2>5. Merged(n, e.id) = buffers[order[e.parent] + 1]
    BY <2>4
  <2> QED BY <1>7, <2>1, <2>5
<1>18. ASSUME NEW e \in edges, e \notin Inputs(n)
       PROVE  heard'[e.id] = heard[e.id]
  <2>1. e \in Edge /\ e.id \in EdgeIndices
    BY <1>1 DEF TypeOK, Edge
  <2>2. {f \in Inputs(n) : f.id = e.id} = {}
    BY <1>1, <1>18 DEF Links, Inputs
  <2>3. Merged(n, e.id) = heard[e.id]
    BY <2>2 DEF Merged
  <2> QED BY <1>7, <2>1, <2>3
<1>19. MixFresh'
  <2> SUFFICES ASSUME NEW e \in edges, Processed(e.child)', ~IsSource(e.child),
                      kind[e.parent] \in {"source", "filter"}
               PROVE  heard'[e.id] = {e.parent}
    BY <1>0 DEF MixFresh, IsSource
  <2>1. CASE e.child = n
    <3>1. e \in Inputs(n)
      BY <2>1 DEF Inputs
    <3>2. PICK i \in 1 .. step - 1 : ordered[i] = e.parent /\ e.parent \in Live
      BY <1>5, <2>1
    <3>3. buffers[order[e.parent] + 1] = {e.parent}
      BY <1>2, <3>2
    <3> QED BY <1>17, <3>1, <3>3
  <2>2. CASE e.child # n
    <3>1. e \notin Inputs(n) /\ Processed(e.child)
      BY <1>15, <2>2 DEF Inputs
    <3> QED BY <1>2, <1>18, <3>1 DEF MixFresh
  <2> QED BY <2>1, <2>2
<1>20. ASSUME NEW e \in edges, ~Processed(e.child)'
       PROVE  heard'[e.id] = {}
  <2>1. e \notin Inputs(n) /\ ~Processed(e.child)
    BY <1>15, <1>20 DEF Inputs
  <2> QED BY <1>2, <1>18, <2>1
<1>21. \A j \in slot' + 1 .. Len(buffers') : buffers'[j] \subseteq {"old"}
  <2>1. ASSUME NEW j \in slot' + 1 .. Len(buffers') PROVE buffers'[j] = buffers[j]
    BY <1>0, <1>1, <1>2, <1>7, <1>8, <1>10
  <2>2. \A j \in slot' + 1 .. Len(buffers') :
           j \in slot + 1 .. Len(buffers) /\ buffers[j] \subseteq {"old"}
    <3>1. slot' = slot + 1 /\ Len(buffers') = Len(buffers) /\ slot \in Nat /\ Len(buffers) \in Nat
      BY <1>0, <1>1, <1>2, <1>10
    <3>2. \A j \in slot' + 1 .. Len(buffers') : j \in slot + 1 .. Len(buffers)
      BY <3>1
    <3> QED BY <1>2, <3>2
  <2> QED BY <2>1, <2>2
<1>22. CycleInv'
  <2>1. /\ ~edited' /\ Len(buffers') = Len(ordered') /\ slot' < step'
        /\ step' \in 1 .. Len(ordered') + 1 /\ 1 .. step' - 1 = 1 .. step
    BY <1>0, <1>1, <1>2, <1>3, <1>7, <1>10
  <2>2. \A i \in 1 .. step : ordered'[i] \in Live' =>
            /\ order'[ordered'[i]] < slot'
            /\ kind'[ordered'[i]] # "sink" =>
                  buffers'[order'[ordered'[i]] + 1] \ {"old"} = {ordered'[i]}
            /\ kind'[ordered'[i]] \in {"source", "filter"} =>
                  buffers'[order'[ordered'[i]] + 1] = {ordered'[i]}
    BY <1>0, <1>13, <1>14
  <2>3. \A e \in edges' : ~Processed(e.child)' => heard'[e.id] = {}
    BY <1>0, <1>20
  <2> QED BY <1>19, <1>21, <2>1, <2>2, <2>3 DEF CycleInv, InCycle
<1>23. TransportInv'
  BY <1>0, <1>7 DEF GraphInv, TransportInv, Answered, transport
<1> QED BY <1>0, <1>7, <1>12, <1>13, <1>22, <1>23 DEF GraphInv

\* A cycle that is given up leaves the nodes to come as they were.
LEMMA ProcessPanicStep ==
    ASSUME GraphInv, NEW n \in Indices, ProcessPanic(n)
    PROVE  GraphInv'
<1>0. /\ phase = "processing" /\ phase' = "aborted" /\ order' = [order EXCEPT ![n] = slot]
      /\ IsNext(n)
      /\ UNCHANGED <<kind, channels, edges, nChannels, ordered, arena, edited, transport>>
  BY DEF ProcessPanic, IsNext
<1>1. /\ TypeOK /\ Links /\ Topological /\ CycleInv /\ TransportInv
      /\ step \in Nat /\ slot \in Nat /\ order \in [Indices -> Nat]
  BY DEF GraphInv, TypeOK
<1>2. TypeOK'
  BY <1>0, <1>1 DEF TypeOK, arena, transport
<1>3. Live' = Live /\ Links' /\ Topological'
  BY <1>0, <1>1 DEF Live, Links, Topological, IsSort
<1>4. ASSUME NEW i \in 1 .. step - 1 PROVE order'[ordered[i]] = order[ordered[i]]
  <2>1. i \in 1 .. Len(ordered) /\ i # step
    BY <1>0, <1>1, NextNode
  <2>2. ordered[i] # n
    BY <1>0, <2>1, NextNode
  <2>3. ordered[i] \in Indices
    BY <1>1, <2>1 DEF TypeOK
  <2> QED BY <1>0, <1>1, <2>2, <2>3
<1>5. \A m : Processed(m)' <=> Processed(m)
  BY <1>0 DEF Processed, InCycle, arena
<1>6. MixFresh'
  BY <1>0, <1>1, <1>5 DEF CycleInv, InCycle, MixFresh, IsSource, arena
<1>7. CycleInv'
  <2>1. InCycle /\ UNCHANGED <<kind, edges, ordered, edited, buffers, step, slot, heard>>
    BY <1>0 DEF InCycle, arena
  <2>2. \A i \in 1 .. step' - 1 : ordered'[i] \in Live' =>
           /\ order'[ordered'[i]] < slot'
           /\ kind'[ordered'[i]] # "sink" =>
                 buffers'[order'[ordered'[i]] + 1] \ {"old"} = {ordered'[i]}
           /\ kind'[ordered'[i]] \in {"source", "filter"} =>
                 buffers'[order'[ordered'[i]] + 1] = {ordered'[i]}
    BY <1>1, <1>3, <1>4, <2>1 DEF CycleInv
  <2>3. \A e \in edges' : ~Processed(e.child)' => heard'[e.id] = {}
    BY <1>1, <1>5, <2>1 DEF CycleInv
  <2> QED BY <1>1, <1>6, <2>1, <2>2, <2>3 DEF CycleInv
<1>8. TransportInv'
  BY <1>0, <1>1 DEF TransportInv, Answered, transport
<1> QED BY <1>2, <1>3, <1>7, <1>8 DEF GraphInv

-----------------------------------------------------------------------------
(***************************************************************************)
(* The other steps                                                         *)
(***************************************************************************)
RestOK ==
    /\ ordered \in Seq(Indices) /\ edited \in BOOLEAN
    /\ phase \in {"idle", "serving", "processing", "aborted", "panicked"}

ArenaOK ==
    /\ buffers \in Seq(Content) /\ step \in Nat /\ slot \in Nat
    /\ heard \in [EdgeIndices -> Content]

TransportOK == requests \in Nat /\ bus \in 0 .. Capacity /\ outstanding \in Nat

LEMMA TypeParts == TypeOK <=> UnitsOK /\ RestOK /\ ArenaOK /\ TransportOK
BY DEF TypeOK, UnitsOK, RestOK, ArenaOK, TransportOK

LEMMA NextTypeParts == UnitsOK' /\ RestOK' /\ ArenaOK' /\ TransportOK' => TypeOK'
BY DEF TypeOK, UnitsOK, RestOK, ArenaOK, TransportOK

\* A method is called by the owner or for a request.
LEMMA EditStep ==
    ASSUME GraphInv, phase \in {"idle", "serving"}, Method, UNCHANGED <<ordered, arena>>
    PROVE  /\ UnitsOK' /\ RestOK' /\ ArenaOK' /\ Links' /\ Topological' /\ CycleInv'
           /\ phase' = phase \/ phase' = "panicked"
<1>1. UnitsOK /\ RestOK /\ ArenaOK /\ Links /\ Topological
  BY TypeParts DEF GraphInv
<1>2. UnitsOK' /\ Links' /\ Edited /\ edited' \in BOOLEAN
  BY <1>1, MethodEffect DEF RestOK
<1>3. phase' = phase \/ phase' = "panicked"
  BY <1>2 DEF Edited
<1>4. Topological'
  BY <1>1, <1>2, EditKeepsOrder
<1>5. RestOK' /\ ArenaOK'
  BY <1>1, <1>2, <1>3 DEF RestOK, ArenaOK, arena
<1>6. CycleInv'
  BY <1>3 DEF CycleInv, InCycle
<1> QED BY <1>2, <1>3, <1>4, <1>5, <1>6

LEMMA SortStep ==
    ASSUME GraphInv, phase \in {"idle", "serving"}, Sort, UNCHANGED <<units, arena, transport>>
    PROVE  GraphInv'
<1>1. UnitsOK /\ RestOK /\ ArenaOK /\ TransportOK /\ Links /\ Topological
  BY TypeParts DEF GraphInv
<1>2. /\ Topological' /\ ordered' \in Seq(Indices) /\ edited' \in BOOLEAN
      /\ phase' \in {"idle", "panicked"}
  BY <1>1, SortEffect DEF RestOK
<1>3. RestOK'
  BY <1>2 DEF RestOK
<1>4. UnitsOK' /\ ArenaOK' /\ TransportOK'
  BY <1>1 DEF UnitsOK, ArenaOK, TransportOK, units, arena, transport
<1>5. Links'
  BY <1>1 DEF Links, Live, units
<1>6. CycleInv'
  BY <1>2 DEF CycleInv, InCycle
<1>7. TransportInv'
  BY DEF GraphInv, TransportInv, Answered, transport
<1> QED BY <1>2, <1>3, <1>4, <1>5, <1>6, <1>7, NextTypeParts DEF GraphInv

LEMMA ServeStep == ASSUME GraphInv, Serve PROVE GraphInv'
<1>1. /\ phase = "serving" /\ requests > 0 /\ requests' = requests - 1 /\ Method
      /\ IF phase' = "panicked" THEN UNCHANGED bus ELSE Respond
      /\ UNCHANGED <<ordered, arena, outstanding>>
  BY DEF Serve
<1>2. /\ UnitsOK' /\ RestOK' /\ ArenaOK' /\ Links' /\ Topological' /\ CycleInv'
      /\ phase' = phase \/ phase' = "panicked"
  BY <1>1, EditStep
<1>3. TransportOK /\ TransportInv
  BY TypeParts DEF GraphInv
<1>4. outstanding = requests + bus /\ bus < Capacity
  BY <1>1, <1>3, IndicesAssumption DEF TransportOK, TransportInv, Answered
<1>5. TransportOK' /\ TransportInv'
  <2>1. CASE phase' = "panicked"
    BY <1>1, <1>3, <1>4, <2>1 DEF TransportOK, TransportInv, Answered
  <2>2. CASE phase' # "panicked"
    <3>1. bus' = bus + 1
      BY <1>1, <1>4, <2>2 DEF Respond
    <3> QED BY <1>1, <1>3, <1>4, <3>1, IndicesAssumption DEF TransportOK, TransportInv, Answered
  <2> QED BY <2>1, <2>2
<1> QED BY <1>2, <1>5, NextTypeParts DEF GraphInv

LEMMA ProcessBeginStep == ASSUME GraphInv, ProcessBegin PROVE GraphInv'
<1>1. /\ phase = "idle" /\ ~edited /\ buffers' = [i \in 1 .. Len(ordered) |-> {"old"}]
      /\ heard' = [i \in EdgeIndices |-> {}]
      /\ phase' = "processing" /\ step' = 1 /\ slot' = 0
      /\ UNCHANGED <<units, ordered, edited, transport>>
  BY DEF ProcessBegin, Resized
<1>2. UnitsOK /\ RestOK /\ TransportOK /\ Links /\ Topological
  BY TypeParts DEF GraphInv
<1>3. {"old"} \in Content /\ {} \in Content /\ Len(ordered) \in Nat
  BY <1>2 DEF Content, RestOK
<1>4. buffers' \in Seq(Content) /\ Len(buffers') = Len(ordered)
  BY <1>1, <1>3
<1>5. ArenaOK'
  BY <1>1, <1>3, <1>4 DEF ArenaOK
<1>6. UnitsOK' /\ RestOK' /\ TransportOK' /\ Links' /\ Topological'
  BY <1>1, <1>2 DEF UnitsOK, RestOK, TransportOK, Links, Topological, IsSort, Live, units, transport
<1>7. 1 .. step' - 1 = {}
  BY <1>1
<1>8. \A m : ~Processed(m)'
  BY <1>7 DEF Processed, InCycle
<1>9. MixFresh'
  BY <1>8 DEF MixFresh
<1>10. \A e \in edges' : heard'[e.id] = {}
  BY <1>1, <1>6 DEF UnitsOK, Edge
<1>11. \A j \in slot' + 1 .. Len(buffers') : buffers'[j] \subseteq {"old"}
  BY <1>1, <1>3, <1>4
<1>12. CycleInv'
  <2>1. /\ ~edited' /\ Len(buffers') = Len(ordered') /\ slot' < step'
        /\ step' \in 1 .. Len(ordered') + 1
    BY <1>1, <1>3, <1>4
  <2> QED BY <1>7, <1>9, <1>10, <1>11, <2>1 DEF CycleInv, InCycle
<1>13. TransportInv'
  BY <1>1 DEF GraphInv, TransportInv, Answered, transport
<1> QED BY <1>5, <1>6, <1>12, <1>13, NextTypeParts DEF GraphInv

LEMMA ProcessRemovedStep == ASSUME GraphInv, ProcessRemoved PROVE GraphInv'
<1>1. /\ phase = "processing" /\ step <= Len(ordered) /\ ordered[step] \notin Live
      /\ step' = step + 1
      /\ UNCHANGED <<units, ordered, buffers, phase, slot, heard, edited, transport>>
  BY DEF ProcessRemoved
<1>2. UnitsOK /\ RestOK /\ ArenaOK /\ TransportOK /\ Links /\ Topological /\ CycleInv
  BY TypeParts DEF GraphInv
<1>3. step \in Nat /\ slot \in Nat /\ Len(ordered) \in Nat
  BY <1>2 DEF ArenaOK, RestOK
<1>4. UnitsOK' /\ RestOK' /\ ArenaOK' /\ TransportOK' /\ Links' /\ Topological'
  <2>1. UnitsOK' /\ RestOK' /\ TransportOK'
    BY <1>1, <1>2 DEF UnitsOK, RestOK, TransportOK, units, transport
  <2>2. ArenaOK'
    BY <1>1, <1>2, <1>3 DEF ArenaOK
  <2>3. Links' /\ Topological'
    BY <1>1, <1>2 DEF Links, Topological, IsSort, Live, units
  <2> QED BY <2>1, <2>2, <2>3
<1>5. Live' = Live
  BY <1>1 DEF Live, units
<1>6. 1 .. step' - 1 = (1 .. step - 1) \cup {step}
  BY <1>1, <1>2, <1>3 DEF CycleInv, InCycle
<1>7. \A e \in edges : Processed(e.child)' <=> Processed(e.child)
  <2> SUFFICES ASSUME NEW e \in edges PROVE Processed(e.child)' <=> Processed(e.child)
    OBVIOUS
  <2>1. e.child # ordered[step]
    BY <1>1, <1>2 DEF Links
  <2>2. e.child' = e.child /\ ordered' = ordered /\ phase' = phase /\ phase = "processing"
    BY <1>1
  <2> QED BY <1>6, <2>1, <2>2 DEF Processed, InCycle
<1>8. MixFresh'
  BY <1>1, <1>2, <1>7 DEF CycleInv, InCycle, MixFresh, IsSource, units
<1>9. \A e \in edges' : ~Processed(e.child)' => heard'[e.id] = {}
  BY <1>1, <1>2, <1>7 DEF CycleInv, InCycle, units
<1>10. \A i \in 1 .. step' - 1 : ordered'[i] \in Live' =>
          /\ order'[ordered'[i]] < slot'
          /\ kind'[ordered'[i]] # "sink" =>
                buffers'[order'[ordered'[i]] + 1] \ {"old"} = {ordered'[i]}
          /\ kind'[ordered'[i]] \in {"source", "filter"} =>
                buffers'[order'[ordered'[i]] + 1] = {ordered'[i]}
  BY <1>1, <1>2, <1>5, <1>6 DEF CycleInv, InCycle, units
<1>11. CycleInv'
  <2>1. /\ ~edited' /\ Len(buffers') = Len(ordered') /\ slot' < step'
        /\ step' \in 1 .. Len(ordered') + 1
        /\ \A j \in slot' + 1 .. Len(buffers') : buffers'[j] \subseteq {"old"}
    BY <1>1, <1>2, <1>3 DEF CycleInv, InCycle
  <2> QED BY <1>8, <1>9, <1>10, <2>1 DEF CycleInv, InCycle
<1>12. TransportInv'
  BY <1>1 DEF GraphInv, TransportInv, Answered, transport
<1> QED BY <1>4, <1>11, <1>12, NextTypeParts DEF GraphInv

LEMMA ProcessEndStep == ASSUME GraphInv, ProcessEnd PROVE GraphInv'
<1>1. /\ phase' = "idle" /\ phase = "processing"
      /\ heard' = [i \in EdgeIndices |-> {}] /\ step' = 1 /\ slot' = 0
      /\ buffers' = [i \in 1 .. Len(buffers) |-> {"old"}]
      /\ UNCHANGED <<units, ordered, edited, transport>>
  BY DEF ProcessEnd
<1>2. UnitsOK /\ RestOK /\ ArenaOK /\ TransportOK /\ Links /\ Topological
  BY TypeParts DEF GraphInv
<1>3. {"old"} \in Content /\ {} \in Content /\ Len(buffers) \in Nat
  BY <1>2 DEF Content, ArenaOK
<1>4. buffers' \in Seq(Content)
  BY <1>1, <1>3
<1>5. ArenaOK'
  BY <1>1, <1>3, <1>4 DEF ArenaOK
<1>6. UnitsOK' /\ RestOK' /\ TransportOK' /\ Links' /\ Topological'
  BY <1>1, <1>2 DEF UnitsOK, RestOK, TransportOK, Links, Topological, IsSort, Live, units, transport
<1>7. CycleInv'
  BY <1>1 DEF CycleInv, InCycle
<1>8. TransportInv'
  BY <1>1 DEF GraphInv, TransportInv, Answered, transport
<1> QED BY <1>5, <1>6, <1>7, <1>8, NextTypeParts DEF GraphInv

LEMMA ReopenStep ==
    ASSUME GraphInv, NEW n \in Indices, NEW c \in MediaChannels \ {0}, Reopen(n, c) PROVE GraphInv'
<1>1. /\ phase = "idle" /\ channels' = [channels EXCEPT ![n] = c]
      /\ UNCHANGED <<kind, order, edges, nChannels, ordered, arena, phase, edited, transport>>
  BY DEF Reopen
<1>2. UnitsOK /\ RestOK /\ ArenaOK /\ TransportOK /\ Links /\ Topological
  BY TypeParts DEF GraphInv
<1>3. c \in Nat
  BY IndicesAssumption
<1>4. UnitsOK'
  BY <1>1, <1>2, <1>3 DEF UnitsOK
<1>5. RestOK' /\ ArenaOK' /\ TransportOK' /\ Links' /\ Topological'
  BY <1>1, <1>2 DEF RestOK, ArenaOK, TransportOK, Links, Topological, IsSort, Live, arena, transport
<1>6. CycleInv'
  BY <1>1 DEF CycleInv, InCycle
<1>7. TransportInv'
  BY <1>1 DEF GraphInv, TransportInv, Answered, transport
<1> QED BY <1>4, <1>5, <1>6, <1>7, NextTypeParts DEF GraphInv

\* The client, and the start of process_requests.
LEMMA ClientStep ==
    ASSUME GraphInv, SendRequest \/ ReceiveResponse \/ ServeBegin PROVE GraphInv'
<1>1. /\ UNCHANGED <<units, ordered, arena, edited>>
      /\ phase' = phase \/ (phase = "idle" /\ phase' = "serving")
  BY DEF SendRequest, ReceiveResponse, ServeBegin
<1>2. /\ UnitsOK /\ RestOK /\ ArenaOK /\ TransportOK
      /\ Links /\ Topological /\ CycleInv /\ TransportInv
  BY TypeParts DEF GraphInv
<1>3. UnitsOK' /\ RestOK' /\ ArenaOK'
  BY <1>1, <1>2 DEF UnitsOK, RestOK, ArenaOK, units, arena
<1>4. Links' /\ Topological'
  BY <1>1, <1>2 DEF Links, Topological, IsSort, Live, units
<1>5. CycleInv'
  <2>1. CASE phase' = phase
    BY <1>1, <1>2, <2>1 DEF CycleInv, InCycle, MixFresh, Processed, IsSource, Live, units, arena
  <2>2. CASE phase' = "serving"
    BY <2>2 DEF CycleInv, InCycle
  <2> QED BY <1>1, <2>1, <2>2
<1>6. TransportOK' /\ TransportInv'
  <2>1. CASE SendRequest
    BY <1>2, <2>1, IndicesAssumption DEF SendRequest, TransportOK, TransportInv, Answered
  <2>2. CASE ReceiveResponse
    BY <1>2, <2>2, IndicesAssumption DEF ReceiveResponse, TransportOK, TransportInv, Answered
  <2>3. CASE ServeBegin
    BY <1>2, <2>3 DEF ServeBegin, TransportOK, TransportInv, Answered, transport
  <2> QED BY <2>1, <2>2, <2>3
<1> QED BY <1>3, <1>4, <1>5, <1>6, NextTypeParts DEF GraphInv

-----------------------------------------------------------------------------
(***************************************************************************)
(* Theorems                                                                *)
(***************************************************************************)
LEMMA GraphStep == GraphInv /\ [Next]_vars => GraphInv'
<1> SUFFICES ASSUME GraphInv, [Next]_vars PROVE GraphInv'
  OBVIOUS
<1>1. CASE Call
  <2>1. phase = "idle" /\ Method /\ UNCHANGED <<ordered, arena, transport>>
    BY <1>1 DEF Call
  <2>2. /\ UnitsOK' /\ RestOK' /\ ArenaOK' /\ Links' /\ Topological' /\ CycleInv'
        /\ phase' = phase \/ phase' = "panicked"
    BY <2>1, EditStep
  <2>3. TransportOK'
    BY <2>1, TypeParts DEF GraphInv, TransportOK, transport
  <2>4. TransportInv'
    BY <2>1 DEF GraphInv, TransportInv, Answered, transport
  <2> QED BY <2>2, <2>3, <2>4, NextTypeParts DEF GraphInv
<1>2. CASE Updated
  BY <1>2, SortStep DEF Updated
<1>3. CASE \E n \in Indices, c \in MediaChannels \ {0} : Reopen(n, c)
  BY <1>3, ReopenStep
<1>4. CASE \E n \in Indices : ProcessNode(n) \/ ProcessPanic(n)
  BY <1>4, ProcessNodeStep, ProcessPanicStep
<1>5. CASE SendRequest \/ ReceiveResponse \/ ServeBegin
  BY <1>5, ClientStep
<1>6. CASE Serve
  BY <1>6, ServeStep
<1>7. CASE ServeEnd
  BY <1>7, SortStep DEF ServeEnd
<1>8. CASE ProcessBegin
  BY <1>8, ProcessBeginStep
<1>9. CASE ProcessRemoved
  BY <1>9, ProcessRemovedStep
<1>10. CASE ProcessEnd
  BY <1>10, ProcessEndStep
<1>11. CASE UNCHANGED vars
  <2>1. UnitsOK' /\ RestOK' /\ ArenaOK' /\ TransportOK'
    BY <1>11, TypeParts DEF GraphInv, UnitsOK, RestOK, ArenaOK, TransportOK, vars
  <2>2. Links' /\ Topological'
    BY <1>11 DEF GraphInv, Links, Topological, IsSort, Live, vars
  <2>3. CycleInv'
    BY <1>11 DEF GraphInv, CycleInv, InCycle, MixFresh, Processed, IsSource, Live, vars
  <2>4. TransportInv'
    BY <1>11 DEF GraphInv, TransportInv, Answered, vars
  <2> QED BY <2>1, <2>2, <2>3, <2>4, NextTypeParts DEF GraphInv
<1> QED BY <1>1, <1>2, <1>3, <1>4, <1>5, <1>6, <1>7, <1>8, <1>9, <1>10, <1>11 DEF Next

LEMMA GraphInvariant == Spec => []GraphInv
<1> QED BY GraphInit, GraphStep, PTL DEF Spec

\* The graph, its order, its arena and the transport keep their types.
THEOREM TypeCorrect == Spec => []TypeOK
<1>1. GraphInv => TypeOK
  BY DEF GraphInv
<1> QED BY <1>1, GraphInvariant, PTL

\* However nodes and edges are removed, by calls or by requests, the order the
\* graph is processed in still has every node after its parents.
THEOREM OrderKept == Spec => []Topological
<1>1. GraphInv => Topological
  BY DEF GraphInv
<1> QED BY <1>1, GraphInvariant, PTL

\* Every input is what the parents rendered in the same cycle, although
\* Unit::order keeps the slot of the last one.
THEOREM InputsFresh == Spec => []MixFresh
<1>1. GraphInv => MixFresh
  BY DEF GraphInv, CycleInv, InCycle, MixFresh, Processed
<1> QED BY <1>1, GraphInvariant, PTL

\* A node that was processed has a slot of its own until the cycle ends.
THEOREM OutputsKept == Spec => []OutputKept
<1>1. GraphInv => OutputKept
  <2> SUFFICES ASSUME GraphInv, NEW n \in Live, Processed(n), kind[n] # "sink"
               PROVE  order[n] < Len(buffers) /\ buffers[order[n] + 1] \ {"old"} = {n}
    BY DEF OutputKept
  <2>1. PICK i \in 1 .. step - 1 : InCycle /\ ordered[i] = n
    BY DEF Processed
  <2>2. /\ Len(buffers) = Len(ordered) /\ step \in 1 .. Len(ordered) + 1 /\ slot < step
        /\ order[n] < slot /\ buffers[order[n] + 1] \ {"old"} = {n}
    BY <2>1 DEF GraphInv, CycleInv
  <2>3. order[n] \in Nat /\ slot \in Nat /\ Len(ordered) \in Nat
    BY DEF GraphInv, TypeOK, Live
  <2> QED BY <2>2, <2>3
<1> QED BY <1>1, GraphInvariant, PTL

\* process_nodes indexes no slot beyond the arena: it panics only at a media
\* that has not been opened.
THEOREM ProcessingSafe == Spec => ProcessSafe
<1>1. GraphInv /\ [Next]_vars =>
        [phase = "processing" /\ phase' = "aborted" => ~Opened(ordered[step])]_vars
  <2> SUFFICES ASSUME GraphInv, Next, phase = "processing", phase' = "aborted"
               PROVE  ~Opened(ordered[step])
    OBVIOUS
  <2>1. ASSUME NEW n \in Indices, ProcessPanic(n) PROVE ~Opened(ordered[step])
    <3>1. IsNext(n) /\ ~(InArena(n) /\ Opened(n)) /\ n = ordered[step]
      BY <2>1 DEF ProcessPanic, IsNext
    <3>2. InArena(n)
      BY <3>1, NextNode
    <3> QED BY <3>1, <3>2
  <2> QED BY <2>1 DEF Next, Call, Updated, Reopen, SendRequest, ReceiveResponse, ServeBegin,
            Serve, ServeEnd, ProcessBegin, ProcessRemoved, ProcessNode, ProcessStep, ProcessEnd
<1> QED BY <1>1, GraphInvariant, PTL DEF Spec, ProcessSafe

\* No response is lost to a client that bounds its requests by the bus.
THEOREM ResponsesKept == Spec => []Answered
<1>1. GraphInv => Answered
  BY DEF GraphInv, TransportInv
<1> QED BY <1>1, GraphInvariant, PTL

-----------------------------------------------------------------------------
(***************************************************************************)
(* The graph implements the mixer                                          *)
(***************************************************************************)
Mixed == {n \in Live : Processed(n)}

\* A node that is processed is one the mixer may mix.
LEMMA MixStep == ASSUME GraphInv, NEW n \in Indices, ProcessNode(n) PROVE M!Mix(n)
<1>1. /\ phase = "processing" /\ step <= Len(ordered) /\ n = ordered[step] /\ n \in Live
      /\ UNCHANGED <<kind, edges, ordered>>
  BY DEF ProcessNode, ProcessStep, IsNext
<1>2. /\ GraphInv' /\ phase' = "processing" /\ step' = step + 1
      /\ heard' = [i \in EdgeIndices |-> Merged(n, i)]
  BY <1>1, ProcessNodeStep DEF ProcessNode, ProcessStep
<1>3. /\ step \in 1 .. Len(ordered) /\ Len(ordered) \in Nat
      /\ DOMAIN ordered = 1 .. Len(ordered) /\ edges \subseteq Edge /\ ~edited
      /\ heard \in [EdgeIndices -> Content]
  BY <1>1 DEF GraphInv, TypeOK, CycleInv, InCycle
<1>4. ASSUME NEW m PROVE Processed(m)' <=> (Processed(m) \/ m = n)
  <2>1. Processed(m)' <=> \E i \in 1 .. step : ordered[i] = m
    BY <1>1, <1>2, <1>3 DEF Processed, InCycle
  <2>2. 1 .. step = (1 .. step - 1) \cup {step}
    BY <1>3
  <2> QED BY <1>1, <2>1, <2>2 DEF Processed, InCycle
<1>5. Live' = Live /\ Mixed' = Mixed \cup {n}
  <2>1. Live' = Live
    BY <1>1 DEF Live
  <2> QED BY <1>1, <1>4, <2>1 DEF Mixed
<1>6. n \notin Mixed
  BY <1>1, <1>3 DEF GraphInv, Topological, IsSort, Mixed, Processed, InCycle
<1>7. ASSUME NEW e \in edges, e.child = n PROVE e.parent \in Mixed
  <2>1. e.parent \in Live
    BY DEF GraphInv, Links
  <2>2. PICK i \in 1 .. Len(ordered) : ordered[i] = e.parent
    BY <1>3, <2>1 DEF GraphInv, Topological, IsSort
  <2>3. i < step
    BY <1>1, <1>3, <1>7, <2>2 DEF GraphInv, Topological, IsSort
  <2> QED BY <1>1, <1>3, <2>1, <2>2, <2>3 DEF Mixed, Processed, InCycle
<1>8. ASSUME NEW e \in Inputs(n), kind[e.parent] \in {"source", "filter"}
      PROVE  heard'[e.id] = {e.parent}
  <2>1. e \in edges /\ e.child = n /\ ~IsSource(n)
    BY DEF Inputs
  <2>2. MixFresh' /\ Processed(n)' /\ ~IsSource(n)' /\ e \in edges' /\ kind' = kind
    BY <1>1, <1>2, <1>4, <2>1 DEF GraphInv, CycleInv, InCycle, IsSource
  <2> QED BY <1>8, <2>1, <2>2 DEF MixFresh
<1>9. ASSUME NEW i \in EdgeIndices \ {e.id : e \in Inputs(n)} PROVE heard'[i] = heard[i]
  <2>1. {f \in Inputs(n) : f.id = i} = {}
    OBVIOUS
  <2>2. Merged(n, i) = heard[i]
    BY <2>1 DEF Merged
  <2> QED BY <1>2, <2>2
<1>10. M!Inputs(n) = Inputs(n) /\ M!Live = Live
  BY DEF M!Inputs, Inputs, IsSource, M!Live, Live
<1>11. InCycle /\ InCycle' = InCycle
  BY <1>1, <1>2 DEF InCycle
<1> QED BY <1>1, <1>2, <1>5, <1>6, <1>7, <1>8, <1>9, <1>10, <1>11 DEF M!Mix, Mixed

\* A cycle ends when every node has been mixed.
LEMMA MixEnd == ASSUME GraphInv, ProcessEnd PROVE M!End
<1>1. /\ phase = "processing" /\ step > Len(ordered) /\ phase' = "idle"
      /\ heard' = [i \in EdgeIndices |-> {}] /\ UNCHANGED <<kind, edges>>
  BY DEF ProcessEnd, units
<1>2. ~edited /\ step = Len(ordered) + 1 /\ Len(ordered) \in Nat /\ DOMAIN ordered = 1 .. Len(ordered)
  BY <1>1 DEF GraphInv, CycleInv, InCycle, TypeOK
<1>3. Mixed = Live
  BY <1>1, <1>2 DEF Mixed, Processed, InCycle, GraphInv, Topological, IsSort
<1>4. Mixed' = {} /\ InCycle' = FALSE
  BY <1>1 DEF Mixed, Processed, InCycle
<1>5. InCycle
  BY <1>1 DEF InCycle
<1> QED BY <1>1, <1>3, <1>4, <1>5 DEF M!End, M!Live, M!Silence, Live, Mixed

\* A method edits the graph between two cycles.
LEMMA MixEdit ==
    ASSUME GraphInv, phase \in {"idle", "serving"}, Method, UNCHANGED heard PROVE M!Edit
<1>1. UnitsOK' /\ Links' /\ (phase' = phase \/ phase' = "panicked")
  BY MethodEffect, TypeParts DEF GraphInv, RestOK, Edited
<1>2. InCycle = FALSE /\ InCycle' = FALSE
  BY <1>1 DEF InCycle
<1>3. Mixed' = {} /\ Mixed = {}
  BY <1>2 DEF Mixed, Processed, InCycle
<1>4. /\ kind' \in [Indices -> Kinds \cup {"vacant"}] /\ edges' \subseteq Edge
      /\ \A e \in edges' : e.parent \in Live' /\ e.child \in Live'
      /\ \A e, f \in edges' : e.id = f.id => e = f
  BY <1>1 DEF UnitsOK, Links
<1>5. M!Live' = Live' /\ M!Edge = Edge
  BY DEF M!Live, Live, M!Edge, Edge
<1> QED BY <1>2, <1>3, <1>4, <1>5 DEF M!Edit, Mixed

\* What a step changes of the nodes that were mixed and of what was heard is
\* what the mixer may do.
LEMMA RefinementStep == GraphInv /\ [Next]_vars => [M!Next]_(M!vars)
<1> SUFFICES ASSUME GraphInv, [Next]_vars
             PROVE  M!Next \/ UNCHANGED <<kind, edges, InCycle, Mixed, heard>>
  BY DEF M!vars, Mixed
<1>1. CASE Call
  BY <1>1, MixEdit DEF Call, arena, M!Next
<1>2. CASE Serve
  BY <1>2, MixEdit DEF Serve, arena, M!Next
<1>3. CASE ProcessBegin
  <2>1. /\ phase = "idle" /\ phase' = "processing" /\ step' = 1
        /\ heard' = [i \in EdgeIndices |-> {}] /\ UNCHANGED <<kind, edges>>
    BY <1>3 DEF ProcessBegin, units
  <2>2. Mixed' = {} /\ Mixed = {}
    <3>1. 1 .. step' - 1 = {}
      BY <2>1
    <3> QED BY <2>1, <3>1 DEF Mixed, Processed, InCycle
  <2>3. InCycle = FALSE /\ InCycle' = TRUE
    BY <2>1 DEF InCycle
  <2> QED BY <2>1, <2>2, <2>3 DEF M!Next, M!Begin, M!Silence, Mixed
<1>4. CASE \E n \in Indices : ProcessNode(n)
  BY <1>4, MixStep DEF M!Next
<1>5. CASE ProcessEnd
  BY <1>5, MixEnd DEF M!Next
<1>6. CASE ProcessRemoved
  <2>1. /\ phase = "processing" /\ ordered[step] \notin Live /\ step' = step + 1
        /\ UNCHANGED <<kind, edges, ordered, phase, heard>>
    BY <1>6 DEF ProcessRemoved, units
  <2>2. step \in Nat /\ step \in 1 .. Len(ordered) + 1 /\ Len(ordered) \in Nat
    BY <2>1 DEF GraphInv, CycleInv, InCycle, TypeOK
  <2>3. 1 .. step' - 1 = (1 .. step - 1) \cup {step} /\ Live' = Live
    BY <2>1, <2>2 DEF Live
  <2>4. Mixed' = Mixed /\ InCycle' = InCycle
    BY <2>1, <2>3 DEF Mixed, Processed, InCycle
  <2> QED BY <2>1, <2>4
<1>7. ASSUME UNCHANGED <<kind, edges, heard>>, ~InCycle, ~InCycle'
      PROVE  UNCHANGED <<kind, edges, InCycle, Mixed, heard>>
  <2>1. Mixed = {} /\ Mixed' = {}
    BY <1>7 DEF Mixed, Processed
  <2> QED BY <1>7, <2>1 DEF InCycle
<1>8. CASE Updated \/ ServeEnd \/ ServeBegin
  BY <1>7, <1>8 DEF Updated, ServeEnd, ServeBegin, Sort, InCycle, units, arena
<1>9. ASSUME UNCHANGED <<kind, edges, heard, phase, ordered, step>>
      PROVE  UNCHANGED <<kind, edges, InCycle, Mixed, heard>>
  BY <1>9 DEF Mixed, Processed, InCycle, Live
<1>10. CASE \E n \in Indices, c \in MediaChannels \ {0} : Reopen(n, c)
  BY <1>9, <1>10 DEF Reopen, arena
<1>11. CASE SendRequest \/ ReceiveResponse
  BY <1>9, <1>11 DEF SendRequest, ReceiveResponse, units, arena
<1>12. CASE UNCHANGED vars
  BY <1>9, <1>12 DEF vars
\* A cycle that is given up stays as it is.
<1>13. ASSUME NEW n \in Indices, ProcessPanic(n)
       PROVE  UNCHANGED <<kind, edges, InCycle, Mixed, heard>>
  <2>1. /\ phase = "processing" /\ phase' = "aborted"
        /\ UNCHANGED <<kind, edges, ordered, step, heard>>
    BY <1>13 DEF ProcessPanic, IsNext, arena
  <2> QED BY <2>1 DEF Mixed, Processed, InCycle, Live
<1> QED BY <1>1, <1>2, <1>3, <1>4, <1>5, <1>6, <1>8, <1>10, <1>11, <1>12, <1>13 DEF Next

\* The graph implements the mixer: in every cycle every node is mixed once,
\* after its parents, and hears what they rendered in the same cycle.
THEOREM Refinement == Spec => Mixes
<1>1. Init => M!Init
  BY DEF Init, M!Init, M!Silence, Live, Processed, InCycle
<1> QED BY <1>1, RefinementStep, GraphInvariant, PTL DEF Spec, Mixes, M!Spec

-----------------------------------------------------------------------------
(***************************************************************************)
(* Edits that close no cycle                                               *)
(***************************************************************************)
LEMMA FiniteLive == IsFiniteSet(Live) /\ IsFiniteSet(Live')
<1>1. Live \subseteq Indices /\ Live' \subseteq Indices
  BY DEF Live
<1> QED BY <1>1, IndicesAssumption, FS_Subset

\* A method adds at most one node.
LEMMA OneAdded == ASSUME UnitsOK, Method PROVE \E n : Live' \subseteq Live \cup {n}
<1>1. ASSUME NEW n \in Indices, NEW k \in Kinds, NEW c \in ChannelsOf(k), Insert(n, k, c)
      PROVE  \E m : Live' \subseteq Live \cup {m}
  BY <1>1, InsertEffect
<1>2. ASSUME Live' \subseteq Live
      PROVE  \E m : Live' \subseteq Live \cup {m}
  BY <1>2
<1>3. ASSUME NEW n \in Indices, RemoveNode(n) PROVE Live' \subseteq Live
  BY <1>3 DEF RemoveNode, Live, UnitsOK
<1>4. ASSUME UNCHANGED kind PROVE Live' \subseteq Live
  BY <1>4 DEF Live
<1> QED BY <1>1, <1>2, <1>3, <1>4 DEF Method, AddNode, AddChild, AddEdge, DisconnectNodes, RemoveEdge

\* Of a set with older nodes, an older one has no parent in the set; else the
\* set is the new node, which is not its own parent.
LEMMA StaysAcyclic ==
    ASSUME Acyclic(Live, edges), Links, NEW n, Live' \subseteq Live \cup {n},
           \A e \in edges' \ edges : e.child \notin Live /\ e.parent # e.child
    PROVE  Acyclic(Live', edges')
<1> SUFFICES ASSUME NEW C \in SUBSET Live', C # {}
             PROVE  \E m \in C : \A e \in edges' : e.child = m => e.parent \notin C
  BY DEF Acyclic
<1>1. CASE C \cap Live # {}
  <2>1. PICK m \in C \cap Live : \A e \in edges : e.child = m => e.parent \notin C \cap Live
    BY <1>1 DEF Acyclic
  <2>2. ASSUME NEW e \in edges', e.child = m PROVE e \in edges /\ e.parent \in Live
    BY <2>1, <2>2 DEF Links
  <2> QED BY <2>1, <2>2
<1>2. CASE C \cap Live = {}
  <2>1. C = {n} /\ n \notin Live
    BY <1>2
  <2>2. ASSUME NEW e \in edges', e.child = n PROVE e \notin edges
    BY <2>1, <2>2 DEF Links
  <2> QED BY <2>1, <2>2
<1> QED BY <1>1, <1>2

LEMMA SortableAcyclic == (Sortable <=> Acyclic(Live, edges)) /\ (Sortable' <=> Acyclic(Live', edges'))
BY DEF Sortable, Acyclic

\* updated() panics exactly when the nodes cannot be ordered: where there is no
\* cycle there is a sort, in a graph of any size.
THEOREM SortOrPanic == Spec => [](Sorts # {} <=> Sortable)
<1>1. GraphInv => (Sorts # {} <=> Sortable)
  <2> SUFFICES ASSUME GraphInv PROVE Sorts # {} <=> Sortable
    OBVIOUS
  <2>1. Cardinality(Live) \in Nat /\ IsFiniteSet(Live)
    BY FiniteLive, FS_CardinalityType
  <2>2. \A s : IsSort(s) <=> Sorted(s, Live, edges)
    BY DEF IsSort, Sorted
  <2>3. ASSUME NEW s \in Sorts PROVE Sortable
    <3>1. s \in [1 .. Cardinality(Live) -> Live] /\ Sorted(s, Live, edges)
      BY <2>2 DEF Sorts
    <3> QED BY <2>1, <3>1, SortedAcyclic, SortableAcyclic
  <2>4. ASSUME Sortable PROVE Sorts # {}
    <3>1. Acyclic(Live, edges) /\ \A e \in edges : e.parent \in Live
      BY <2>4, SortableAcyclic DEF GraphInv, Links
    <3>2. PICK s \in [1 .. Cardinality(Live) -> Live] : Sorted(s, Live, edges)
      BY <2>1, <3>1, AcyclicSorted
    <3> QED BY <2>2, <3>2 DEF Sorts
  <2> QED BY <2>3, <2>4
<1> QED BY <1>1, GraphInvariant, PTL

\* Whatever is removed and whichever indices are used again, only an edge
\* between two nodes that are in the graph, or a child that gets the index of
\* the removed parent it is added to, makes updated() panic.
THEOREM OnlyEdgesCloseCycles == Spec => StaysSortable
<1>1. ASSUME GraphInv, [Next]_vars, UNCHANGED <<kind, edges>> \/ Method,
             \A e \in edges' \ edges : e.child \notin Live /\ e.parent # e.child, Sortable
      PROVE  UNCHANGED <<kind, edges>> \/ Sortable'
  <2> SUFFICES ASSUME Method PROVE Sortable'
    BY <1>1
  <2>1. UnitsOK /\ Links /\ edited \in BOOLEAN
    BY <1>1 DEF GraphInv, TypeOK, UnitsOK
  <2>2. PICK n : Live' \subseteq Live \cup {n}
    BY <2>1, OneAdded
  <2>3. Acyclic(Live', edges')
    BY <1>1, <2>1, <2>2, SortableAcyclic, StaysAcyclic
  <2> QED BY <2>3, SortableAcyclic
<1>2. Next => UNCHANGED <<kind, edges>> \/ Method
  BY DEF Next, Call, Serve, Updated, Reopen, ProcessNode, ProcessStep, ProcessPanic, SendRequest,
         ReceiveResponse, ServeBegin, ServeEnd, ProcessBegin, ProcessRemoved, ProcessEnd, units
<1>3. GraphInv /\ [Next]_vars =>
        [(\A e \in edges' \ edges : e.child \notin Live /\ e.parent # e.child) /\ Sortable
           => Sortable']_<<kind, edges>>
  BY <1>1, <1>2 DEF vars
<1> QED BY <1>3, GraphInvariant, PTL DEF Spec, StaysSortable

-----------------------------------------------------------------------------
(***************************************************************************)
(* The channels of the nodes                                               *)
(***************************************************************************)
LEMMA MethodFits == ASSUME UnitsOK, ChannelsFit, Method PROVE ChannelsFit'
<1>1. ASSUME NEW n \in Indices, NEW k \in Kinds, NEW c \in ChannelsOf(k), Insert(n, k, c)
      PROVE  ChannelsFit'
  <2>1. c \in Nat /\ Live' = Live \cup {n}
    BY <1>1, ChannelsType, InsertEffect
  <2>2. /\ channels' = [channels EXCEPT ![n] = c] /\ nChannels' = Larger(nChannels, c)
        /\ channels \in [Indices -> Nat] /\ nChannels \in Nat /\ Live \subseteq Indices
    BY <1>1 DEF Insert, UnitsOK, Live
  <2>3. nChannels <= nChannels' /\ c <= nChannels' /\ nChannels' \in Nat
    BY <2>1, <2>2 DEF Larger
  <2>4. ASSUME NEW m \in Live' PROVE channels'[m] <= nChannels'
    <3>1. CASE m = n
      BY <2>2, <2>3, <3>1
    <3>2. CASE m # n
      <4>1. m \in Live /\ channels'[m] = channels[m]
        BY <2>1, <2>2, <2>4, <3>2
      <4>2. channels[m] <= nChannels /\ channels[m] \in Nat
        BY <2>2, <4>1 DEF ChannelsFit
      <4> QED BY <2>2, <2>3, <4>1, <4>2
    <3> QED BY <3>1, <3>2
  <2> QED BY <2>4 DEF ChannelsFit
<1>2. ASSUME NEW n \in Indices, RemoveNode(n) PROVE ChannelsFit'
  BY <1>2 DEF RemoveNode, ChannelsFit, Live, UnitsOK
<1>3. ASSUME UNCHANGED <<kind, channels, nChannels>> PROVE ChannelsFit'
  BY <1>3 DEF ChannelsFit, Live
<1> QED BY <1>1, <1>2, <1>3 DEF Method, AddNode, AddChild, AddEdge, DisconnectNodes, RemoveEdge

\* Where no media is opened once it is in the graph, every slot has room for the
\* channels of its node: opening one (MediaView::open through node_mut) is the
\* only way past n_channels.
THEOREM FitUnlessReopened == ~Reopens => (Spec => []ChannelsFit)
<1> SUFFICES ASSUME ~Reopens PROVE Spec => []ChannelsFit
  OBVIOUS
<1>1. Init => ChannelsFit
  BY DEF Init, ChannelsFit, Live
<1>2. GraphInv /\ ChannelsFit /\ [Next]_vars => ChannelsFit'
  <2> SUFFICES ASSUME GraphInv, ChannelsFit, [Next]_vars PROVE ChannelsFit'
    OBVIOUS
  <2>1. UnitsOK
    BY DEF GraphInv, TypeOK, UnitsOK
  <2>2. CASE Method
    BY <2>1, <2>2, MethodFits
  <2>3. CASE UNCHANGED <<kind, channels, nChannels>>
    BY <2>3 DEF ChannelsFit, Live
  <2>4. Method \/ UNCHANGED <<kind, channels, nChannels>>
    BY DEF vars, Next, Call, Serve, Updated, Reopen, ProcessNode, ProcessStep, ProcessPanic,
           SendRequest, ReceiveResponse, ServeBegin, ServeEnd, ProcessBegin, ProcessRemoved, ProcessEnd, units
  <2> QED BY <2>2, <2>3, <2>4
<1> QED BY <1>1, <1>2, GraphInvariant, PTL DEF Spec
=============================================================================
