--------------------------- MODULE MultiplexProofs ---------------------------
(***************************************************************************)
(* Proofs about Multiplex, for every set of ids and handles, every         *)
(* max_flying and every number of frames.                                  *)
(***************************************************************************)
EXTENDS Multiplex, FiniteSetTheorems, SequenceTheorems, TLAPS

-----------------------------------------------------------------------------
(***************************************************************************)
(* Sequences of positions                                                  *)
(***************************************************************************)
\* Receiving the head of a queue leaves received-then-queued as it was.
LEMMA MoveHead ==
    ASSUME NEW g \in Seq(Nat), NEW q \in Seq(Nat), q # << >>
    PROVE  /\ Append(g, Head(q)) \o Tail(q) = g \o q
           /\ Head(q) \in Nat /\ Tail(q) \in Seq(Nat)
           /\ Append(g, Head(q)) \in Seq(Nat)
<1>1. Head(q) = q[1] /\ q[1] \in Nat /\ Tail(q) \in Seq(Nat) /\ Len(q) \in Nat \ {0}
  OBVIOUS
<1>2. Append(g, Head(q)) \in Seq(Nat)
  BY <1>1
<1> DEFINE a == Append(g, Head(q)) \o Tail(q)
           b == g \o q
<1>3. a \in Seq(Nat) /\ b \in Seq(Nat)
  BY <1>1, <1>2
<1>4. Len(a) = Len(b)
  BY <1>1, <1>2
<1>5. \A i \in 1 .. Len(b) : a[i] = b[i]
  BY <1>1, <1>2
<1>6. a = b
  <2> HIDE DEF a, b
  <2> QED BY <1>3, <1>4, <1>5, SeqEqual, Zenon
<1> QED BY <1>1, <1>2, <1>6

\* Dispatching a frame appends it to received-then-queued.
LEMMA QueueAppend ==
    ASSUME NEW g \in Seq(Nat), NEW q \in Seq(Nat), NEW n \in Nat
    PROVE  g \o Append(q, n) = Append(g \o q, n) /\ Append(q, n) \in Seq(Nat)
<1> DEFINE a == g \o Append(q, n)
           b == Append(g \o q, n)
<1>1. Append(q, n) \in Seq(Nat) /\ g \o q \in Seq(Nat)
  OBVIOUS
<1>2. a \in Seq(Nat) /\ b \in Seq(Nat) /\ Len(a) = Len(b)
  BY <1>1
<1>3. \A i \in 1 .. Len(b) : a[i] = b[i]
  BY <1>1
<1>4. a = b
  <2> HIDE DEF a, b
  <2> QED BY <1>2, <1>3, SeqEqual, Zenon
<1> QED BY <1>1, <1>4

LEMMA AppendPosition ==
    ASSUME NEW s \in Seq(Nat), NEW n \in Nat
    PROVE  /\ Append(s, n) \in Seq(Nat)
           /\ Positions(Append(s, n)) = Positions(s) \cup {n}
<1>1. Len(s) \in Nat /\ DOMAIN s = 1 .. Len(s) /\ Append(s, n) \in Seq(Nat)
  OBVIOUS
<1>2. /\ DOMAIN Append(s, n) = 1 .. Len(s) + 1
      /\ \A i \in 1 .. Len(s) : Append(s, n)[i] = s[i]
      /\ Append(s, n)[Len(s) + 1] = n
  BY <1>1
<1>3. ASSUME NEW x \in Positions(Append(s, n)) PROVE x \in Positions(s) \cup {n}
  BY <1>1, <1>2 DEF Positions
<1>4. ASSUME NEW x \in Positions(s) PROVE x \in Positions(Append(s, n))
  <2>1. PICK i \in 1 .. Len(s) : x = s[i]
    BY <1>1 DEF Positions
  <2>2. i \in 1 .. Len(s) + 1 /\ x = Append(s, n)[i]
    BY <1>1, <1>2, <2>1
  <2> QED BY <1>2, <2>2 DEF Positions
<1>5. n \in Positions(Append(s, n))
  <2>1. Len(s) + 1 \in 1 .. Len(s) + 1
    BY <1>1
  <2> QED BY <1>2, <2>1 DEF Positions
<1> QED BY <1>1, <1>3, <1>4, <1>5

LEMMA ConcatPositions ==
    ASSUME NEW g \in Seq(Nat), NEW q \in Seq(Nat)
    PROVE  g \o q \in Seq(Nat) /\ Positions(g \o q) = Positions(g) \cup Positions(q)
<1>1. /\ Len(g) \in Nat /\ Len(q) \in Nat /\ g \o q \in Seq(Nat)
      /\ DOMAIN g = 1 .. Len(g) /\ DOMAIN q = 1 .. Len(q)
      /\ DOMAIN (g \o q) = 1 .. Len(g) + Len(q)
  OBVIOUS
<1>2. /\ \A i \in 1 .. Len(g) : (g \o q)[i] = g[i]
      /\ \A i \in Len(g) + 1 .. Len(g) + Len(q) : (g \o q)[i] = q[i - Len(g)]
  BY <1>1
<1>3. ASSUME NEW x \in Positions(g \o q) PROVE x \in Positions(g) \cup Positions(q)
  <2>1. PICK i \in 1 .. Len(g) + Len(q) : x = (g \o q)[i]
    BY <1>1 DEF Positions
  <2>2. CASE i <= Len(g)
    BY <1>1, <1>2, <2>1, <2>2 DEF Positions
  <2>3. CASE i > Len(g)
    <3>1. i - Len(g) \in 1 .. Len(q) /\ x = q[i - Len(g)]
      BY <1>1, <1>2, <2>1, <2>3
    <3> QED BY <1>1, <3>1 DEF Positions
  <2> QED BY <1>1, <2>1, <2>2, <2>3
<1>4. ASSUME NEW x \in Positions(g) PROVE x \in Positions(g \o q)
  <2>1. PICK i \in 1 .. Len(g) : x = g[i]
    BY <1>1 DEF Positions
  <2>2. i \in 1 .. Len(g) + Len(q) /\ x = (g \o q)[i]
    BY <1>1, <1>2, <2>1
  <2> QED BY <1>1, <2>2 DEF Positions
<1>5. ASSUME NEW x \in Positions(q) PROVE x \in Positions(g \o q)
  <2>1. PICK i \in 1 .. Len(q) : x = q[i]
    BY <1>1 DEF Positions
  <2>2. i + Len(g) \in Len(g) + 1 .. Len(g) + Len(q)
    BY <1>1
  <2>3. i + Len(g) \in 1 .. Len(g) + Len(q) /\ (i + Len(g)) - Len(g) = i
    BY <1>1
  <2>4. x = (g \o q)[i + Len(g)]
    BY <1>2, <2>1, <2>2, <2>3
  <2> QED BY <1>1, <2>3, <2>4 DEF Positions
<1> QED BY <1>1, <1>3, <1>4, <1>5

LEMMA AppendDistinct ==
    ASSUME NEW s \in Seq(Nat), NEW n \in Nat, Distinct(s), n \notin Positions(s)
    PROVE  Distinct(Append(s, n))
<1>1. Len(s) \in Nat /\ DOMAIN s = 1 .. Len(s)
  OBVIOUS
<1>2. /\ DOMAIN Append(s, n) = 1 .. Len(s) + 1
      /\ \A i \in 1 .. Len(s) : Append(s, n)[i] = s[i]
      /\ Append(s, n)[Len(s) + 1] = n
  BY <1>1
<1>3. \A i \in 1 .. Len(s) : s[i] # n
  BY <1>1 DEF Positions
<1>4. \A i, j \in 1 .. Len(s) : s[i] = s[j] => i = j
  BY <1>1 DEF Distinct
<1>5. \A i \in 1 .. Len(s) + 1 : i \in 1 .. Len(s) \/ i = Len(s) + 1
  BY <1>1
<1> QED BY <1>2, <1>3, <1>4, <1>5 DEF Distinct

\* Handing a frame out while others are queued keeps the trail without repetition.
LEMMA InsertDistinct ==
    ASSUME NEW g \in Seq(Nat), NEW q \in Seq(Nat), NEW n \in Nat,
           Distinct(g \o q), n \notin Positions(g \o q)
    PROVE  Distinct(Append(g, n) \o q)
<1> DEFINE l == Len(g)
           m == Len(q)
           t == g \o q
           u == Append(g, n) \o q
<1>1. l \in Nat /\ m \in Nat /\ Append(g, n) \in Seq(Nat)
  OBVIOUS
<1>2. /\ DOMAIN t = 1 .. l + m /\ DOMAIN u = 1 .. l + m + 1
      /\ \A i \in 1 .. l : t[i] = g[i] /\ u[i] = g[i]
      /\ u[l + 1] = n
      /\ \A i \in l + 1 .. l + m : t[i] = q[i - l]
      /\ \A i \in l + 2 .. l + m + 1 : u[i] = q[i - (l + 1)]
  BY <1>1
<1>3. \A i \in l + 2 .. l + m + 1 :
         i - 1 \in l + 1 .. l + m /\ i - 1 \in 1 .. l + m /\ u[i] = t[i - 1]
  BY <1>1, <1>2
<1>3a. \A i \in 1 .. l : i \in 1 .. l + m /\ u[i] = t[i]
  BY <1>1, <1>2
<1>4. \A i \in 1 .. l + m : t[i] # n
  BY <1>2 DEF Positions
<1>5. \A i, j \in 1 .. l + m : t[i] = t[j] => i = j
  BY <1>2 DEF Distinct
<1>6. ASSUME NEW i \in 1 .. l + m + 1, NEW j \in 1 .. l + m + 1, u[i] = u[j]
      PROVE  i = j
  <2> HIDE DEF l, m, t, u
  <2>1. /\ i \in 1 .. l \/ i = l + 1 \/ i \in l + 2 .. l + m + 1
        /\ j \in 1 .. l \/ j = l + 1 \/ j \in l + 2 .. l + m + 1
    BY <1>1 DEF l, m
  <2>2. CASE i = l + 1 \/ j = l + 1
    BY <1>2, <1>3, <1>3a, <1>4, <1>6, <2>1, <2>2
  <2>3. CASE i \in 1 .. l /\ j \in 1 .. l
    BY <1>3a, <1>5, <1>6, <2>3
  <2>4. CASE i \in l + 2 .. l + m + 1 /\ j \in l + 2 .. l + m + 1
    <3>1. i - 1 = j - 1
      BY <1>3, <1>5, <1>6, <2>4
    <3> QED BY <3>1
  <2>5. CASE i \in 1 .. l /\ j \in l + 2 .. l + m + 1
    <3>1. i = j - 1
      BY <1>3, <1>3a, <1>5, <1>6, <2>5
    <3> QED BY <1>1, <1>3, <2>5, <3>1 DEF l, m
  <2>6. CASE i \in l + 2 .. l + m + 1 /\ j \in 1 .. l
    <3>1. i - 1 = j
      BY <1>3, <1>3a, <1>5, <1>6, <2>6
    <3> QED BY <1>1, <1>3, <2>6, <3>1 DEF l, m
  <2> QED BY <2>1, <2>2, <2>3, <2>4, <2>5, <2>6
<1> QED BY <1>2, <1>6 DEF Distinct

LEMMA AppendIncreasing ==
    ASSUME NEW s \in Seq(Nat), NEW n \in Nat, Increasing(s),
           \A m \in Positions(s) : m < n
    PROVE  Increasing(Append(s, n))
<1>1. Len(s) \in Nat /\ DOMAIN s = 1 .. Len(s)
  OBVIOUS
<1>2. /\ DOMAIN Append(s, n) = 1 .. Len(s) + 1
      /\ \A i \in 1 .. Len(s) : Append(s, n)[i] = s[i]
      /\ Append(s, n)[Len(s) + 1] = n
  BY <1>1
<1>3. \A i \in 1 .. Len(s) : s[i] < n
  BY <1>1 DEF Positions
<1>4. \A i, j \in 1 .. Len(s) : i < j => s[i] < s[j]
  BY <1>1 DEF Increasing
<1>5. ASSUME NEW i \in 1 .. Len(s) + 1, NEW j \in 1 .. Len(s) + 1, i < j
      PROVE  Append(s, n)[i] < Append(s, n)[j]
  <2>1. i \in 1 .. Len(s) /\ (j \in 1 .. Len(s) \/ j = Len(s) + 1)
    BY <1>1, <1>5
  <2> QED BY <1>2, <1>3, <1>4, <1>5, <2>1
<1> QED BY <1>2, <1>5 DEF Increasing

\* A prefix of an increasing, or repetition-free, sequence is one too.
LEMMA PrefixKeeps ==
    ASSUME NEW g \in Seq(Nat), NEW q \in Seq(Nat)
    PROVE  /\ Distinct(g \o q) => Distinct(g)
           /\ Increasing(g \o q) => Increasing(g)
           /\ Positions(g) \subseteq Positions(g \o q)
           /\ g \o << >> = g
<1>1. /\ Len(g) \in Nat /\ Len(q) \in Nat
      /\ DOMAIN g = 1 .. Len(g) /\ DOMAIN (g \o q) = 1 .. Len(g) + Len(q)
      /\ \A i \in 1 .. Len(g) : (g \o q)[i] = g[i]
      /\ \A i \in 1 .. Len(g) : i \in 1 .. Len(g) + Len(q)
  OBVIOUS
<1>2. Distinct(g \o q) => Distinct(g)
  BY <1>1 DEF Distinct
<1>3. Increasing(g \o q) => Increasing(g)
  BY <1>1 DEF Increasing
<1>4. Positions(g) \subseteq Positions(g \o q)
  BY ConcatPositions
<1>5. g \o << >> = g
  <2>1. /\ g \o << >> \in Seq(Nat) /\ Len(g \o << >>) = Len(g)
        /\ \A i \in 1 .. Len(g) : (g \o << >>)[i] = g[i]
    BY <1>1
  <2> QED BY <2>1
<1> QED BY <1>2, <1>3, <1>4, <1>5

-----------------------------------------------------------------------------
(***************************************************************************)
(* Type correctness                                                        *)
(***************************************************************************)
LEMMA RetainedEntries ==
    ASSUME TypeOK
    PROVE  /\ Retained \in [Keys -> Handles \cup {NoHandle}]
           /\ \A k \in Keys : Retained[k] # NoHandle =>
                  Retained[k] = entry[k] /\ Retained[k] \in Handles /\ ~used[Retained[k]]
BY DEF TypeOK, Retained, IsClosed

LEMMA TypeInit == Init => TypeOK
BY HandleAssumption, IdAssumption, BoundAssumption DEF Init, TypeOK, Keys, Room

LEMMA FrameRead ==
    ASSUME TypeOK, ~Empty
    PROVE  /\ read + 1 \in 1 .. Len(sent) /\ read + 1 \in Nat
           /\ sent[read + 1] \in Frame /\ Rid \in Ids /\ Rid \in Keys
<1>1. Len(sent) \in Nat /\ read \in 0 .. Len(sent) /\ read # Len(sent)
  BY DEF TypeOK, Empty
<1>2. read + 1 \in 1 .. Len(sent) /\ read + 1 \in Nat
  BY <1>1
<1>3. sent[read + 1] \in Frame
  BY <1>2 DEF TypeOK
<1> QED BY <1>2, <1>3 DEF Rid, Frame, Keys

LEMMA TypeSubscribe ==
    ASSUME TypeOK, NEW h \in Handles, NEW i \in Ids, NEW single \in BOOLEAN,
           NEW n \in Nat \ {0}, NEW state \in {"open", "sending"},
           Subscribe(h, i, single, n, state), late' = late,
           used' \in [Handles -> BOOLEAN],
           asking' \in [Handles -> Handles \cup {NoHandle}]
    PROVE  TypeOK'
<1>1. i \in Keys /\ state \in {"free", "sending", "open", "dropped"}
  BY DEF Keys
<1>2. UNCHANGED <<sent, read, peer, queue, got, pc, late, ended>>
  BY DEF Subscribe, wire
<1>3. entry' \in [Keys -> Handles \cup {NoHandle}]
  BY <1>1 DEF Subscribe, TypeOK
<1>4. /\ status' \in [Handles -> {"free", "sending", "open", "dropped"}]
      /\ cid' \in [Handles -> Keys]
  BY <1>1 DEF Subscribe, TypeOK
<1>5. /\ oneshot' \in [Handles -> BOOLEAN]
      /\ room' \in [Handles -> Nat \ {0}]
  BY DEF Subscribe, TypeOK
<1>6. since' \in [Handles -> Nat]
  BY DEF Subscribe, TypeOK
<1> QED BY <1>2, <1>3, <1>4, <1>5, <1>6 DEF TypeOK

LEMMA TypeHandle ==
    ASSUME TypeOK, NEW h \in Handles,
           \/ HandleClose(h) \/ HandleOwn(h) \/ HandleOther(h)
           \/ HandleUnclaimed(h) \/ HandleDefault(h)
    PROVE  TypeOK'
<1>1. ~Empty /\ Locked(h) /\ read' = read + 1
  BY DEF HandleClose, HandleOwn, HandleOther, HandleUnclaimed, HandleDefault, Take
<1>2. read' \in 0 .. Len(sent') /\ read + 1 \in Nat /\ Rid \in Keys
  BY <1>1, FrameRead DEF TypeOK, Locked
<1>3. Retained \in [Keys -> Handles \cup {NoHandle}]
  BY RetainedEntries
<1>4. /\ UNCHANGED <<sent, peer, status, cid, oneshot, room, since, asking, late>>
      /\ pc' \in [Handles -> {"idle", "lock"}]
  BY <1>1 DEF Locked, chans, TypeOK
<1>5. entry' \in [Keys -> Handles \cup {NoHandle}]
  BY <1>2, <1>3 DEF HandleClose, HandleOwn, HandleOther, HandleUnclaimed, HandleDefault
<1>6. got' \in [Handles -> Seq(Nat)] /\ ended' \in [Handles -> BOOLEAN]
  <2>1. CASE NotReady(h)
    BY <2>1 DEF NotReady, TypeOK
  <2>2. CASE Return(h)
    BY <1>2, <2>2 DEF Return, TypeOK
  <2> QED BY <2>1, <2>2 DEF HandleClose, HandleOwn, HandleOther, HandleUnclaimed,
             HandleDefault
<1>7. queue' \in [Handles -> Seq(Nat)] /\ used' \in [Handles -> BOOLEAN]
  <2>0. \A g \in Handles : Append(queue[g], read + 1) \in Seq(Nat)
    BY <1>2, AppendPosition DEF TypeOK
  <2>1. CASE UNCHANGED <<queue, used>>
    BY <2>1 DEF TypeOK
  <2>2. CASE HandleOther(h)
    <3>1. CASE UNCHANGED <<queue, used>>
      BY <3>1 DEF TypeOK
    <3>2. CASE /\ queue' = [queue EXCEPT ![Owner] = Append(@, read + 1)]
               /\ used' = [used EXCEPT ![Owner] = oneshot[Owner]]
      <4>1. Owner \in Handles
        BY <1>2, <1>3, <2>2 DEF HandleOther, Owner
      <4> QED BY <2>0, <3>2, <4>1 DEF TypeOK
    <3> QED BY <2>2, <3>1, <3>2 DEF HandleOther
  <2>3. CASE HandleDefault(h)
    <3>1. used' = used /\ \/ queue' = queue
                          \/ queue' = [queue EXCEPT ![Root] = Append(@, read + 1)]
      BY <2>3 DEF HandleDefault
    <3>2. Append(queue[Root], read + 1) \in Seq(Nat)
      BY <2>0, HandleAssumption
    <3>3. queue' \in [Handles -> Seq(Nat)]
      BY <3>1, <3>2 DEF TypeOK
    <3> QED BY <3>1, <3>3 DEF TypeOK
  <2> QED BY <2>1, <2>2, <2>3 DEF HandleClose, HandleOwn, HandleUnclaimed, Return
<1> QED BY <1>2, <1>4, <1>5, <1>6, <1>7 DEF TypeOK

LEMMA TypeNext == TypeOK /\ [Next]_vars => TypeOK'
<1> SUFFICES ASSUME TypeOK, [Next]_vars PROVE TypeOK'
  OBVIOUS
<1>1. CASE PeerSend
  <2>1. PICK f \in Frame : sent' = Append(sent, f)
    BY <1>1 DEF PeerSend
  <2>2. sent' \in Seq(Frame) /\ Len(sent') = Len(sent) + 1
    BY <2>1 DEF TypeOK
  <2>3. read' \in 0 .. Len(sent')
    BY <1>1, <2>2 DEF PeerSend, TypeOK
  <2> QED BY <1>1, <2>2, <2>3 DEF PeerSend, TypeOK, chans
<1>2. CASE PeerLeave
  BY <1>2 DEF PeerLeave, TypeOK, chans
<1>3. ASSUME NEW p \in Handles, NEW h \in Handles, AddChannel(p, h) PROVE TypeOK'
  <2>1. Room(Buffer) \in Nat \ {0} /\ late' = late
    BY <1>3, BoundAssumption DEF Room, AddChannel, Subscribe
  <2>2. used' \in [Handles -> BOOLEAN]
    BY <1>3 DEF AddChannel, TypeOK
  <2> QED BY <1>3, <2>1, <2>2, TypeSubscribe DEF AddChannel, TypeOK
<1>4. ASSUME NEW p \in Handles, NEW h \in Handles, BeginRequest(p, h) PROVE TypeOK'
  <2>1. Room(MaxFlying) \in Nat \ {0} /\ 1 \in Nat \ {0} /\ late' = late
    BY <1>4, BoundAssumption DEF Room, BeginRequest, Subscribe
  <2>2. asking' \in [Handles -> Handles \cup {NoHandle}]
    BY <1>4 DEF BeginRequest, TypeOK
  <2>3. used' \in [Handles -> BOOLEAN]
    BY <1>4 DEF BeginRequest, TypeOK
  <2> QED BY <1>4, <2>1, <2>2, <2>3, TypeSubscribe DEF BeginRequest
<1>5. ASSUME NEW h \in Handles, FinishRequest(h) PROVE TypeOK'
  BY <1>5 DEF FinishRequest, TypeOK, wire
<1>6. ASSUME NEW h \in Handles, AbortRequest(h) PROVE TypeOK'
  <2>1. asking[h] \in Handles /\ cid[asking[h]] \in Keys
    BY <1>6 DEF AbortRequest, TypeOK
  <2>2. entry' \in [Keys -> Handles \cup {NoHandle}]
    BY <1>6, <2>1 DEF AbortRequest, Release, TypeOK
  <2>3. /\ status' \in [Handles -> {"free", "sending", "open", "dropped"}]
        /\ queue' \in [Handles -> Seq(Nat)]
    BY <1>6, <2>1 DEF AbortRequest, Release, TypeOK
  <2>4. asking' \in [Handles -> Handles \cup {NoHandle}]
    BY <1>6 DEF AbortRequest, TypeOK
  <2> QED BY <1>6, <2>2, <2>3, <2>4 DEF AbortRequest, Release, TypeOK, wire
<1>7. ASSUME NEW h \in Handles, DropChannel(h) PROVE TypeOK'
  BY <1>7 DEF DropChannel, Release, TypeOK, wire
<1>8. ASSUME NEW h \in Handles, CloseMultiplex(h) PROVE TypeOK'
  BY <1>8 DEF CloseMultiplex, TypeOK, wire, chans
<1>9. ASSUME NEW h \in Handles, Expire(h) PROVE TypeOK'
  BY <1>9 DEF Expire, TypeOK, wire, chans
<1>10. ASSUME NEW h \in Handles, DelayTimeout(h) PROVE TypeOK'
  BY <1>10 DEF DelayTimeout, TypeOK, wire, chans
<1>11. ASSUME NEW h \in Handles, PollQueueItem(h) PROVE TypeOK'
  <2>1. /\ Tail(queue[h]) \in Seq(Nat)
        /\ Append(got[h], Head(queue[h])) \in Seq(Nat)
    BY <1>11, MoveHead DEF PollQueueItem, TypeOK
  <2> QED BY <1>11, <2>1 DEF PollQueueItem, TypeOK, wire, chans
<1>12. ASSUME NEW h \in Handles, PollQueueEnd(h) PROVE TypeOK'
  BY <1>12 DEF PollQueueEnd, TypeOK, wire, chans
<1>13. ASSUME NEW h \in Handles, PollQueuePending(h) PROVE TypeOK'
  BY <1>13 DEF PollQueuePending, TypeOK, wire, chans
<1>14. ASSUME NEW h \in Handles,
              PollSaturated(h) \/ PollEmpty(h) \/ PollTransportEnd(h)
       PROVE  TypeOK'
  <2>1. /\ entry' = Retained /\ pc' = [pc EXCEPT ![h] = "idle"]
        /\ ended' = [ended EXCEPT ![h] = late[h]] \/ ended' = [ended EXCEPT ![h] = TRUE]
        /\ UNCHANGED <<sent, read, peer, status, cid, oneshot, room, used, queue,
                       got, since, asking, late>>
    BY <1>14 DEF PollSaturated, PollEmpty, PollTransportEnd, NotReady, Locked, chans
  <2>2. entry' \in [Keys -> Handles \cup {NoHandle}]
    BY <2>1, RetainedEntries
  <2>3. pc' \in [Handles -> {"idle", "lock"}] /\ ended' \in [Handles -> BOOLEAN]
    <3>1. /\ pc \in [Handles -> {"idle", "lock"}] /\ ended \in [Handles -> BOOLEAN]
          /\ late[h] \in BOOLEAN
      BY DEF TypeOK
    <3> QED BY <2>1, <3>1
  <2> QED BY <2>1, <2>2, <2>3 DEF TypeOK
<1>15. CASE UNCHANGED vars
  BY <1>15 DEF vars, TypeOK
<1> QED BY <1>1, <1>2, <1>3, <1>4, <1>5, <1>6, <1>7, <1>8, <1>9, <1>10, <1>11,
           <1>12, <1>13, <1>14, <1>15, TypeHandle DEF Next, Poll

\* Every variable keeps its type, whatever the ids, handles and bounds.
THEOREM TypeCorrect == Spec => []TypeOK
BY TypeInit, TypeNext, PTL DEF Spec

-----------------------------------------------------------------------------
(***************************************************************************)
(* What a step does to the frames: eight kinds of steps.                   *)
(***************************************************************************)
\* Only the default Channel and handles not created yet have no id, and the
\* Channel registered under an id has that id.
Registry ==
    /\ cid[Root] = NoId /\ status[Root] # "free"
    /\ \A h \in Handles : status[h] = "free" =>
          cid[h] = NoId /\ got[h] = << >> /\ queue[h] = << >>
    /\ \A h \in Handles \ {Root} : status[h] # "free" => cid[h] \in Ids
    /\ \A h \in Handles : pc[h] = "lock" => status[h] # "free"
    /\ \A k \in Keys : entry[k] # NoHandle =>
          cid[entry[k]] = k /\ status[entry[k]] # "free"
    /\ \A h \in Handles : asking[h] # NoHandle => status[asking[h]] # "free"

Fits(h) == IsData(read + 1) /\ (h = Root \/ sent[read + 1].id = cid[h])

Stays == UNCHANGED <<sent, read, cid, got, queue>>

Sends ==
    /\ \E f \in Frame : sent' = Append(sent, f)
    /\ UNCHANGED <<read, cid, got, queue>>

Opens(h) ==
    /\ status[h] = "free"
    /\ \E i \in Ids : cid' = [cid EXCEPT ![h] = i]
    /\ UNCHANGED <<sent, read, got, queue>>

Cuts(h) ==
    /\ queue' = [queue EXCEPT ![h] = << >>]
    /\ UNCHANGED <<sent, read, cid, got>>

Receives(h) ==
    /\ queue[h] # << >>
    /\ got' = [got EXCEPT ![h] = Append(@, Head(queue[h]))]
    /\ queue' = [queue EXCEPT ![h] = Tail(@)]
    /\ UNCHANGED <<sent, read, cid>>

Reads == ~Empty /\ read' = read + 1 /\ UNCHANGED <<sent, cid>>

Skips == Reads /\ UNCHANGED <<got, queue>>

DirectTo(h) ==
    /\ Reads /\ Fits(h)
    /\ pc[h] = "lock" /\ UNCHANGED queue
    /\ got' = [got EXCEPT ![h] = Append(@, read + 1)]

QueuedTo(h) ==
    /\ Reads /\ Fits(h)
    /\ UNCHANGED got
    /\ queue' = [queue EXCEPT ![h] = Append(@, read + 1)]

StepKind ==
    \/ Stays \/ Sends \/ Skips
    \/ \E h \in Handles : \/ Opens(h) \/ Cuts(h) \/ Receives(h)
                          \/ DirectTo(h) \/ QueuedTo(h)

LEMMA RegistryInit == Init => Registry
BY HandleAssumption, IdAssumption DEF Init, Registry, Keys

LEMMA OwnerFits ==
    ASSUME TypeOK, Registry, ~Empty, Owner # NoHandle, IsData(read + 1)
    PROVE  /\ Owner \in Handles /\ Fits(Owner)
           /\ entry[Rid] = Owner /\ cid[Owner] = Rid /\ ~used[Owner]
<1>1. Rid \in Keys
  BY FrameRead
<1>2. Owner \in Handles /\ entry[Rid] = Owner /\ ~used[Owner]
  BY <1>1, RetainedEntries DEF Owner
<1>3. cid[Owner] = Rid
  BY <1>1, <1>2, HandleAssumption DEF Registry
<1> QED BY <1>2, <1>3 DEF Fits, Rid

LEMMA StepKinds == TypeOK /\ Registry /\ [Next]_vars => StepKind
<1> SUFFICES ASSUME TypeOK, Registry, [Next]_vars PROVE StepKind
  OBVIOUS
<1>1. CASE PeerSend
  BY <1>1 DEF PeerSend, chans, StepKind, Sends
<1>2. CASE PeerLeave
  BY <1>2 DEF PeerLeave, chans, StepKind, Stays
<1>3. ASSUME NEW p \in Handles, NEW h \in Handles,
             AddChannel(p, h) \/ BeginRequest(p, h)
      PROVE  StepKind
  BY <1>3 DEF AddChannel, BeginRequest, Subscribe, wire, StepKind, Opens
<1>4. ASSUME NEW p \in Handles, AbortRequest(p) PROVE StepKind
  <2>1. asking[p] \in Handles
    BY <1>4 DEF AbortRequest, TypeOK
  <2> QED BY <1>4, <2>1 DEF AbortRequest, Release, wire, StepKind, Cuts
<1>5. ASSUME NEW h \in Handles, DropChannel(h) PROVE StepKind
  BY <1>5 DEF DropChannel, Release, wire, StepKind, Cuts
<1>6. ASSUME NEW h \in Handles,
             \/ FinishRequest(h) \/ CloseMultiplex(h)
             \/ Expire(h) \/ DelayTimeout(h)
      PROVE  StepKind
  BY <1>6 DEF FinishRequest, CloseMultiplex, Expire, DelayTimeout,
              wire, chans, StepKind, Stays
<1>7. ASSUME NEW h \in Handles, PollQueueItem(h) PROVE StepKind
  BY <1>7 DEF PollQueueItem, wire, chans, StepKind, Receives
<1>8. ASSUME NEW h \in Handles, PollQueueEnd(h) \/ PollQueuePending(h)
      PROVE  StepKind
  BY <1>8 DEF PollQueueEnd, PollQueuePending, wire, chans, StepKind, Stays
<1>9. ASSUME NEW h \in Handles,
             PollSaturated(h) \/ PollEmpty(h) \/ PollTransportEnd(h)
      PROVE  StepKind
  BY <1>9 DEF PollSaturated, PollEmpty, PollTransportEnd, Locked, NotReady,
              chans, StepKind, Stays
<1>10. ASSUME NEW h \in Handles, NEW payload, Take(h, payload)
       PROVE  Reads /\ pc[h] = "lock" /\ (payload = "Data" => IsData(read + 1))
  BY <1>10 DEF Take, Locked, chans, Reads, IsData
<1>11. ASSUME NEW h \in Handles, HandleClose(h) PROVE StepKind
  BY <1>10, <1>11 DEF HandleClose, NotReady, StepKind, Skips
<1>12. ASSUME NEW h \in Handles, HandleOwn(h) \/ HandleUnclaimed(h)
       PROVE  StepKind
  <2>1. Reads /\ pc[h] = "lock" /\ IsData(read + 1) /\ Return(h)
    BY <1>10, <1>12 DEF HandleOwn, HandleUnclaimed
  <2>2. Fits(h)
    <3>1. CASE HandleOwn(h)
      BY <2>1, <3>1 DEF HandleOwn, Fits, Rid
    <3>2. CASE HandleUnclaimed(h)
      <4>1. h = Root
        BY <2>1, <3>2, IdAssumption DEF Registry, HandleUnclaimed
      <4> QED BY <2>1, <4>1 DEF Fits
    <3> QED BY <1>12, <3>1, <3>2
  <2> QED BY <2>1, <2>2 DEF Return, StepKind, DirectTo
<1>13. ASSUME NEW h \in Handles, HandleOther(h) PROVE StepKind
  <2>1. Reads /\ IsData(read + 1) /\ Owner # NoHandle /\ UNCHANGED got
    BY <1>10, <1>13 DEF HandleOther, NotReady
  <2>2. Owner \in Handles /\ Fits(Owner)
    BY <2>1, OwnerFits DEF Reads
  <2> QED BY <1>13, <2>1, <2>2 DEF HandleOther, StepKind, Skips, QueuedTo
<1>14. ASSUME NEW h \in Handles, HandleDefault(h) PROVE StepKind
  <2>1. Reads /\ IsData(read + 1) /\ UNCHANGED got /\ Fits(Root)
    BY <1>10, <1>14 DEF HandleDefault, NotReady, Fits
  <2> QED BY <1>14, <2>1, HandleAssumption
          DEF HandleDefault, StepKind, Skips, QueuedTo
<1>15. CASE UNCHANGED vars
  BY <1>15 DEF vars, StepKind, Stays
<1> QED BY <1>1, <1>2, <1>3, <1>4, <1>5, <1>6, <1>7, <1>8, <1>9, <1>11,
           <1>12, <1>13, <1>14, <1>15 DEF Next, Poll

LEMMA RegistryNext == TypeOK /\ Registry /\ [Next]_vars => Registry'
<1> SUFFICES ASSUME TypeOK, Registry, [Next]_vars PROVE Registry'
  OBVIOUS
<1>1. ASSUME NEW h \in Handles, NEW i \in Ids, NEW single, NEW n,
             NEW state \in {"open", "sending"}, Subscribe(h, i, single, n, state),
             \A p \in Handles : asking'[p] = asking[p] \/ asking'[p] = h
      PROVE  Registry'
  <2>1. /\ cid' = [cid EXCEPT ![h] = i] /\ status' = [status EXCEPT ![h] = state]
        /\ entry' = [entry EXCEPT ![i] = h]
        /\ UNCHANGED <<queue, got, pc>> /\ status[h] = "free"
    BY <1>1 DEF Subscribe
  <2>2. h # Root /\ cid[h] = NoId /\ i # NoId /\ i \in Keys
    BY <2>1, IdAssumption DEF Registry, Keys
  <2>3. ASSUME NEW k \in Keys, entry'[k] # NoHandle
        PROVE  cid'[entry'[k]] = k /\ status'[entry'[k]] # "free"
    <3>1. CASE k = i
      BY <2>1, <2>2, <3>1 DEF TypeOK
    <3>2. CASE k # i
      <4>1. entry'[k] = entry[k] /\ entry[k] \in Handles /\ entry[k] # h
        BY <2>1, <2>2, <2>3, <3>2 DEF Registry, TypeOK
      <4> QED BY <2>1, <2>3, <4>1 DEF Registry, TypeOK
    <3> QED BY <3>1, <3>2
  <2>4. \A g \in Handles \ {h} : cid'[g] = cid[g] /\ status'[g] = status[g]
    BY <2>1 DEF TypeOK
  <2>5. cid'[h] = i /\ status'[h] = state
    BY <2>1 DEF TypeOK
  <2>6. cid'[Root] = NoId /\ status'[Root] # "free"
    BY <2>2, <2>4, HandleAssumption DEF Registry
  <2>7. \A g \in Handles : status'[g] = "free" =>
           cid'[g] = NoId /\ got'[g] = << >> /\ queue'[g] = << >>
    BY <2>1, <2>4, <2>5 DEF Registry
  <2>8. \A g \in Handles \ {Root} : status'[g] # "free" => cid'[g] \in Ids
    BY <2>1, <2>4, <2>5 DEF Registry
  <2>9. \A g \in Handles : status[g] # "free" => status'[g] # "free"
    BY <2>1, <2>4
  <2>10. \A g \in Handles : pc'[g] = "lock" => status'[g] # "free"
    BY <2>1, <2>9 DEF Registry
  <2>11. \A g \in Handles : asking'[g] # NoHandle => status'[asking'[g]] # "free"
    BY <1>1, <2>5, <2>9 DEF Registry, TypeOK
  <2> QED BY <2>3, <2>6, <2>7, <2>8, <2>10, <2>11 DEF Registry
<1>2. ASSUME NEW h \in Handles, Release(h), status[h] # "free",
             \A p \in Handles : asking'[p] = asking[p] \/ asking'[p] = NoHandle
      PROVE Registry'
  <2>1. /\ status' = [status EXCEPT ![h] = "dropped"]
        /\ UNCHANGED <<cid, got, pc>> /\ queue' = [queue EXCEPT ![h] = << >>]
        /\ \A k \in Keys : entry'[k] = entry[k] \/ entry'[k] = NoHandle
    BY <1>2 DEF Release, TypeOK
  <2>2. \A g \in Handles : status'[g] = "free" <=> status[g] = "free"
    BY <1>2, <2>1 DEF TypeOK
  <2>3. \A g \in Handles : status[g] = "free" => got'[g] = got[g] /\ queue'[g] = << >>
    BY <2>1 DEF TypeOK, Registry
  <2>4. cid'[Root] = NoId /\ status'[Root] # "free"
    BY <2>1, <2>2, HandleAssumption DEF Registry
  <2>5. \A g \in Handles : status'[g] = "free" =>
           cid'[g] = NoId /\ got'[g] = << >> /\ queue'[g] = << >>
    BY <2>1, <2>2, <2>3 DEF Registry
  <2>6. \A g \in Handles \ {Root} : status'[g] # "free" => cid'[g] \in Ids
    BY <2>1, <2>2 DEF Registry
  <2>7. \A g \in Handles : pc'[g] = "lock" => status'[g] # "free"
    BY <2>1, <2>2 DEF Registry
  <2>8. ASSUME NEW k \in Keys, entry'[k] # NoHandle
        PROVE  cid'[entry'[k]] = k /\ status'[entry'[k]] # "free"
    <3>1. entry'[k] = entry[k] /\ entry[k] \in Handles
      BY <2>1, <2>8 DEF TypeOK
    <3> QED BY <2>1, <2>2, <2>8, <3>1 DEF Registry
  <2>9. ASSUME NEW g \in Handles, asking'[g] # NoHandle
        PROVE  status'[asking'[g]] # "free"
    <3>1. asking'[g] = asking[g] /\ asking[g] \in Handles
      BY <1>2, <2>9 DEF TypeOK
    <3> QED BY <2>2, <2>9, <3>1 DEF Registry
  <2> QED BY <2>4, <2>5, <2>6, <2>7, <2>8, <2>9 DEF Registry
<1>3. ASSUME \A h \in Handles : status'[h] = "free" <=> status[h] = "free",
             UNCHANGED cid,
             \A h \in Handles : status[h] = "free" => got'[h] = got[h] /\ queue'[h] = queue[h],
             \A h \in Handles : pc'[h] = "lock" => pc[h] = "lock" \/ status[h] # "free",
             \A k \in Keys : entry'[k] = entry[k] \/ entry'[k] = NoHandle,
             \A h \in Handles : asking'[h] = asking[h] \/ asking'[h] = NoHandle
      PROVE  Registry'
  <2>1. \A k \in Keys : entry'[k] # NoHandle =>
           cid'[entry'[k]] = k /\ status'[entry'[k]] # "free"
    BY <1>3 DEF Registry, TypeOK
  <2>2. \A h \in Handles : asking'[h] # NoHandle => status'[asking'[h]] # "free"
    BY <1>3 DEF Registry, TypeOK
  <2> QED BY <1>3, <2>1, <2>2, HandleAssumption DEF Registry
<1>4. ASSUME NEW h \in Handles, FinishRequest(h) PROVE Registry'
  <2>1. /\ asking[h] \in Handles /\ status[asking[h]] # "free"
        /\ status' = [status EXCEPT ![asking[h]] = "open"]
        /\ UNCHANGED <<cid, got, queue, pc, entry>>
        /\ asking' = [asking EXCEPT ![h] = NoHandle]
    BY <1>4 DEF FinishRequest, TypeOK, Registry
  <2>2. /\ \A g \in Handles : status'[g] = "free" <=> status[g] = "free"
        /\ \A g \in Handles : asking'[g] = asking[g] \/ asking'[g] = NoHandle
    BY <2>1 DEF TypeOK
  <2> QED BY <1>3, <2>1, <2>2
<1>5. CASE PeerSend \/ PeerLeave
  BY <1>3, <1>5 DEF PeerSend, PeerLeave, chans
<1>6. ASSUME NEW h \in Handles,
             \/ CloseMultiplex(h) \/ Expire(h) \/ DelayTimeout(h) \/ PollQueueEnd(h)
      PROVE  Registry'
  BY <1>3, <1>6 DEF CloseMultiplex, Expire, DelayTimeout, PollQueueEnd, chans
<1>7. ASSUME NEW h \in Handles, PollQueueItem(h) PROVE Registry'
  <2>1. status[h] # "free"
    BY <1>7 DEF PollQueueItem, Callable
  <2> QED BY <1>3, <1>7, <2>1 DEF PollQueueItem, chans, TypeOK
<1>8. ASSUME NEW h \in Handles, PollQueuePending(h) PROVE Registry'
  <2>1. status[h] # "free"
    BY <1>8 DEF PollQueuePending, Callable
  <2> QED BY <1>3, <1>8, <2>1 DEF PollQueuePending, chans, TypeOK
<1>9. ASSUME NEW h \in Handles, Locked(h),
             \A k \in Keys : entry'[k] = Retained[k] \/ entry'[k] = NoHandle,
             \A g \in Handles : status[g] = "free" => got'[g] = got[g] /\ queue'[g] = queue[g]
      PROVE  Registry'
  <2>1. /\ UNCHANGED <<status, cid, asking>>
        /\ \A g \in Handles : pc'[g] = "lock" => pc[g] = "lock"
    BY <1>9 DEF Locked, chans, TypeOK
  <2>2. \A k \in Keys : entry'[k] = entry[k] \/ entry'[k] = NoHandle
    BY <1>9, RetainedEntries
  <2> QED BY <1>3, <1>9, <2>1, <2>2
<1>10. ASSUME NEW h \in Handles,
              PollSaturated(h) \/ PollEmpty(h) \/ PollTransportEnd(h)
       PROVE  Registry'
  BY <1>9, <1>10 DEF PollSaturated, PollEmpty, PollTransportEnd, NotReady
<1>11. ASSUME NEW h \in Handles, HandleClose(h) PROVE Registry'
  <2>1. \A k \in Keys : entry'[k] = Retained[k] \/ entry'[k] = NoHandle
    BY <1>11, RetainedEntries DEF HandleClose
  <2> QED BY <1>9, <1>11, <2>1 DEF HandleClose, Take, NotReady
<1>12. ASSUME NEW h \in Handles, HandleOwn(h) \/ HandleUnclaimed(h) PROVE Registry'
  <2>1. /\ Locked(h) /\ entry' = Retained /\ queue' = queue
        /\ got' = [got EXCEPT ![h] = Append(@, read + 1)]
    BY <1>12 DEF HandleOwn, HandleUnclaimed, Take, Return
  <2>2. status[h] # "free"
    BY <2>1 DEF Locked, Registry
  <2> QED BY <1>9, <2>1, <2>2 DEF TypeOK
<1>13. ASSUME NEW h \in Handles, HandleOther(h) PROVE Registry'
  <2>1. /\ Locked(h) /\ ~Empty /\ got' = got /\ Owner # NoHandle /\ IsData(read + 1)
    BY <1>13 DEF HandleOther, Take, NotReady, IsData
  <2>2. Rid \in Keys /\ Owner \in Handles /\ status[Owner] # "free"
    BY <2>1, FrameRead, OwnerFits DEF Registry
  <2>3. \A k \in Keys : entry'[k] = Retained[k] \/ entry'[k] = NoHandle
    BY <1>13, RetainedEntries DEF HandleOther
  <2>4. \A g \in Handles : status[g] = "free" => queue'[g] = queue[g]
    BY <1>13, <2>2 DEF HandleOther, TypeOK
  <2> QED BY <1>9, <2>1, <2>3, <2>4
<1>14. ASSUME NEW h \in Handles, HandleDefault(h) PROVE Registry'
  <2>1. /\ Locked(h) /\ got' = got /\ entry' = Retained
        /\ queue' = queue \/ queue' = [queue EXCEPT ![Root] = Append(@, read + 1)]
    BY <1>14 DEF HandleDefault, Take, NotReady
  <2>2. \A g \in Handles : status[g] = "free" => queue'[g] = queue[g]
    BY <2>1, HandleAssumption DEF Registry, TypeOK
  <2> QED BY <1>9, <2>1, <2>2
<1>15. CASE UNCHANGED vars
  BY <1>3, <1>15 DEF vars
<1>16. ASSUME NEW p \in Handles, NEW h \in Handles,
              AddChannel(p, h) \/ BeginRequest(p, h)
       PROVE  Registry'
  <2>1. \A g \in Handles : asking'[g] = asking[g] \/ asking'[g] = h
    BY <1>16 DEF AddChannel, BeginRequest, TypeOK
  <2> QED BY <1>1, <1>16, <2>1 DEF AddChannel, BeginRequest
<1>17. ASSUME NEW h \in Handles, AbortRequest(h) PROVE Registry'
  <2>1. /\ asking[h] \in Handles /\ status[asking[h]] # "free"
        /\ \A p \in Handles : asking'[p] = asking[p] \/ asking'[p] = NoHandle
    BY <1>17 DEF AbortRequest, TypeOK, Registry
  <2> QED BY <1>2, <1>17, <2>1 DEF AbortRequest
<1>18. ASSUME NEW h \in Handles, DropChannel(h) PROVE Registry'
  BY <1>2, <1>18 DEF DropChannel, Callable
<1> QED BY <1>4, <1>5, <1>6, <1>7, <1>8, <1>10, <1>11, <1>12, <1>13, <1>14,
           <1>15, <1>16, <1>17, <1>18 DEF Next, Poll

-----------------------------------------------------------------------------
(***************************************************************************)
(* Polls that do not overlap                                               *)
(***************************************************************************)
\* At most one Channel is between the two halves of a poll, and what it saw
\* in the first half is still true.
OneLock ==
    /\ \A g, h \in Handles : pc[g] = "lock" /\ pc[h] = "lock" => g = h
    /\ \A h \in Handles : pc[h] = "lock" => queue[h] = << >> /\ SenderAlive(h)

LEMMA LockInit == Init => OneLock
BY DEF Init, OneLock

LEMMA LockNext == ~Parallel /\ TypeOK /\ OneLock /\ [Next]_vars => OneLock'
<1> SUFFICES ASSUME ~Parallel, TypeOK, OneLock, [Next]_vars PROVE OneLock'
  OBVIOUS
<1>1. ASSUME Turn, UNCHANGED pc PROVE OneLock'
  BY <1>1 DEF Turn, OneLock
<1>2. ASSUME NEW h \in Handles, PollQueuePending(h) PROVE OneLock'
  <2>1. /\ Turn /\ queue[h] = << >> /\ SenderAlive(h)
        /\ pc' = [pc EXCEPT ![h] = "lock"]
        /\ UNCHANGED <<entry, used, queue, cid>>
    BY <1>2 DEF PollQueuePending, Callable, chans
  <2>2. \A g \in Handles : pc'[g] = "lock" => g = h
    BY <2>1 DEF Turn, TypeOK
  <2> QED BY <2>1, <2>2 DEF OneLock, SenderAlive, Subscribed, IsClosed
<1>3. ASSUME NEW h \in Handles, Locked(h) PROVE OneLock'
  <2>1. \A g \in Handles : pc'[g] # "lock"
    BY <1>3 DEF Locked, OneLock, TypeOK
  <2> QED BY <2>1 DEF OneLock
<1>4. ASSUME UNCHANGED <<pc, queue, entry, used, cid>> PROVE OneLock'
  BY <1>4 DEF OneLock, SenderAlive, Subscribed, IsClosed
<1>5. CASE PeerSend \/ PeerLeave
  BY <1>4, <1>5 DEF PeerSend, PeerLeave, chans
<1>6. ASSUME NEW h \in Handles, Expire(h) PROVE OneLock'
  BY <1>4, <1>6 DEF Expire, chans
<1>7. ASSUME NEW h \in Handles,
             \/ FinishRequest(h) \/ AbortRequest(h) \/ DropChannel(h)
             \/ CloseMultiplex(h) \/ DelayTimeout(h)
             \/ PollQueueItem(h) \/ PollQueueEnd(h)
      PROVE  OneLock'
  BY <1>1, <1>7 DEF FinishRequest, AbortRequest, DropChannel, CloseMultiplex,
     DelayTimeout, PollQueueItem, PollQueueEnd, Callable, Release
<1>8. ASSUME NEW p \in Handles, NEW h \in Handles,
             AddChannel(p, h) \/ BeginRequest(p, h)
      PROVE  OneLock'
  BY <1>1, <1>8 DEF AddChannel, BeginRequest, Subscribe, Callable
<1>9. ASSUME NEW h \in Handles,
             \/ PollSaturated(h) \/ PollEmpty(h) \/ PollTransportEnd(h)
             \/ HandleClose(h) \/ HandleOwn(h) \/ HandleOther(h)
             \/ HandleUnclaimed(h) \/ HandleDefault(h)
      PROVE  OneLock'
  BY <1>3, <1>9 DEF PollSaturated, PollEmpty, PollTransportEnd, HandleClose,
     HandleOwn, HandleOther, HandleUnclaimed, HandleDefault, Take
<1>10. CASE UNCHANGED vars
  BY <1>4, <1>10 DEF vars
<1> QED BY <1>2, <1>5, <1>6, <1>7, <1>8, <1>9, <1>10 DEF Next, Poll

-----------------------------------------------------------------------------
(***************************************************************************)
(* Delivery                                                                *)
(***************************************************************************)
LEMMA TrailTypes ==
    ASSUME TypeOK, NEW h \in Handles
    PROVE  /\ got[h] \in Seq(Nat) /\ queue[h] \in Seq(Nat) /\ Trail(h) \in Seq(Nat)
           /\ Held(h) = Positions(got[h]) \cup Positions(queue[h])
BY ConcatPositions DEF TypeOK, Trail, Held

\* How the trail of every Channel moves in a step.
LEMMA TrailMoves ==
    ASSUME TypeOK, Registry, StepKind, NEW h \in Handles
    PROVE  \/ Trail(h)' = Trail(h)
           \/ Trail(h)' = got[h] /\ UNCHANGED <<read, sent, cid>>
           \/ Trail(h)' = Append(got[h], read + 1) \o queue[h] /\ DirectTo(h)
           \/ Trail(h)' = Append(Trail(h), read + 1) /\ QueuedTo(h)
<1>1. got[h] \in Seq(Nat) /\ queue[h] \in Seq(Nat) /\ read + 1 \in Nat
  BY DEF TypeOK
<1>2. CASE UNCHANGED <<got, queue>>
  BY <1>2 DEF Trail
<1>3. ASSUME NEW g \in Handles, Cuts(g)
      PROVE  Trail(h)' = Trail(h) \/ (Trail(h)' = got[h] /\ UNCHANGED <<read, sent, cid>>)
  <2>1. CASE g = h
    BY <1>1, <1>3, <2>1, PrefixKeeps DEF Cuts, Trail, TypeOK
  <2>2. CASE g # h
    BY <1>3, <2>2 DEF Cuts, Trail, TypeOK
  <2> QED BY <2>1, <2>2
<1>4. ASSUME NEW g \in Handles, Receives(g) PROVE Trail(h)' = Trail(h)
  <2>1. CASE g = h
    <3>1. /\ got'[h] = Append(got[h], Head(queue[h])) /\ queue'[h] = Tail(queue[h])
          /\ queue[h] # << >>
      BY <1>4, <2>1 DEF Receives, TypeOK
    <3> QED BY <1>1, <3>1, MoveHead DEF Trail
  <2>2. CASE g # h
    BY <1>4, <2>2 DEF Receives, Trail, TypeOK
  <2> QED BY <2>1, <2>2
<1>5. ASSUME NEW g \in Handles, DirectTo(g)
      PROVE  \/ Trail(h)' = Trail(h)
             \/ Trail(h)' = Append(got[h], read + 1) \o queue[h] /\ DirectTo(h)
  <2>1. CASE g = h
    BY <1>5, <2>1 DEF DirectTo, Trail, TypeOK
  <2>2. CASE g # h
    BY <1>5, <2>2 DEF DirectTo, Trail, TypeOK
  <2> QED BY <2>1, <2>2
<1>6. ASSUME NEW g \in Handles, QueuedTo(g)
      PROVE  \/ Trail(h)' = Trail(h)
             \/ Trail(h)' = Append(Trail(h), read + 1) /\ QueuedTo(h)
  <2>1. CASE g = h
    <3>1. got'[h] = got[h] /\ queue'[h] = Append(queue[h], read + 1)
      BY <1>6, <2>1 DEF QueuedTo, TypeOK
    <3>2. got[h] \o Append(queue[h], read + 1) = Append(got[h] \o queue[h], read + 1)
      BY <1>1, QueueAppend
    <3>3. Trail(h)' = Append(Trail(h), read + 1)
      BY <3>1, <3>2 DEF Trail
    <3> QED BY <1>6, <2>1, <3>3
  <2>2. CASE g # h
    BY <1>6, <2>2 DEF QueuedTo, Trail, TypeOK
  <2> QED BY <2>1, <2>2
<1> QED BY <1>2, <1>3, <1>4, <1>5, <1>6
        DEF StepKind, Stays, Sends, Skips, Opens

LEMMA NextTrail ==
    ASSUME NEW h \in Handles, NEW s, Trail(h)' = s
    PROVE  /\ Distinct(Trail(h))' <=> Distinct(s)
           /\ Increasing(Trail(h))' <=> Increasing(s)
           /\ Held(h)' = Positions(s)
<1>1. Distinct(Trail(h))' <=> Distinct(s)
  BY DEF Distinct
<1>2. Increasing(Trail(h))' <=> Increasing(s)
  BY DEF Increasing
<1>3. Held(h)' = Positions(s)
  BY DEF Held, Positions
<1> QED BY <1>1, <1>2, <1>3

LEMMA OneRecipient ==
    ASSUME TypeOK, NEW h \in Handles, DirectTo(h) \/ QueuedTo(h),
           NEW g \in Handles \ {h}
    PROVE  Trail(g)' = Trail(g)
BY DEF DirectTo, QueuedTo, Trail, TypeOK

LEMMA HeldMoves ==
    ASSUME TypeOK, Registry, StepKind, DeliveredOnce, NEW h \in Handles
    PROVE  /\ Distinct(Trail(h))'
           /\ \A n \in Held(h)' :
                 n \in Held(h) \/ (n = read + 1 /\ (DirectTo(h) \/ QueuedTo(h)))
<1>1. /\ got[h] \in Seq(Nat) /\ queue[h] \in Seq(Nat) /\ Trail(h) \in Seq(Nat)
      /\ Held(h) = Positions(got[h]) \cup Positions(queue[h])
      /\ read \in Nat /\ read + 1 \in Nat
  BY TrailTypes DEF TypeOK
<1>2. Distinct(Trail(h)) /\ read + 1 \notin Held(h)
  BY <1>1 DEF DeliveredOnce
<1>3. CASE Trail(h)' = Trail(h)
  <2>1. Held(h) = Positions(Trail(h))
    BY DEF Held
  <2>2. Distinct(Trail(h))' /\ Held(h)' = Held(h)
    BY <1>2, <1>3, <2>1, NextTrail
  <2> QED BY <2>2
<1>4. CASE Trail(h)' = got[h]
  <2>1. Distinct(got[h]) /\ Positions(got[h]) \subseteq Held(h)
    BY <1>1, <1>2, PrefixKeeps DEF Trail
  <2>2. Distinct(Trail(h))' /\ Held(h)' = Positions(got[h])
    BY <1>4, <2>1, NextTrail
  <2>3. \A n \in Held(h)' : n \in Held(h)
    BY <2>1, <2>2
  <2> QED BY <2>2, <2>3
<1>5. CASE Trail(h)' = Append(got[h], read + 1) \o queue[h] /\ DirectTo(h)
  <2>1. Distinct(Append(got[h], read + 1) \o queue[h])
    BY <1>1, <1>2, InsertDistinct DEF Trail, Held
  <2>2. Positions(Append(got[h], read + 1) \o queue[h])
          = Positions(got[h]) \cup {read + 1} \cup Positions(queue[h])
    <3>1. /\ Append(got[h], read + 1) \in Seq(Nat)
          /\ Positions(Append(got[h], read + 1)) = Positions(got[h]) \cup {read + 1}
      BY <1>1, AppendPosition
    <3> QED BY <1>1, <3>1, ConcatPositions
  <2>3. Distinct(Trail(h))' /\ Held(h)' = Positions(Append(got[h], read + 1) \o queue[h])
    BY <1>5, <2>1, NextTrail
  <2> QED BY <1>1, <1>5, <2>2, <2>3
<1>6. CASE Trail(h)' = Append(Trail(h), read + 1) /\ QueuedTo(h)
  <2>1. Distinct(Append(Trail(h), read + 1))
    BY <1>1, <1>2, AppendDistinct DEF Held
  <2>2. Positions(Append(Trail(h), read + 1)) = Held(h) \cup {read + 1}
    BY <1>1, AppendPosition DEF Held
  <2>3. Distinct(Trail(h))' /\ Held(h)' = Positions(Append(Trail(h), read + 1))
    BY <1>6, <2>1, NextTrail
  <2> QED BY <1>6, <2>2, <2>3
<1> QED BY <1>3, <1>4, <1>5, <1>6, TrailMoves

\* The frames taken from the transport stay what they are.
LEMMA LogGrows ==
    ASSUME TypeOK, StepKind
    PROVE  /\ read \in Nat /\ read' \in {read, read + 1}
           /\ \A n \in 1 .. read : sent'[n] = sent[n]
           /\ Reads => read' = read + 1 /\ sent' = sent
<1>1. read \in Nat /\ Len(sent) \in Nat /\ read <= Len(sent) /\ sent \in Seq(Frame)
  BY DEF TypeOK
<1>2. CASE Sends
  <2>1. PICK f \in Frame : sent' = Append(sent, f)
    BY <1>2 DEF Sends
  <2>2. \A n \in 1 .. read : n \in 1 .. Len(sent)
    BY <1>1
  <2> QED BY <1>1, <1>2, <2>1, <2>2 DEF Sends, Reads
<1> QED BY <1>1, <1>2
        DEF StepKind, Stays, Skips, Opens, Cuts, Receives, DirectTo, QueuedTo, Reads

LEMMA IdKept ==
    ASSUME TypeOK, Registry, StepKind, NEW h \in Handles, Held(h) # {}
    PROVE  cid'[h] = cid[h]
<1>1. ASSUME status[h] = "free" PROVE FALSE
  <2>1. Trail(h) = << >> \o << >>
    BY <1>1 DEF Registry, Trail
  <2>2. DOMAIN Trail(h) = {}
    BY <2>1
  <2> QED BY <2>2 DEF Held, Positions
<1> QED BY <1>1 DEF StepKind, Stays, Sends, Skips, Opens, Cuts, Receives, DirectTo,
           QueuedTo, Reads, TypeOK

LEMMA OnceInit == Init => DeliveredOnce
<1> SUFFICES ASSUME Init PROVE DeliveredOnce
  OBVIOUS
<1>1. \A h \in Handles : Trail(h) = << >> /\ Held(h) = {}
  BY DEF Init, Trail, Held, Positions
<1> QED BY <1>1 DEF DeliveredOnce, Distinct

LEMMA OnceNext == TypeOK /\ Registry /\ StepKind /\ DeliveredOnce => DeliveredOnce'
<1> SUFFICES ASSUME TypeOK, Registry, StepKind, DeliveredOnce PROVE DeliveredOnce'
  OBVIOUS
<1>1. ASSUME NEW h \in Handles, NEW n \in Held(h)'
      PROVE  /\ n \in 1 .. read' /\ IsData(n)'
             /\ h = Root \/ sent'[n].id = cid'[h]
  <2>1. CASE n \in Held(h)
    <3>1. n \in 1 .. read /\ IsData(n) /\ (h = Root \/ sent[n].id = cid[h])
      BY <2>1 DEF DeliveredOnce
    <3>2. sent'[n] = sent[n] /\ n \in 1 .. read' /\ cid'[h] = cid[h]
      BY <2>1, <3>1, LogGrows, IdKept
    <3> QED BY <3>1, <3>2 DEF IsData
  <2>2. CASE n = read + 1 /\ (DirectTo(h) \/ QueuedTo(h))
    <3>1. Reads /\ Fits(h) /\ read' = read + 1 /\ UNCHANGED <<sent, cid>> /\ read \in Nat
      BY <2>2, LogGrows DEF DirectTo, QueuedTo, Reads
    <3> QED BY <2>2, <3>1 DEF Fits, IsData
  <2> QED BY <2>1, <2>2, HeldMoves
<1>2. ASSUME NEW h \in Handles, NEW g \in Handles \ {h}
      PROVE  Held(g)' \cap Held(h)' = {}
  <2>1. Held(g) \cap Held(h) = {} /\ read + 1 \notin Held(g) /\ read + 1 \notin Held(h)
    BY LogGrows DEF DeliveredOnce
  <2>2. CASE DirectTo(h) \/ QueuedTo(h)
    <3>1. Held(g)' = Held(g)
      BY <2>2, OneRecipient DEF Held
    <3> QED BY <2>1, <3>1, HeldMoves
  <2>3. CASE DirectTo(g) \/ QueuedTo(g)
    <3>1. Held(h)' = Held(h)
      BY <2>3, OneRecipient DEF Held
    <3> QED BY <2>1, <3>1, HeldMoves
  <2> QED BY <2>1, <2>2, <2>3, HeldMoves
<1> QED BY <1>1, <1>2, HeldMoves DEF DeliveredOnce

LEMMA OrderInit == Init => Ordered
BY DEF Init, Ordered, Increasing, Trail

LEMMA OrderNext ==
    ~Parallel /\ TypeOK /\ Registry /\ StepKind /\ OneLock /\ DeliveredOnce /\ Ordered
        => Ordered'
<1> SUFFICES ASSUME TypeOK, Registry, StepKind, OneLock, DeliveredOnce, Ordered,
                    NEW h \in Handles
             PROVE  Increasing(Trail(h))'
  BY DEF Ordered
<1>1. /\ got[h] \in Seq(Nat) /\ queue[h] \in Seq(Nat) /\ Trail(h) \in Seq(Nat)
      /\ Increasing(Trail(h)) /\ read + 1 \in Nat
  BY TrailTypes DEF Ordered, TypeOK
<1>2. CASE Trail(h)' = Trail(h)
  BY <1>1, <1>2, NextTrail
<1>3. CASE Trail(h)' = got[h]
  BY <1>1, <1>3, PrefixKeeps, NextTrail DEF Trail
<1>4. \A m \in Positions(Trail(h)) : m < read + 1
  BY DEF DeliveredOnce, Held, TypeOK
<1>5. Increasing(Append(Trail(h), read + 1))
  BY <1>1, <1>4, AppendIncreasing
<1>6. CASE Trail(h)' = Append(Trail(h), read + 1)
  BY <1>5, <1>6, NextTrail
<1>7. CASE Trail(h)' = Append(got[h], read + 1) \o queue[h] /\ DirectTo(h)
  <2>1. queue[h] = << >>
    BY <1>7 DEF DirectTo, OneLock
  <2>2. Trail(h)' = Append(Trail(h), read + 1)
    BY <1>1, <1>7, <2>1, PrefixKeeps, AppendPosition DEF Trail
  <2> QED BY <1>6, <2>2
<1> QED BY <1>2, <1>3, <1>6, <1>7, TrailMoves

-----------------------------------------------------------------------------
(***************************************************************************)
(* A registered Channel misses nothing                                     *)
(***************************************************************************)
UniqueIds ==
    \A g, h \in Handles : cid[g] = cid[h] /\ cid[g] # NoId => g = h

LEMMA UniqueInit == Init => UniqueIds
BY DEF Init, UniqueIds

LEMMA UniqueNext ==
    FreshIds /\ TypeOK /\ UniqueIds /\ [Next]_vars => UniqueIds'
<1> SUFFICES ASSUME FreshIds, TypeOK, UniqueIds, [Next]_vars PROVE UniqueIds'
  OBVIOUS
<1>1. ASSUME UNCHANGED cid PROVE UniqueIds'
  BY <1>1 DEF UniqueIds
<1>2. ASSUME NEW p \in Handles, NEW h \in Handles,
             AddChannel(p, h) \/ BeginRequest(p, h)
      PROVE  UniqueIds'
  <2>1. PICK i \in Ids : /\ cid' = [cid EXCEPT ![h] = i]
                         /\ \A g \in Handles : cid[g] # i
    BY <1>2 DEF AddChannel, BeginRequest, Subscribe
  <2> QED BY <2>1 DEF UniqueIds, TypeOK
<1> QED BY <1>1, <1>2 DEF Next, Poll, PeerSend, PeerLeave, FinishRequest,
     AbortRequest, DropChannel, Release, CloseMultiplex, Expire, DelayTimeout,
     PollQueueItem, PollQueueEnd, PollQueuePending, PollSaturated, PollEmpty,
     PollTransportEnd, HandleClose, HandleOwn, HandleOther, HandleUnclaimed,
     HandleDefault, Take, Locked, chans, vars

Expected(h) == {n \in since[h] + 1 .. read : sent[n].id = cid[h] /\ IsData(n)}

LEMMA HeldGrows ==
    ASSUME TypeOK, Registry, NEW h \in Handles, DirectTo(h) \/ QueuedTo(h)
    PROVE  Held(h)' = Held(h) \cup {read + 1}
<1>1. /\ got[h] \in Seq(Nat) /\ queue[h] \in Seq(Nat) /\ Trail(h) \in Seq(Nat)
      /\ Held(h) = Positions(got[h]) \cup Positions(queue[h])
      /\ read + 1 \in Nat
  BY TrailTypes DEF TypeOK
<1>2. CASE DirectTo(h)
  <2>1. Trail(h)' = Append(got[h], read + 1) \o queue[h]
    BY <1>2 DEF DirectTo, Trail, TypeOK
  <2>2. /\ Append(got[h], read + 1) \in Seq(Nat)
        /\ Positions(Append(got[h], read + 1)) = Positions(got[h]) \cup {read + 1}
    BY <1>1, AppendPosition
  <2>3. Positions(Append(got[h], read + 1) \o queue[h])
          = Positions(Append(got[h], read + 1)) \cup Positions(queue[h])
    BY <1>1, <2>2, ConcatPositions
  <2>4. Held(h)' = Positions(Append(got[h], read + 1) \o queue[h])
    BY <2>1, NextTrail
  <2> QED BY <1>1, <2>2, <2>3, <2>4
<1>3. CASE QueuedTo(h)
  <2>1. Trail(h)' = got[h] \o Append(queue[h], read + 1)
    BY <1>3 DEF QueuedTo, Trail, TypeOK
  <2>2. /\ Append(queue[h], read + 1) \in Seq(Nat)
        /\ Positions(Append(queue[h], read + 1)) = Positions(queue[h]) \cup {read + 1}
    BY <1>1, AppendPosition
  <2>3. Positions(got[h] \o Append(queue[h], read + 1))
          = Positions(got[h]) \cup Positions(Append(queue[h], read + 1))
    BY <1>1, <2>2, ConcatPositions
  <2>4. Held(h)' = Positions(got[h] \o Append(queue[h], read + 1))
    BY <2>1, NextTrail
  <2> QED BY <1>1, <2>2, <2>3, <2>4
<1> QED BY <1>2, <1>3

\* Nothing is read and the Channel is left alone.
LEMMA GapKept ==
    ASSUME TypeOK, StepKind, NEW h \in Handles, Held(h) = Expected(h),
           read' = read, cid'[h] = cid[h], since'[h] = since[h],
           Trail(h)' = Trail(h)
    PROVE  Held(h)' = Expected(h)'
<1>1. Held(h)' = Held(h)
  BY NextTrail DEF Held
<1>2. since[h] \in Nat /\ \A n \in since[h] + 1 .. read : sent'[n] = sent[n]
  <2>1. since[h] \in Nat /\ read \in Nat
    BY DEF TypeOK
  <2> QED BY <2>1, LogGrows
<1> QED BY <1>1, <1>2 DEF Expected, IsData

\* A frame is read: it reaches the Channel exactly if it is a data frame of its id.
LEMMA GapRead ==
    ASSUME TypeOK, Reads, NEW h \in Handles, Held(h) = Expected(h),
           since[h] <= read, cid'[h] = cid[h], since'[h] = since[h],
           IF IsData(read + 1) /\ Rid = cid[h]
           THEN Held(h)' = Held(h) \cup {read + 1}
           ELSE Held(h)' = Held(h)
    PROVE  Held(h)' = Expected(h)'
<1>1. since[h] \in Nat /\ read \in Nat /\ read' = read + 1 /\ sent' = sent
  BY DEF TypeOK, Reads
<1>2. since[h] + 1 .. read' = (since[h] + 1 .. read) \cup {read + 1}
  BY <1>1
<1>3. Expected(h)' = {n \in (since[h] + 1 .. read) \cup {read + 1} :
                         sent[n].id = cid[h] /\ IsData(n)}
  BY <1>1, <1>2 DEF Expected, IsData
<1> QED BY <1>3 DEF Expected, Rid

Started == \A h \in Handles : since[h] <= read

LEMMA StartedInit == Init => Started
BY DEF Init, Started

LEMMA StartedNext == TypeOK /\ StepKind /\ Started /\ [Next]_vars => Started'
<1> SUFFICES ASSUME TypeOK, StepKind, Started, [Next]_vars PROVE Started'
  OBVIOUS
<1>1. read \in Nat /\ read' \in Nat /\ read <= read' /\ since \in [Handles -> Nat]
  BY LogGrows DEF TypeOK
<1>2. ASSUME UNCHANGED since PROVE Started'
  BY <1>1, <1>2 DEF Started
<1>3. ASSUME NEW p \in Handles, NEW h \in Handles,
             AddChannel(p, h) \/ BeginRequest(p, h)
      PROVE  Started'
  <2>1. since' = [since EXCEPT ![h] = read] /\ read' = read
    BY <1>3, BoundAssumption DEF AddChannel, BeginRequest, Subscribe, Room, wire
  <2> QED BY <1>1, <2>1 DEF Started
<1> QED BY <1>2, <1>3 DEF Next, Poll, PeerSend, PeerLeave, FinishRequest,
     AbortRequest, DropChannel, Release, CloseMultiplex, Expire, DelayTimeout,
     PollQueueItem, PollQueueEnd, PollQueuePending, PollSaturated, PollEmpty,
     PollTransportEnd, HandleClose, HandleOwn, HandleOther, HandleUnclaimed,
     HandleDefault, Take, Locked, chans, vars

LEMMA GapInit == Init => NoGap
BY HandleAssumption DEF Init, NoGap, Subscribed, Keys

\* The Channel registered for the id a poller takes for its own is the poller.
LEMMA OwnIsMine ==
    ASSUME TypeOK, Registry, ~Parallel => OneLock, FreshIds => UniqueIds,
           ~Parallel \/ FreshIds, NEW h \in Handles, HandleOwn(h)
    PROVE  Owner = h
<1>1. /\ pc[h] = "lock" /\ ~Empty /\ Owner # NoHandle /\ Rid = cid[h]
      /\ IsData(read + 1)
  BY DEF HandleOwn, Take, Locked, IsData
<1>2. entry[Rid] = Owner /\ cid[Owner] = Rid /\ Owner \in Handles /\ Rid # NoId
  BY <1>1, OwnerFits, FrameRead, IdAssumption
<1>3. CASE ~Parallel
  BY <1>1, <1>2, <1>3 DEF OneLock, SenderAlive, Subscribed
<1>4. CASE FreshIds
  BY <1>1, <1>2, <1>4 DEF UniqueIds
<1> QED BY <1>3, <1>4

LEMMA GapNext ==
    ASSUME TypeOK, Registry, StepKind, Started, ~Parallel => OneLock,
           FreshIds => UniqueIds, ~Parallel \/ FreshIds, NoGap, [Next]_vars
    PROVE  NoGap'
<1> SUFFICES ASSUME NEW x \in Handles \ {Root}, Subscribed(x)'
             PROVE  Held(x)' = Expected(x)'
  BY DEF NoGap, Expected
<1>1. Subscribed(x) => Held(x) = Expected(x)
  BY DEF NoGap, Expected
<1>2. cid[x] \in Keys /\ since[x] <= read
  BY DEF TypeOK, Started
<1>3. ASSUME UNCHANGED <<read, entry, got, queue, cid, since>>
      PROVE  Held(x)' = Expected(x)'
  <2>1. Subscribed(x) /\ Trail(x)' = Trail(x)
    BY <1>3 DEF Subscribed, Trail
  <2> QED BY <1>1, <1>3, <2>1, GapKept
<1>4. CASE PeerSend \/ PeerLeave
  BY <1>3, <1>4 DEF PeerSend, PeerLeave, chans
<1>5. ASSUME NEW h \in Handles,
             \/ FinishRequest(h) \/ Expire(h) \/ DelayTimeout(h)
             \/ PollQueueEnd(h) \/ PollQueuePending(h)
      PROVE  Held(x)' = Expected(x)'
  BY <1>3, <1>5 DEF FinishRequest, Expire, DelayTimeout, PollQueueEnd,
     PollQueuePending, wire, chans
<1>6. ASSUME NEW h \in Handles, CloseMultiplex(h) PROVE FALSE
  <2>1. entry'[cid'[x]] = NoHandle
    BY <1>2, <1>6 DEF CloseMultiplex, chans
  <2> QED BY <2>1, HandleAssumption DEF Subscribed
<1>7. ASSUME NEW p \in Handles, NEW h \in Handles, NEW i \in Ids, NEW single, NEW n,
             NEW state, Subscribe(h, i, single, n, state)
      PROVE  Held(x)' = Expected(x)'
  <2>1. /\ status[h] = "free" /\ i \in Keys
        /\ entry' = [entry EXCEPT ![i] = h] /\ cid' = [cid EXCEPT ![h] = i]
        /\ since' = [since EXCEPT ![h] = read] /\ UNCHANGED <<read, got, queue>>
    BY <1>7 DEF Subscribe, wire, Keys
  <2>2. Trail(x)' = Trail(x)
    BY <2>1 DEF Trail
  <2>3. CASE x = h
    <3>1. got[x] = << >> /\ queue[x] = << >> /\ since'[x] = read /\ read' = read
      BY <2>1, <2>3 DEF Registry, TypeOK
    <3>2. DOMAIN (<< >> \o << >>) = {} /\ Trail(x)' = << >> \o << >>
      BY <2>2, <3>1 DEF Trail
    <3>3. Held(x)' = {}
      BY <3>2, NextTrail DEF Positions
    <3>4. since'[x] + 1 .. read' = {}
      BY <3>1 DEF TypeOK
    <3> QED BY <3>3, <3>4, Zenon DEF Expected
  <2>4. CASE x # h
    <3>1. cid'[x] = cid[x] /\ since'[x] = since[x] /\ Subscribed(x)
      BY <1>2, <2>1, <2>4 DEF Subscribed, TypeOK
    <3> QED BY <1>1, <2>1, <2>2, <3>1, GapKept
  <2> QED BY <2>3, <2>4
<1>8. ASSUME NEW p \in Handles, NEW h \in Handles,
             AddChannel(p, h) \/ BeginRequest(p, h)
      PROVE  Held(x)' = Expected(x)'
  BY <1>7, <1>8 DEF AddChannel, BeginRequest
<1>9. ASSUME NEW h \in Handles, Release(h) PROVE Held(x)' = Expected(x)'
  <2>1. /\ entry' = [entry EXCEPT ![cid[h]] = NoHandle]
        /\ queue' = [queue EXCEPT ![h] = << >>]
        /\ UNCHANGED <<read, cid, since, got>>
    BY <1>9 DEF Release, wire
  <2>2. x # h /\ Subscribed(x)
    BY <1>2, <2>1, HandleAssumption DEF Subscribed, TypeOK
  <2>3. Trail(x)' = Trail(x)
    BY <2>1, <2>2 DEF Trail, TypeOK
  <2> QED BY <1>1, <2>1, <2>2, <2>3, GapKept
<1>10. ASSUME NEW h \in Handles, AbortRequest(h) \/ DropChannel(h)
       PROVE  Held(x)' = Expected(x)'
  <2>1. AbortRequest(h) => asking[h] \in Handles
    BY DEF AbortRequest, TypeOK
  <2> QED BY <1>9, <1>10, <2>1 DEF AbortRequest, DropChannel
<1>11. ASSUME NEW h \in Handles, PollQueueItem(h) PROVE Held(x)' = Expected(x)'
  <2>1. UNCHANGED <<read, entry, cid, since>> /\ Subscribed(x)
    BY <1>11 DEF PollQueueItem, wire, chans, Subscribed
  <2>2. Trail(x)' = Trail(x)
    <3>1. CASE x = h
      <4>1. /\ got'[h] = Append(got[h], Head(queue[h])) /\ queue'[h] = Tail(queue[h])
            /\ queue[h] # << >> /\ got[h] \in Seq(Nat) /\ queue[h] \in Seq(Nat)
        BY <1>11 DEF PollQueueItem, TypeOK
      <4>2. got'[h] \o queue'[h] = got[h] \o queue[h]
        BY <4>1, MoveHead
      <4> QED BY <3>1, <4>2 DEF Trail
    <3>2. CASE x # h
      BY <1>11, <3>2 DEF PollQueueItem, Trail, TypeOK
    <3> QED BY <3>1, <3>2
  <2> QED BY <1>1, <2>1, <2>2, GapKept
<1>12. ASSUME \A k \in Keys : entry'[k] = Retained[k] \/ entry'[k] = NoHandle,
              UNCHANGED cid
       PROVE  Subscribed(x) /\ Retained[cid[x]] = x /\ entry'[cid[x]] = x
  BY <1>2, <1>12, RetainedEntries, HandleAssumption DEF Subscribed
<1>13. ASSUME NEW h \in Handles,
              PollSaturated(h) \/ PollEmpty(h) \/ PollTransportEnd(h)
       PROVE  Held(x)' = Expected(x)'
  <2>1. /\ entry' = Retained /\ UNCHANGED <<read, got, queue, cid, since>>
    BY <1>13 DEF PollSaturated, PollEmpty, PollTransportEnd, NotReady, Locked, chans
  <2>2. Trail(x)' = Trail(x)
    BY <2>1 DEF Trail
  <2> QED BY <1>1, <1>12, <2>1, <2>2, GapKept
<1>14. ASSUME NEW h \in Handles, NEW payload, Take(h, payload)
       PROVE  /\ Reads /\ UNCHANGED <<cid, since>> /\ ~Empty
              /\ IsData(read + 1) <=> payload = "Data"
  BY <1>14 DEF Take, Locked, chans, Reads, IsData
<1>15. ASSUME NEW h \in Handles, HandleClose(h) PROVE Held(x)' = Expected(x)'
  <2>1. Reads /\ UNCHANGED <<cid, since, got, queue>> /\ ~IsData(read + 1)
    BY <1>14, <1>15 DEF HandleClose, NotReady
  <2>2. Subscribed(x)
    <3>1. \A k \in Keys : entry'[k] = Retained[k] \/ entry'[k] = NoHandle
      BY <1>15, RetainedEntries DEF HandleClose
    <3> QED BY <1>12, <2>1, <3>1
  <2>3. Held(x)' = Held(x)
    BY <2>1, NextTrail DEF Trail, Held
  <2> QED BY <1>1, <1>2, <2>1, <2>2, <2>3, GapRead
<1>16. ASSUME NEW h \in Handles, Reads, UNCHANGED <<cid, since>>, Owner = h,
              IsData(read + 1), DirectTo(h) \/ QueuedTo(h), entry' = Retained
       PROVE  Held(x)' = Expected(x)'
  <2>1. Subscribed(x) /\ (Rid = cid[x] => x = h)
    BY <1>12, <1>16 DEF Owner
  <2>2. cid[h] = Rid
    BY <1>16, OwnerFits, HandleAssumption DEF Reads
  <2>3. CASE x = h
    BY <1>1, <1>2, <1>16, <2>1, <2>2, <2>3, HeldGrows, GapRead
  <2>4. CASE x # h
    <3>1. Held(x)' = Held(x)
      <4>1. Trail(x)' = Trail(x)
        BY <1>16, <2>4, OneRecipient
      <4> QED BY <4>1, NextTrail DEF Held
    <3> QED BY <1>1, <1>2, <1>16, <2>1, <2>4, <3>1, GapRead
  <2> QED BY <2>3, <2>4
<1>17. ASSUME NEW h \in Handles, HandleOwn(h) PROVE Held(x)' = Expected(x)'
  <2>1. /\ Reads /\ UNCHANGED <<cid, since>> /\ IsData(read + 1)
        /\ Return(h) /\ entry' = Retained /\ pc[h] = "lock" /\ Rid = cid[h]
    BY <1>14, <1>17 DEF HandleOwn, Take, Locked
  <2>2. Owner = h
    BY <1>17, OwnIsMine
  <2>3. DirectTo(h)
    BY <2>1 DEF Return, DirectTo, Fits, Rid
  <2> QED BY <1>16, <2>1, <2>2, <2>3
<1>18. ASSUME NEW h \in Handles, HandleOther(h) PROVE Held(x)' = Expected(x)'
  <2>1. /\ Reads /\ UNCHANGED <<cid, since, got>> /\ IsData(read + 1)
        /\ Owner # NoHandle /\ ~Empty
    BY <1>14, <1>18 DEF HandleOther, NotReady
  <2>2. Owner \in Handles /\ Fits(Owner)
    BY <2>1, OwnerFits
  <2>3. CASE /\ queue' = [queue EXCEPT ![Owner] = Append(@, read + 1)]
             /\ entry' = Retained
    <3>1. QueuedTo(Owner)
      BY <2>1, <2>2, <2>3 DEF QueuedTo
    <3> QED BY <1>16, <2>1, <2>2, <2>3, <3>1
  <2>4. CASE queue' = queue /\ entry' = [Retained EXCEPT ![Rid] = NoHandle]
    <3>1. \A k \in Keys : entry'[k] = Retained[k] \/ entry'[k] = NoHandle
      BY <2>4, RetainedEntries
    <3>2. Subscribed(x) /\ entry'[cid[x]] = x
      BY <1>12, <2>1, <3>1
    <3>3. Rid # cid[x]
      BY <1>2, <2>4, <3>2, RetainedEntries, HandleAssumption
    <3>4. Held(x)' = Held(x)
      BY <2>1, <2>4, NextTrail DEF Trail, Held
    <3> QED BY <1>1, <1>2, <2>1, <3>2, <3>3, <3>4, GapRead
  <2> QED BY <1>18, <2>3, <2>4 DEF HandleOther
<1>19. ASSUME Reads, UNCHANGED <<cid, since>>, Owner = NoHandle, entry' = Retained,
              Trail(x)' = Trail(x)
       PROVE  Held(x)' = Expected(x)'
  <2>1. Subscribed(x) /\ Retained[cid[x]] = x
    BY <1>12, <1>19
  <2>2. Rid # cid[x]
    BY <1>19, <2>1, HandleAssumption DEF Owner
  <2>3. Held(x)' = Held(x)
    BY <1>19, NextTrail DEF Held
  <2> QED BY <1>1, <1>2, <1>19, <2>1, <2>2, <2>3, GapRead
<1>20. ASSUME NEW h \in Handles, HandleUnclaimed(h) PROVE Held(x)' = Expected(x)'
  <2>1. /\ Reads /\ UNCHANGED <<cid, since, queue>> /\ Owner = NoHandle
        /\ entry' = Retained /\ got' = [got EXCEPT ![h] = Append(@, read + 1)]
        /\ pc[h] = "lock" /\ cid[h] = NoId
    BY <1>14, <1>20 DEF HandleUnclaimed, Return, Take, Locked
  <2>2. h = Root
    BY <2>1, IdAssumption DEF Registry
  <2>3. Trail(x)' = Trail(x)
    BY <2>1, <2>2 DEF Trail, TypeOK
  <2> QED BY <1>19, <2>1, <2>3
<1>21. ASSUME NEW h \in Handles, HandleDefault(h) PROVE Held(x)' = Expected(x)'
  <2>1. /\ Reads /\ UNCHANGED <<cid, since, got>> /\ Owner = NoHandle
        /\ entry' = Retained
        /\ queue' = queue \/ queue' = [queue EXCEPT ![Root] = Append(@, read + 1)]
    BY <1>14, <1>21 DEF HandleDefault, NotReady
  <2>2. Trail(x)' = Trail(x)
    BY <2>1 DEF Trail, TypeOK
  <2> QED BY <1>19, <2>1, <2>2
<1>22. CASE UNCHANGED vars
  BY <1>3, <1>22 DEF vars
<1> QED BY <1>4, <1>5, <1>6, <1>8, <1>10, <1>11, <1>13, <1>15, <1>17, <1>18,
           <1>20, <1>21, <1>22 DEF Next, Poll

-----------------------------------------------------------------------------
(***************************************************************************)
(* The inductive invariant and what it gives                               *)
(***************************************************************************)
IInv ==
    /\ TypeOK /\ Registry /\ Started /\ DeliveredOnce
    /\ ~Parallel => OneLock /\ Ordered
    /\ FreshIds => UniqueIds
    /\ ~Parallel \/ FreshIds => NoGap

LEMMA Invariance == Spec => []IInv
<1>1. Init => IInv
  BY TypeInit, RegistryInit, StartedInit, OnceInit, LockInit, OrderInit,
     UniqueInit, GapInit DEF IInv
<1>2. IInv /\ [Next]_vars => IInv'
  <2> SUFFICES ASSUME IInv, [Next]_vars PROVE IInv'
    OBVIOUS
  <2>1. StepKind
    BY StepKinds DEF IInv
  <2>2. TypeOK' /\ Registry' /\ Started' /\ DeliveredOnce'
    BY <2>1, TypeNext, RegistryNext, StartedNext, OnceNext DEF IInv
  <2>3. ~Parallel => OneLock' /\ Ordered'
    BY <2>1, LockNext, OrderNext DEF IInv
  <2>4. FreshIds => UniqueIds'
    BY UniqueNext DEF IInv
  <2>5. ~Parallel \/ FreshIds => NoGap'
    BY <2>1, GapNext DEF IInv
  <2> QED BY <2>2, <2>3, <2>4, <2>5 DEF IInv
<1> QED BY <1>1, <1>2, PTL DEF Spec

\* No frame is delivered twice, or to a Channel it is not addressed to, even
\* when several threads poll and ids are used again.
THEOREM NoDuplicates == Spec => []DeliveredOnce
<1>1. IInv => DeliveredOnce
  BY DEF IInv
<1> QED BY <1>1, Invariance, PTL

\* With one polling thread every Channel yields its frames in the peer's order.
THEOREM InOrder == ~Parallel => (Spec => []Ordered)
<1> SUFFICES ASSUME ~Parallel PROVE Spec => []Ordered
  OBVIOUS
<1>1. IInv => Ordered
  BY DEF IInv
<1> QED BY <1>1, Invariance, PTL

\* A registered Channel misses no frame of its id and gets no other, provided
\* that polls do not overlap or that ids are not used twice.
THEOREM NothingMissed == (~Parallel \/ FreshIds) => (Spec => []NoGap)
<1> SUFFICES ASSUME ~Parallel \/ FreshIds PROVE Spec => []NoGap
  OBVIOUS
<1>1. IInv => NoGap
  BY DEF IInv
<1> QED BY <1>1, Invariance, PTL

-----------------------------------------------------------------------------
(***************************************************************************)
(* Refinement                                                              *)
(***************************************************************************)
LEMMA HeadApart ==
    ASSUME NEW g \in Seq(Nat), NEW q \in Seq(Nat), q # << >>
    PROVE  /\ Head(q) \in Positions(q)
           /\ Distinct(g \o q) => Head(q) \notin Positions(g)
           /\ Increasing(g \o q) => \A m \in Positions(g) : m < Head(q)
<1> DEFINE t == g \o q
<1>1. /\ Len(g) \in Nat /\ Len(q) \in Nat \ {0} /\ Head(q) = q[1]
      /\ DOMAIN g = 1 .. Len(g) /\ DOMAIN q = 1 .. Len(q)
  OBVIOUS
<1>2. /\ DOMAIN t = 1 .. Len(g) + Len(q)
      /\ \A i \in 1 .. Len(g) : t[i] = g[i] /\ i \in DOMAIN t /\ i < Len(g) + 1
      /\ t[Len(g) + 1] = Head(q) /\ Len(g) + 1 \in DOMAIN t
  BY <1>1
<1>3. Head(q) \in Positions(q)
  <2>1. 1 \in DOMAIN q
    BY <1>1
  <2> QED BY <1>1, <2>1 DEF Positions
<1>4. ASSUME Distinct(t) PROVE Head(q) \notin Positions(g)
  <2> SUFFICES ASSUME NEW i \in 1 .. Len(g), g[i] = Head(q) PROVE FALSE
    BY <1>1 DEF Positions
  <2>1. i = Len(g) + 1
    BY <1>2, <1>4 DEF Distinct
  <2> QED BY <1>1, <2>1
<1>5. ASSUME Increasing(t) PROVE \A m \in Positions(g) : m < Head(q)
  <2> SUFFICES ASSUME NEW i \in 1 .. Len(g) PROVE g[i] < Head(q)
    BY <1>1 DEF Positions
  <2> QED BY <1>2, <1>5 DEF Increasing
<1> QED BY <1>3, <1>4, <1>5

\* What the multiplexer does to what was sent, named and received is what the
\* abstract demultiplexer may do.
LEMMA RefinementStep == IInv /\ [Next]_vars => [D!Next]_(D!vars)
<1> SUFFICES ASSUME IInv, [Next]_vars PROVE D!Next \/ UNCHANGED <<sent, cid, got>>
  BY DEF D!vars
<1>1. TypeOK /\ Registry /\ DeliveredOnce /\ StepKind /\ (~Parallel => Ordered)
  BY StepKinds DEF IInv
<1>2. /\ read \in Nat /\ read <= Len(sent) /\ Len(sent) \in Nat
      /\ DOMAIN sent = 1 .. Len(sent)
  BY <1>1 DEF TypeOK
<1>3. ASSUME NEW h \in Handles
      PROVE  /\ got[h] \in Seq(Nat) /\ queue[h] \in Seq(Nat)
             /\ D!Received(h) = Positions(got[h])
             /\ D!Received(h) \subseteq Held(h) /\ Positions(queue[h]) \subseteq Held(h)
             /\ \A n \in Held(h) : n \in 1 .. read
  <2>1. got[h] \in Seq(Nat) /\ queue[h] \in Seq(Nat)
    BY <1>1, TrailTypes
  <2>2. D!Received(h) = Positions(got[h])
    BY DEF D!Received, Positions
  <2>3. Held(h) = Positions(got[h]) \cup Positions(queue[h])
    BY <1>1, TrailTypes
  <2>4. \A n \in Held(h) : n \in 1 .. read
    BY <1>1 DEF DeliveredOnce
  <2> QED BY <2>1, <2>2, <2>3, <2>4
<1>4. CASE Stays \/ Skips
  BY <1>4 DEF Stays, Skips, Reads
<1>5. CASE Sends
  BY <1>5 DEF Sends, D!Next, D!Send, Frame
<1>6. ASSUME NEW h \in Handles, Cuts(h) \/ QueuedTo(h) PROVE UNCHANGED <<sent, cid, got>>
  BY <1>6 DEF Cuts, QueuedTo, Reads
<1>7. ASSUME NEW h \in Handles, Opens(h) PROVE D!Next
  <2>1. h # Root /\ cid[h] = NoId
    BY <1>1, <1>7 DEF Opens, Registry
  <2> QED BY <1>7, <2>1 DEF Opens, D!Next, D!Open
<1>8. ASSUME NEW h \in Handles, NEW n \in 1 .. Len(sent), IsData(n),
             h = Root \/ sent[n].id = cid[h],
             \A g \in Handles : n \notin D!Received(g),
             ~Parallel => \A m \in D!Received(h) : m < n,
             got' = [got EXCEPT ![h] = Append(@, n)], UNCHANGED <<sent, cid>>
      PROVE  D!Next
  <2>1. D!Deliver(h, n)
    BY <1>8 DEF D!Deliver, IsData
  <2> QED BY <1>2, <2>1 DEF D!Next
<1>9. ASSUME NEW h \in Handles, Receives(h) PROVE D!Next
  <2> DEFINE n == Head(queue[h])
  <2>1. /\ n \in Positions(queue[h]) /\ n \notin Positions(got[h])
        /\ ~Parallel => \A m \in Positions(got[h]) : m < n
    BY <1>1, <1>3, <1>9, HeadApart DEF Receives, DeliveredOnce, Ordered, Trail
  <2>2. n \in Held(h) /\ n \in 1 .. Len(sent)
    BY <1>2, <1>3, <2>1
  <2>3. /\ IsData(n) /\ (h = Root \/ sent[n].id = cid[h])
        /\ \A g \in Handles \ {h} : n \notin Held(g)
    BY <1>1, <2>2 DEF DeliveredOnce
  <2>4. \A g \in Handles : n \notin D!Received(g)
    BY <1>3, <2>1, <2>3
  <2>5. ~Parallel => \A m \in D!Received(h) : m < n
    BY <1>3, <2>1
  <2>6. got' = [got EXCEPT ![h] = Append(@, n)] /\ UNCHANGED <<sent, cid>>
    BY <1>9 DEF Receives
  <2> HIDE DEF n
  <2> QED BY <1>8, <2>2, <2>3, <2>4, <2>5, <2>6
<1>10. ASSUME NEW h \in Handles, DirectTo(h) PROVE D!Next
  <2>1. /\ Reads /\ Fits(h) /\ UNCHANGED <<sent, cid>>
        /\ got' = [got EXCEPT ![h] = Append(@, read + 1)]
    BY <1>10 DEF DirectTo, Reads
  <2>2. read + 1 \in 1 .. Len(sent)
    BY <1>1, <2>1, FrameRead DEF Reads
  <2>3. /\ \A g \in Handles : read + 1 \notin D!Received(g)
        /\ \A m \in D!Received(h) : m < read + 1
    BY <1>2, <1>3
  <2> QED BY <1>8, <2>1, <2>2, <2>3 DEF Fits
<1> QED BY <1>1, <1>4, <1>5, <1>6, <1>7, <1>9, <1>10 DEF StepKind

\* The multiplexer implements the abstract demultiplexer.
THEOREM Refinement == Spec => Demultiplexes
<1>1. Init => D!Init
  BY DEF Init, D!Init
<1> QED BY <1>1, RefinementStep, Invariance, PTL DEF Spec, Demultiplexes, D!Spec

-----------------------------------------------------------------------------
(***************************************************************************)
(* The default Channel                                                     *)
(***************************************************************************)
\* A frame that is read removes nothing from the default Channel.
LEMMA ReadGrows ==
    ASSUME TypeOK, Registry, StepKind, read' # read
    PROVE  Held(Root) \subseteq Held(Root)'
<1>1. Root \in Handles /\ read \in Nat
  BY HandleAssumption DEF TypeOK
<1>2. CASE Skips
  BY <1>2 DEF Skips, Held, Trail, Positions
<1>3. ASSUME NEW h \in Handles, DirectTo(h) \/ QueuedTo(h)
      PROVE  Held(Root) \subseteq Held(Root)'
  <2>1. CASE h = Root
    BY <1>3, <2>1, HeldGrows
  <2>2. CASE h # Root
    <3>1. Trail(Root)' = Trail(Root)
      BY <1>1, <1>3, <2>2, OneRecipient
    <3>2. Held(Root)' = Positions(Trail(Root))
      BY <1>1, <3>1, NextTrail
    <3> QED BY <3>2 DEF Held
  <2> QED BY <2>1, <2>2
<1> QED BY <1>2, <1>3 DEF StepKind, Stays, Sends, Opens, Cuts, Receives

\* What a step must do for the default Channel.
Serves ==
    status'[Root] # "dropped" =>
        /\ Held(Root) \subseteq Held(Root)'
        /\ \A n \in read + 1 .. read' :
              IsData(n) /\ Unclaimed(n) /\ SenderAlive(Root) =>
                  n \in Held(Root)' \/ Len(queue[Root]) >= room[Root]

LEMMA ServesNext == TypeOK /\ Registry /\ StepKind /\ [Next]_vars => Serves
<1> SUFFICES ASSUME TypeOK, Registry, StepKind, [Next]_vars PROVE Serves
  OBVIOUS
<1>1. /\ Root \in Handles /\ NoHandle # Root /\ cid[Root] = NoId /\ NoId \in Keys
      /\ status[Root] # "free" /\ read \in Nat /\ read + 1 # read
  BY HandleAssumption DEF TypeOK, Registry, Keys
<1>2. ASSUME UNCHANGED <<got, queue, read>> PROVE Serves
  <2>1. Held(Root)' = Held(Root)
    BY <1>2 DEF Held, Trail, Positions
  <2> QED BY <1>1, <1>2, <2>1 DEF Serves
<1>3. ASSUME NEW p \in Handles, NEW h \in Handles, AddChannel(p, h) \/ BeginRequest(p, h)
      PROVE  Serves
  BY <1>2, <1>3 DEF AddChannel, BeginRequest, Subscribe, wire
<1>4. ASSUME NEW h \in Handles, Release(h) PROVE Serves
  <2>1. /\ UNCHANGED <<got, read>> /\ status' = [status EXCEPT ![h] = "dropped"]
        /\ queue' = [queue EXCEPT ![h] = << >>]
    BY <1>4 DEF Release, wire
  <2>2. CASE h = Root
    BY <1>1, <2>1, <2>2 DEF Serves, TypeOK
  <2>3. CASE h # Root
    <3>1. queue'[Root] = queue[Root]
      BY <1>1, <2>1, <2>3 DEF TypeOK
    <3>2. Held(Root)' = Held(Root)
      BY <2>1, <3>1 DEF Held, Trail, Positions
    <3> QED BY <1>1, <2>1, <3>2 DEF Serves
  <2> QED BY <2>2, <2>3
<1>5. ASSUME NEW h \in Handles, DropChannel(h) \/ AbortRequest(h) PROVE Serves
  <2>1. CASE DropChannel(h)
    BY <1>4, <2>1 DEF DropChannel
  <2>2. CASE AbortRequest(h)
    BY <1>4, <2>2 DEF AbortRequest, TypeOK
  <2> QED BY <1>5, <2>1, <2>2
<1>6. ASSUME NEW h \in Handles, PollQueueItem(h) PROVE Serves
  <2>1. /\ UNCHANGED <<read, room, entry>> /\ queue[h] # << >>
        /\ got' = [got EXCEPT ![h] = Append(got[h], Head(queue[h]))]
        /\ queue' = [queue EXCEPT ![h] = Tail(queue[h])]
    BY <1>6 DEF PollQueueItem, wire, chans
  <2>2. Trail(Root)' = Trail(Root)
    <3>1. CASE h = Root
      <4>1. got[h] \in Seq(Nat) /\ queue[h] \in Seq(Nat)
        BY DEF TypeOK
      <4>2. Trail(Root)' = Append(got[h], Head(queue[h])) \o Tail(queue[h])
        BY <2>1, <3>1 DEF Trail, TypeOK
      <4> QED BY <2>1, <3>1, <4>1, <4>2, MoveHead DEF Trail
    <3>2. CASE h # Root
      BY <1>1, <2>1, <3>2 DEF Trail, TypeOK
    <3> QED BY <3>1, <3>2
  <2>3. Held(Root)' = Held(Root)
    BY <1>1, <2>2, NextTrail DEF Held
  <2>4. read + 1 .. read' = {}
    BY <1>1, <2>1
  <2> QED BY <2>3, <2>4 DEF Serves
<1>7. ASSUME NEW h \in Handles, NEW payload, Take(h, payload),
             (payload = "Data" /\ Owner = NoHandle /\ SenderAlive(Root)) =>
                 read + 1 \in Held(Root)' \/ Len(queue[Root]) >= room[Root],
             payload \in {"Data", "Close"}
      PROVE  Serves
  <2>1. read' = read + 1 /\ sent[read + 1].payload = payload /\ ~Empty
    BY <1>7 DEF Take
  <2>2. Held(Root) \subseteq Held(Root)'
    BY <1>1, <2>1, ReadGrows
  <2>3. ASSUME IsData(read + 1), Unclaimed(read + 1) PROVE payload = "Data" /\ Owner = NoHandle
    <3>1. payload = "Data"
      BY <2>1, <2>3 DEF IsData
    <3>2. ASSUME Owner # NoHandle PROVE FALSE
      <4>1. /\ Owner \in Handles /\ entry[Rid] = Owner /\ cid[Owner] = Rid /\ ~used[Owner]
        BY <2>1, <2>3, <3>2, OwnerFits
      <4>2. SenderAlive(Owner)
        BY <4>1 DEF SenderAlive, Subscribed, IsClosed
      <4> QED BY <2>3, <4>1, <4>2 DEF Unclaimed, Rid
    <3> QED BY <3>1, <3>2
  <2>4. \A n \in read + 1 .. read' : n = read + 1
    BY <1>1, <2>1
  <2> QED BY <1>7, <2>2, <2>3, <2>4 DEF Serves
<1>9. ASSUME NEW h \in Handles, HandleClose(h) PROVE Serves
  BY <1>7, <1>9 DEF HandleClose
<1>10. ASSUME NEW h \in Handles, HandleOwn(h) PROVE Serves
  BY <1>7, <1>10 DEF HandleOwn
<1>11. ASSUME NEW h \in Handles, HandleOther(h) PROVE Serves
  BY <1>7, <1>11 DEF HandleOther
<1>12. ASSUME NEW h \in Handles, HandleUnclaimed(h) PROVE Serves
  <2>1. h = Root
    <3>1. status[h] # "free" /\ cid[h] = NoId
      BY <1>12 DEF HandleUnclaimed, Take, Locked, Registry
    <3> QED BY <3>1, IdAssumption DEF Registry
  <2>2. DirectTo(Root)
    BY <1>12, <2>1 DEF HandleUnclaimed, Take, Locked, Return, DirectTo, Reads, Fits, IsData, chans
  <2>3. Held(Root)' = Held(Root) \cup {read + 1}
    BY <1>1, <2>2, HeldGrows
  <2> QED BY <1>7, <1>12, <2>3 DEF HandleUnclaimed
<1>13. ASSUME NEW h \in Handles, HandleDefault(h) PROVE Serves
  <2>1. ASSUME SenderAlive(Root) PROVE read + 1 \in Held(Root)' \/ Len(queue[Root]) >= room[Root]
    <3>0. Retained[NoId] # NoHandle
      BY <1>1, <2>1 DEF SenderAlive, Subscribed, IsClosed, Retained
    <3>1. CASE Len(queue[Root]) < room[Root]
      <4>1. QueuedTo(Root)
        BY <1>1, <1>13, <3>0, <3>1 DEF HandleDefault, Take, Locked, NotReady, QueuedTo, Reads,
           Fits, IsData, chans
      <4> QED BY <1>1, <4>1, HeldGrows
    <3>2. CASE ~(Len(queue[Root]) < room[Root])
      <4>1. Len(queue[Root]) \in Nat /\ room[Root] \in Nat
        BY <1>1 DEF TypeOK
      <4> QED BY <3>2, <4>1
    <3> QED BY <3>1, <3>2
  <2> QED BY <1>7, <1>13, <2>1 DEF HandleDefault
<1>14. ASSUME NEW h \in Handles,
              \/ FinishRequest(h) \/ CloseMultiplex(h) \/ Expire(h) \/ DelayTimeout(h)
              \/ PollQueueEnd(h) \/ PollQueuePending(h) \/ PollSaturated(h) \/ PollEmpty(h)
              \/ PollTransportEnd(h)
       PROVE  Serves
  BY <1>2, <1>14 DEF FinishRequest, CloseMultiplex, Expire, DelayTimeout, PollQueueEnd,
     PollQueuePending, PollSaturated, PollEmpty, PollTransportEnd, NotReady, Locked, wire, chans
<1>15. CASE PeerSend \/ PeerLeave \/ UNCHANGED vars
  BY <1>2, <1>15 DEF PeerSend, PeerLeave, chans, vars
<1> QED
  BY <1>3, <1>5, <1>6, <1>9, <1>10, <1>11, <1>12, <1>13, <1>14, <1>15 DEF Next, Poll

\* A frame for whose id no open sender is registered reaches the default Channel
\* unless its queue is full just then, with any number of Channels, ids and
\* threads and queues of any size, and what it got it keeps (handle_frame).
THEOREM DefaultServed == Spec => DefaultGetsUnclaimed
<1>1. IInv /\ [Next]_vars => [Serves]_vars
  BY StepKinds, ServesNext DEF IInv
<1> QED BY <1>1, Invariance, PTL DEF Spec, DefaultGetsUnclaimed, Serves

-----------------------------------------------------------------------------
(***************************************************************************)
(* What a step never does                                                  *)
(***************************************************************************)
LEMMA DrainedStep ==
    ASSUME TypeOK, OneLock, [Next]_vars,
           NEW h \in Handles, ~ended[h], ended'[h]
    PROVE  queue[h] = << >>
<1>1. ASSUME NEW g \in Handles,
             \/ PollSaturated(g) \/ PollEmpty(g) \/ PollTransportEnd(g)
             \/ HandleClose(g) \/ HandleOwn(g) \/ HandleOther(g)
             \/ HandleUnclaimed(g) \/ HandleDefault(g)
      PROVE  queue[h] = << >>
  <2>1. pc[g] = "lock" /\ queue[g] = << >>
    BY <1>1 DEF PollSaturated, PollEmpty, PollTransportEnd, HandleClose, HandleOwn,
       HandleOther, HandleUnclaimed, HandleDefault, Take, Locked, OneLock
  <2>2. \/ ended' = [ended EXCEPT ![g] = late[g]]
        \/ ended' = [ended EXCEPT ![g] = TRUE]
        \/ ended' = [ended EXCEPT ![g] = FALSE]
    BY <1>1 DEF PollSaturated, PollEmpty, PollTransportEnd, HandleClose, HandleOwn,
       HandleOther, HandleUnclaimed, HandleDefault, NotReady, Return
  <2>3. g = h
    BY <2>2 DEF TypeOK
  <2> QED BY <2>1, <2>3
<1>2. ASSUME NEW g \in Handles, PollQueueEnd(g) PROVE queue[h] = << >>
  <2>1. queue[g] = << >> /\ ended' = [ended EXCEPT ![g] = TRUE]
    BY <1>2 DEF PollQueueEnd
  <2>2. g = h
    BY <2>1 DEF TypeOK
  <2> QED BY <2>1, <2>2
<1>3. ASSUME NEW g \in Handles, PollQueueItem(g) PROVE FALSE
  BY <1>3 DEF PollQueueItem, TypeOK
<1>4. ASSUME UNCHANGED ended PROVE FALSE
  BY <1>4
<1> QED
  BY <1>1, <1>2, <1>3, <1>4 DEF Next, Poll, PeerSend, PeerLeave, AddChannel, BeginRequest,
     Subscribe, FinishRequest, AbortRequest, DropChannel, Release, CloseMultiplex, Expire,
     DelayTimeout, PollQueuePending, vars

\* When polls do not overlap, None is only answered to a Channel whose queue is
\* empty.
THEOREM NoneWhenDrained == ~Parallel => (Spec => EndDrained)
<1> SUFFICES ASSUME ~Parallel PROVE Spec => EndDrained
  OBVIOUS
<1>1. IInv /\ [Next]_vars => [\A h \in Handles : ~ended[h] /\ ended'[h] => queue[h] = << >>]_vars
  BY DrainedStep DEF IInv
<1> QED BY <1>1, Invariance, PTL DEF Spec, EndDrained

\* The ways a subscription ends.
Leaves(h) ==
    \/ status'[h] = "dropped"
    \/ used[h]
    \/ read' > read /\ sent[read'].id = cid[h]
    \/ \A k \in Keys : entry'[k] = NoHandle

LEMMA ReleasedIsOwn ==
    ASSUME TypeOK, Registry, UniqueIds, NEW h \in Handles, Subscribed(h),
           NEW g \in Handles, status[g] # "free", cid[g] = cid[h]
    PROVE  g = h
<1>1. cid[h] \in Keys /\ status[h] # "free" /\ h # NoHandle
  <2>1. cid[h] \in Keys /\ h # NoHandle
    BY HandleAssumption DEF TypeOK
  <2> QED BY <2>1 DEF Subscribed, Registry
<1>2. CASE cid[h] = NoId
  BY <1>1, <1>2, IdAssumption DEF Registry
<1> QED BY <1>2 DEF UniqueIds

LEMMA LeavingStep ==
    ASSUME TypeOK, Registry, UniqueIds, [Next]_vars,
           NEW h \in Handles, Subscribed(h), ~Subscribed(h)'
    PROVE  Leaves(h)
<1>1. /\ cid[h] \in Keys /\ entry[cid[h]] = h /\ h # NoHandle /\ status[h] # "free"
      /\ read \in Nat
  BY HandleAssumption DEF Subscribed, TypeOK, Registry
<1>2. ASSUME UNCHANGED <<entry, cid>> PROVE FALSE
  BY <1>2 DEF Subscribed
<1>3. ASSUME NEW p \in Handles, NEW g \in Handles, AddChannel(p, g) \/ BeginRequest(p, g)
      PROVE  Leaves(h)
  <2>1. PICK i \in Ids : /\ status[g] = "free" /\ MaySubscribe(i)
                         /\ entry' = [entry EXCEPT ![i] = g] /\ cid' = [cid EXCEPT ![g] = i]
    BY <1>3 DEF AddChannel, BeginRequest, Subscribe
  <2>2. g # h /\ cid'[h] = cid[h]
    BY <1>1, <2>1 DEF TypeOK
  <2>3. i = cid[h]
    BY <1>1, <2>1, <2>2 DEF Subscribed, TypeOK
  <2> QED BY <1>1, <2>1, <2>3 DEF MaySubscribe, IsClosed, Leaves
<1>4. ASSUME NEW g \in Handles, status[g] # "free", Release(g) PROVE Leaves(h)
  <2>1. entry' = [entry EXCEPT ![cid[g]] = NoHandle] /\ cid' = cid
        /\ status' = [status EXCEPT ![g] = "dropped"]
    BY <1>4 DEF Release
  <2>2. cid[g] = cid[h]
    BY <1>1, <2>1 DEF Subscribed, TypeOK
  <2>3. g = h
    BY <1>4, <2>2, ReleasedIsOwn
  <2> QED BY <2>1, <2>3 DEF Leaves, TypeOK
<1>5. ASSUME NEW g \in Handles, DropChannel(g) \/ AbortRequest(g) PROVE Leaves(h)
  <2>1. CASE DropChannel(g)
    BY <1>4, <2>1 DEF DropChannel, Callable
  <2>2. CASE AbortRequest(g)
    <3>1. asking[g] \in Handles /\ status[asking[g]] # "free" /\ Release(asking[g])
      BY <2>2 DEF AbortRequest, Registry, TypeOK
    <3> QED BY <1>4, <3>1
  <2> QED BY <1>5, <2>1, <2>2
<1>6. ASSUME NEW g \in Handles, CloseMultiplex(g) PROVE Leaves(h)
  BY <1>6 DEF CloseMultiplex, Leaves
<1>7. ASSUME NEW g \in Handles,
             \/ PollSaturated(g) \/ PollEmpty(g) \/ PollTransportEnd(g)
             \/ HandleClose(g) \/ HandleOwn(g) \/ HandleOther(g)
             \/ HandleUnclaimed(g) \/ HandleDefault(g)
      PROVE  Leaves(h)
  <2>1. cid' = cid
    BY <1>7 DEF PollSaturated, PollEmpty, PollTransportEnd, HandleClose, HandleOwn,
       HandleOther, HandleUnclaimed, HandleDefault, Take, Locked, chans
  <2>2. \/ entry' = Retained
        \/ entry' = [Retained EXCEPT ![Rid] = NoHandle] /\ read' = read + 1
    BY <1>7 DEF PollSaturated, PollEmpty, PollTransportEnd, HandleClose, HandleOwn,
       HandleOther, HandleUnclaimed, HandleDefault, Take
  <2>3. Retained[cid[h]] = h \/ used[h]
    BY <1>1 DEF Retained, IsClosed
  <2>4. entry'[cid[h]] # h
    BY <2>1 DEF Subscribed
  <2>5. CASE entry' = Retained
    BY <2>3, <2>4, <2>5 DEF Leaves
  <2>6. CASE entry' = [Retained EXCEPT ![Rid] = NoHandle] /\ read' = read + 1
    <3>1. used[h] \/ Rid = cid[h]
      BY <1>1, <2>3, <2>4, <2>6, RetainedEntries
    <3>2. read' > read /\ Rid = sent[read'].id
      BY <1>1, <2>6 DEF Rid
    <3> QED BY <3>1, <3>2 DEF Leaves
  <2> QED BY <2>2, <2>5, <2>6
<1> QED
  BY <1>2, <1>3, <1>5, <1>6, <1>7 DEF Next, Poll, PeerSend, PeerLeave,
     FinishRequest, Expire, DelayTimeout, PollQueueItem, PollQueueEnd, PollQueuePending,
     vars, chans

\* When clients take fresh ids nothing another Channel does ends a subscription.
THEOREM KeepsSubscription == FreshIds => (Spec => NotEvicted)
<1> SUFFICES ASSUME FreshIds PROVE Spec => NotEvicted
  OBVIOUS
<1>1. IInv /\ [Next]_vars =>
         [\A h \in Handles : Subscribed(h) /\ ~Subscribed(h)' =>
             \/ status'[h] = "dropped"
             \/ used[h]
             \/ read' > read /\ sent[read'].id = cid[h]
             \/ \A k \in Keys : entry'[k] = NoHandle]_vars
  BY LeavingStep DEF IInv, Leaves
<1> QED BY <1>1, Invariance, PTL DEF Spec, NotEvicted
=============================================================================
