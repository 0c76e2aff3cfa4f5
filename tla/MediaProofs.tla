----------------------------- MODULE MediaProofs -----------------------------
(***************************************************************************)
(* Proofs about Media, for every size of the cache, the frames and the     *)
(* outputs, and every number of channels, packets and streams.             *)
(***************************************************************************)
EXTENDS Media, SequenceTheorems, TLAPS

-----------------------------------------------------------------------------
(***************************************************************************)
(* Sequences of samples                                                    *)
(***************************************************************************)
LEMMA SmallerBounds ==
    ASSUME NEW a \in Nat, NEW b \in Nat
    PROVE  Smaller(a, b) \in Nat /\ Smaller(a, b) <= a /\ Smaller(a, b) <= b
BY DEF Smaller

LEMMA NoSamples == << >> \in Seq(Sample) /\ << >> \in Seq(Nat) /\ Len(<< >>) = 0
OBVIOUS

\* A sequence cut in two.
LEMMA Cut ==
    ASSUME NEW S, NEW s \in Seq(S), NEW n \in 0 .. Len(s)
    PROVE  /\ SubSeq(s, 1, n) \in Seq(S)
           /\ Len(SubSeq(s, 1, n)) = n
           /\ \A i \in 1 .. n : SubSeq(s, 1, n)[i] = s[i]
           /\ SubSeq(s, n + 1, Len(s)) \in Seq(S)
           /\ Len(SubSeq(s, n + 1, Len(s))) = Len(s) - n
           /\ \A i \in 1 .. Len(s) - n : SubSeq(s, n + 1, Len(s))[i] = s[n + i]
<1>1. Len(s) \in Nat /\ n \in Int /\ n + 1 \in Int /\ \A i \in 1 .. Len(s) : s[i] \in S
  OBVIOUS
<1>2. (\A i \in 1 .. n : s[i] \in S) /\ (\A i \in n + 1 .. Len(s) : s[i] \in S)
  BY <1>1
<1>3. /\ SubSeq(s, 1, n) \in Seq(S)
      /\ Len(SubSeq(s, 1, n)) = IF 1 <= n THEN n - 1 + 1 ELSE 0
      /\ \A i \in 1 .. n - 1 + 1 : SubSeq(s, 1, n)[i] = s[1 + i - 1]
  BY <1>1, <1>2, SubSeqProperties
<1>4. /\ SubSeq(s, n + 1, Len(s)) \in Seq(S)
      /\ Len(SubSeq(s, n + 1, Len(s))) =
            IF n + 1 <= Len(s) THEN Len(s) - (n + 1) + 1 ELSE 0
      /\ \A i \in 1 .. Len(s) - (n + 1) + 1 :
            SubSeq(s, n + 1, Len(s))[i] = s[(n + 1) + i - 1]
  BY <1>1, <1>2, SubSeqProperties
<1> QED BY <1>1, <1>3, <1>4

LEMMA CutJoin ==
    ASSUME NEW S, NEW s \in Seq(S), NEW n \in 0 .. Len(s)
    PROVE  SubSeq(s, 1, n) \o SubSeq(s, n + 1, Len(s)) = s
<1>1. SubSeq(s, 1, n) \o SubSeq(s, n + 1, Len(s)) = SubSeq(s, 1, Len(s))
  <2>1. Len(s) \in Nat /\ 1 \in 1 .. Len(s) + 1 /\ n \in 1 - 1 .. Len(s) /\ Len(s) \in n .. Len(s)
    OBVIOUS
  <2> QED BY <2>1, ConcatAdjacentSubSeq
<1> QED BY <1>1, SubSeqFull

\* The elements of a concatenation.
LEMMA Parts ==
    ASSUME NEW s \in Seq(Sample), NEW t \in Seq(Sample)
    PROVE  /\ s \o t \in Seq(Sample) /\ Len(s \o t) = Len(s) + Len(t)
           /\ Len(s) \in Nat /\ Len(t) \in Nat
           /\ \A i \in 1 .. Len(s) : (s \o t)[i] = s[i]
           /\ \A i \in 1 .. Len(t) : (s \o t)[Len(s) + i] = t[i]
<1>1. /\ s \o t \in Seq(Sample) /\ Len(s \o t) = Len(s) + Len(t)
      /\ \A i \in 1 .. Len(s) + Len(t) : (s \o t)[i] =
            IF i <= Len(s) THEN s[i] ELSE t[i - Len(s)]
  BY ConcatProperties
<1>2. Len(s) \in Nat /\ Len(t) \in Nat
  OBVIOUS
<1>3. ASSUME NEW i \in 1 .. Len(t) PROVE (s \o t)[Len(s) + i] = t[i]
  <2>1. Len(s) + i \in 1 .. Len(s) + Len(t) /\ ~(Len(s) + i <= Len(s)) /\ Len(s) + i - Len(s) = i
    BY <1>2
  <2> QED BY <1>1, <2>1
<1> QED BY <1>1, <1>2, <1>3

LEMMA Regroup ==
    \A s, t, u \in Seq(Sample) : (s \o t) \o u = s \o (t \o u)
<1> TAKE s, t, u \in Seq(Sample)
<1> QED BY ConcatAssociative

\* The samples of a frame follow each other from decoded on.
LEMMA FrameSamples ==
    ASSUME decoded \in Nat, NEW g \in Nat, NEW size \in Nat
    PROVE  /\ Samples(g, size) \in Seq(Sample)
           /\ Len(Samples(g, size)) = size
           /\ \A i \in 1 .. size : /\ Samples(g, size)[i].num = decoded + i - 1
                                   /\ Samples(g, size)[i].gen = g
<1>1. \A i \in 1 .. size : [num |-> decoded + i - 1, gen |-> g] \in Sample
  BY DEF Sample
<1> QED BY <1>1 DEF Samples

-----------------------------------------------------------------------------
(***************************************************************************)
(* Types                                                                   *)
(***************************************************************************)
\* Moving samples never overfills the cache, and loses none.
LEMMA PushType ==
    ASSUME TypeOK, NEW samples \in Seq(Sample), Push(samples)
    PROVE  /\ cache' \in Seq(Sample) /\ Len(cache') <= Capacity
           /\ buffer' \in Seq(Sample)
           /\ Len(cache') = Len(cache) + Smaller(Free, Len(samples))
           /\ Len(buffer') = Len(samples) - Smaller(Free, Len(samples))
<1> DEFINE moved == Smaller(Free, Len(samples))
<1>1. /\ Free \in Nat /\ Len(samples) \in Nat /\ Len(cache) \in Nat
      /\ cache \in Seq(Sample)
  BY SizeAssumption DEF TypeOK, Free
<1>2. moved \in 0 .. Len(samples) /\ moved <= Free
  <2>1. moved \in Nat /\ moved <= Free /\ moved <= Len(samples)
    BY <1>1, SmallerBounds
  <2> QED BY <1>1, <2>1
<1>3. cache' = cache \o SubSeq(samples, 1, moved)
  BY DEF Push
<1>4. buffer' = SubSeq(samples, moved + 1, Len(samples))
  BY DEF Push
<1>5. SubSeq(samples, 1, moved) \in Seq(Sample) /\ Len(SubSeq(samples, 1, moved)) = moved
  BY <1>2, Cut
<1>6. buffer' \in Seq(Sample) /\ Len(buffer') = Len(samples) - moved
  BY <1>2, <1>4, Cut
<1> HIDE DEF moved
<1>7. cache' \in Seq(Sample) /\ Len(cache') = Len(cache) + moved
  BY <1>1, <1>3, <1>5, ConcatProperties
<1>8. Len(cache') <= Capacity
  BY <1>1, <1>2, <1>7, SizeAssumption DEF Free
<1> QED BY <1>6, <1>7, <1>8 DEF moved

LEMMA ReceiveType ==
    ASSUME TypeOK, NEW held \in Seq(Nat), Receive(held)
    PROVE  /\ codec' \in Seq(Nat) /\ decoded' \in Nat /\ buffer' \in Seq(Sample)
           /\ cache' \in Seq(Sample) /\ Len(cache') <= Capacity
<1>1. CASE held = << >>
  BY <1>1 DEF Receive, TypeOK
<1>2. CASE held # << >>
  <2>1. PICK size \in FrameSizes :
          LET samples == buffer \o Samples(Head(held), size)
          IN  /\ codec' = Tail(held)
              /\ decoded' = decoded + size
              /\ IF Len(samples) >= Threshold
                 THEN Push(samples)
                 ELSE buffer' = samples /\ UNCHANGED cache
    BY <1>2 DEF Receive
  <2> DEFINE samples == buffer \o Samples(Head(held), size)
  <2>2. size \in Nat /\ Head(held) \in Nat /\ Tail(held) \in Seq(Nat)
    BY <1>2, SizeAssumption
  <2>3. samples \in Seq(Sample)
    BY <2>2, FrameSamples, ConcatProperties DEF TypeOK
  <2>4. codec' \in Seq(Nat) /\ decoded' \in Nat
    BY <2>1, <2>2 DEF TypeOK
  <2> HIDE DEF samples
  <2>5. CASE Push(samples)
    BY <2>3, <2>4, <2>5, PushType
  <2>6. CASE buffer' = samples /\ UNCHANGED cache
    BY <2>3, <2>4, <2>6 DEF TypeOK
  <2> QED BY <2>1, <2>5, <2>6 DEF samples
<1> QED BY <1>1, <1>2

\* What the codec holds when a packet was given to it.
LEMMA ReadPacketReceives ==
    ASSUME TypeOK, ReadPacket
    PROVE  \E held \in Seq(Nat) : Receive(held)
<1>1. CASE Receive(codec)
  BY <1>1 DEF TypeOK
<1>2. ASSUME NEW k \in FramesPer, Receive(codec \o [i \in 1 .. k |-> gen])
      PROVE  \E held \in Seq(Nat) : Receive(held)
  <2>1. k \in Nat /\ gen \in Nat /\ codec \in Seq(Nat)
    BY FileAssumption DEF TypeOK
  <2>2. [i \in 1 .. k |-> gen] \in Seq(Nat)
    BY <2>1
  <2>3. codec \o [i \in 1 .. k |-> gen] \in Seq(Nat)
    BY <2>1, <2>2, ConcatProperties
  <2> QED BY <1>2, <2>3
<1> QED BY <1>1, <1>2 DEF ReadPacket

\* What process_audio decides to pop.
LEMMA CountType ==
    ASSUME TypeOK, NEW out \in OutLens
    PROVE  /\ Free - (Free % Channels) \in Nat /\ out \in Nat
           /\ Smaller(Free - (Free % Channels), out) \in Nat
<1>1. Free \in Nat /\ out \in Nat /\ Channels \in Nat \ {0}
  BY SizeAssumption DEF TypeOK, Free
<1>2. Free % Channels \in 0 .. Free
  BY <1>1
<1> QED BY <1>1, <1>2, SmallerBounds

LEMMA TypeInit == Init => TypeOK
<1> SUFFICES ASSUME Init PROVE TypeOK
  OBVIOUS
<1>1. /\ codec \in Seq(Nat) /\ buffer \in Seq(Sample) /\ cache \in Seq(Sample)
      /\ heard \in Seq(Sample) /\ Len(cache) <= Capacity
  BY NoSamples, SizeAssumption DEF Init
<1>2. position \in 0 .. Packets
  BY FileAssumption DEF Init
<1> QED BY <1>1, <1>2 DEF Init, TypeOK

LEMMA TypeStep == TypeOK /\ [Next]_vars => TypeOK'
<1> SUFFICES ASSUME TypeOK, [Next]_vars PROVE TypeOK'
  OBVIOUS
<1>1. CASE UNCHANGED vars
  BY <1>1 DEF TypeOK, vars
<1>2. CASE PollStopped
  BY <1>2 DEF TypeOK, PollStopped, file, view, player
<1>3. CASE PollRead
  BY <1>3 DEF TypeOK, PollRead, file, view, player
<1>4. ASSUME Push(buffer), ReadEnd \/ ReadFailure PROVE TypeOK'
  <2>1. cache' \in Seq(Sample) /\ Len(cache') <= Capacity /\ buffer' \in Seq(Sample)
    BY <1>4, PushType DEF TypeOK
  <2> QED BY <1>4, <2>1 DEF TypeOK, ReadEnd, ReadFailure, file, view, player
<1>5. ASSUME ReadPacket PROVE TypeOK'
  <2>1. PICK held \in Seq(Nat) : Receive(held)
    BY <1>5, ReadPacketReceives
  <2>2. /\ codec' \in Seq(Nat) /\ decoded' \in Nat /\ buffer' \in Seq(Sample)
        /\ cache' \in Seq(Sample) /\ Len(cache') <= Capacity
    BY <2>1, ReceiveType
  <2>3. position' \in 0 .. Packets
    BY <1>5, FileAssumption DEF TypeOK, ReadPacket
  <2> QED BY <1>5, <2>2, <2>3 DEF TypeOK, ReadPacket, view, player
<1>6. ASSUME DecodeFailure PROVE TypeOK'
  <2>1. position' \in 0 .. Packets
    BY <1>6, FileAssumption DEF TypeOK, DecodeFailure
  <2> QED BY <1>6, <2>1 DEF TypeOK, DecodeFailure, view, player
<1>7. CASE Open
  BY <1>7, FileAssumption, NoSamples DEF TypeOK, Open, player
<1>8. CASE OpenFailure
  BY <1>8, NoSamples DEF TypeOK, OpenFailure, view, player
<1>9. CASE Seek
  BY <1>9 DEF TypeOK, Seek, player
<1>10. ASSUME NEW out \in OutLens, ProcessCount(out) PROVE TypeOK'
  BY <1>10, CountType DEF TypeOK, ProcessCount, file, view
<1>11. CASE ProcessPop
  <2> DEFINE count == Smaller(want, Len(cache))
  <2>1. count \in 0 .. Len(cache) /\ cache \in Seq(Sample)
    <3>1. want \in Nat /\ Len(cache) \in Nat /\ cache \in Seq(Sample)
      BY DEF TypeOK
    <3>2. count \in Nat /\ count <= Len(cache)
      BY <3>1, SmallerBounds
    <3> QED BY <3>1, <3>2
  <2>2. /\ heard' = SubSeq(cache, 1, count)
        /\ cache' = SubSeq(cache, count + 1, Len(cache))
    BY <1>11 DEF ProcessPop
  <2>3. /\ heard' \in Seq(Sample) /\ cache' \in Seq(Sample)
        /\ Len(cache') = Len(cache) - count
    BY <2>1, <2>2, Cut
  <2>4. Len(cache') <= Capacity
    <3>1. Len(cache) \in Nat /\ Len(cache) <= Capacity /\ Capacity \in Nat
      BY SizeAssumption DEF TypeOK
    <3> QED BY <2>1, <2>3, <3>1
  <2> QED BY <1>11, <2>3, <2>4 DEF TypeOK, ProcessPop, file, view
<1>12. CASE DropView
  BY <1>12 DEF TypeOK, DropView, file, player
<1> QED
  BY <1>1, <1>2, <1>3, <1>4, <1>5, <1>6, <1>7, <1>8, <1>9, <1>10, <1>11, <1>12
  DEF Next, Read, Process, ReadEnd, ReadFailure

\* The cache never holds more samples than its capacity, the file is never read
\* beyond its end, and every variable keeps its type (push_slice, read_packet).
THEOREM TypeCorrect == Spec => []TypeOK
<1> QED BY TypeInit, TypeStep, PTL DEF Spec

-----------------------------------------------------------------------------
(***************************************************************************)
(* Room in the cache                                                       *)
(***************************************************************************)
\* Between the check of the free space and the moving of the samples nothing
\* but the view touches the cache, and it only makes room.
RoomKept == Free >= Channels /\ Len(buffer) < Threshold /\ (reading => Hungry)
RoomInv == TypeOK /\ (Roomy => RoomKept)

\* A third of a hungry cache is free: it takes everything the buffer may hold.
LEMMA HungryTakesAll ==
    ASSUME TypeOK, Roomy, Hungry, NEW size \in FrameSizes,
           NEW n \in Nat, n <= MaxMoved(size)
    PROVE  Smaller(Free, n) = n /\ Free - n >= Channels
<1>1. /\ Free \in Nat /\ Len(cache) \in Nat /\ Free + Len(cache) = Capacity
      /\ size \in Nat /\ Threshold \in Nat /\ Channels \in Nat
  BY SizeAssumption DEF TypeOK, Free
<1>2. Free > Len(cache) \div 2
  BY DEF Hungry
<1>3. 3 * Free >= Free + Len(cache)
  BY <1>1, <1>2
<1>4. 3 * (Threshold - 1 + size + Channels) <= Free + Len(cache)
  BY <1>1 DEF Roomy, MaxMoved
<1>5. Free >= n + Channels
  BY <1>1, <1>3, <1>4 DEF MaxMoved
<1> QED BY <1>1, <1>5 DEF Smaller

\* Moving samples to a hungry cache leaves nothing in the buffer.
LEMMA ReceiveTypes ==
    ASSUME TypeOK, NEW held \in Seq(Nat), held # << >>, NEW size \in FrameSizes
    PROVE  /\ size \in Nat /\ Threshold \in Nat \ {0} /\ decoded \in Nat
           /\ Head(held) \in Nat /\ held[1] \in Nat /\ Head(held) = held[1]
           /\ buffer \in Seq(Sample) /\ cache \in Seq(Sample) /\ Len(buffer) \in Nat
<1>1. Head(held) \in Nat /\ held[1] \in Nat /\ Head(held) = held[1]
  OBVIOUS
<1>2. buffer \in Seq(Sample) /\ cache \in Seq(Sample) /\ decoded \in Nat
  BY DEF TypeOK
<1>3. size \in Nat /\ Threshold \in Nat \ {0}
  BY SizeAssumption
<1> QED BY <1>1, <1>2, <1>3

LEMMA PushAll ==
    ASSUME TypeOK, Roomy, Hungry, NEW size \in FrameSizes,
           NEW samples \in Seq(Sample), Len(samples) <= MaxMoved(size),
           Push(samples)
    PROVE  Len(buffer') = 0 /\ Len(cache') = Len(cache) + Len(samples)
           /\ Capacity - Len(cache') >= Channels
<1>1. Len(samples) \in Nat /\ Len(cache) \in Nat /\ Capacity \in Nat /\ Channels \in Nat
  BY SizeAssumption DEF TypeOK
<1>2. Smaller(Free, Len(samples)) = Len(samples) /\ Free - Len(samples) >= Channels
  BY <1>1, HungryTakesAll
<1>3. /\ Len(cache') = Len(cache) + Smaller(Free, Len(samples))
      /\ Len(buffer') = Len(samples) - Smaller(Free, Len(samples))
  BY PushType
<1> QED BY <1>1, <1>2, <1>3 DEF Free

\* The samples receive_frame is left with, before and after they are moved.
LEMMA ReceiveRoom ==
    ASSUME TypeOK, Roomy, RoomKept, Hungry, NEW held \in Seq(Nat), Receive(held)
    PROVE  Len(buffer') < Threshold /\ Capacity - Len(cache') >= Channels
<1>1. CASE held = << >>
  BY <1>1 DEF Receive, RoomKept, Free
<1>2. CASE held # << >>
  <2>1. PICK size \in FrameSizes :
          LET samples == buffer \o Samples(Head(held), size)
          IN  /\ codec' = Tail(held)
              /\ decoded' = decoded + size
              /\ IF Len(samples) >= Threshold
                 THEN Push(samples)
                 ELSE buffer' = samples /\ UNCHANGED cache
    BY <1>2 DEF Receive
  <2> DEFINE samples == buffer \o Samples(Head(held), size)
  <2>2. /\ size \in Nat /\ Head(held) \in Nat /\ Threshold \in Nat \ {0}
        /\ Len(buffer) \in Nat /\ buffer \in Seq(Sample) /\ decoded \in Nat
    BY <1>2, ReceiveTypes
  <2>3. Samples(Head(held), size) \in Seq(Sample) /\ Len(Samples(Head(held), size)) = size
    BY <2>2, FrameSamples
  <2>4. samples \in Seq(Sample) /\ Len(samples) = Len(buffer) + size
    BY <2>2, <2>3, ConcatProperties
  <2>5. Len(samples) <= MaxMoved(size)
    BY <2>2, <2>4 DEF MaxMoved, RoomKept
  <2> HIDE DEF samples
  <2>6. CASE Len(samples) >= Threshold
    <3>1. Push(samples)
      BY <2>1, <2>6 DEF samples
    <3>2. Capacity - Len(cache') >= Channels /\ Len(buffer') = 0
      BY <2>4, <2>5, <3>1, PushAll
    <3> QED BY <2>2, <3>2 DEF RoomKept, Free
  <2>7. CASE ~ (Len(samples) >= Threshold)
    <3>1. buffer' = samples /\ cache' = cache
      BY <2>1, <2>7 DEF samples
    <3>2. Len(buffer') < Threshold
      BY <2>2, <2>4, <2>7, <3>1
    <3> QED BY <3>1, <3>2 DEF RoomKept, Free
  <2> QED BY <2>6, <2>7
<1> QED BY <1>1, <1>2

LEMMA RoomInit == Init => RoomInv
<1> SUFFICES ASSUME Init PROVE RoomInv
  OBVIOUS
<1>1. TypeOK /\ (Roomy => Len(buffer) < Threshold)
  BY TypeInit, NoSamples, SizeAssumption DEF Init
<1>2. ASSUME Roomy PROVE Free >= Channels
  <2>1. PICK size \in FrameSizes : TRUE
    BY SizeAssumption
  <2>2. /\ 3 * (Threshold - 1 + size + Channels) <= Capacity /\ Len(cache) = 0
        /\ size \in Nat /\ Threshold \in Nat \ {0} /\ Channels \in Nat /\ Capacity \in Nat
    BY <1>2, <2>1, NoSamples, SizeAssumption DEF Roomy, MaxMoved, Init
  <2> QED BY <2>2 DEF Free
<1> QED BY <1>1, <1>2 DEF RoomInv, RoomKept, Init

LEMMA RoomStep == RoomInv /\ [Next]_vars => RoomInv'
<1> SUFFICES ASSUME RoomInv, [Next]_vars PROVE RoomInv'
  OBVIOUS
<1>0. TypeOK' /\ (Roomy' <=> Roomy)
  BY TypeStep DEF RoomInv, Roomy, MaxMoved
<1> SUFFICES ASSUME Roomy PROVE RoomKept'
  BY <1>0 DEF RoomInv
<1> USE DEF RoomInv
<1>1. /\ RoomKept /\ TypeOK /\ Len(cache) \in Nat /\ Len(cache) <= Capacity
      /\ Capacity \in Nat /\ Channels \in Nat \ {0} /\ Threshold \in Nat \ {0}
  BY SizeAssumption DEF TypeOK
<1>2. ASSUME UNCHANGED <<cache, buffer>>, reading' => reading \/ Hungry PROVE RoomKept'
  BY <1>1, <1>2 DEF RoomKept, Free, Hungry
<1>3. CASE UNCHANGED vars
  BY <1>2, <1>3 DEF vars
<1>4. CASE PollStopped \/ PollRead \/ DropView
  BY <1>2, <1>4 DEF PollStopped, PollRead, DropView, file
<1>5. ASSUME Push(buffer), reading, ~reading' PROVE RoomKept'
  <2>1. PICK size \in FrameSizes : TRUE
    BY SizeAssumption
  <2>2. buffer \in Seq(Sample) /\ Len(buffer) <= MaxMoved(size)
    <3>1. size \in Nat /\ Len(buffer) \in Nat /\ Len(buffer) < Threshold
      BY <1>1, <2>1, SizeAssumption DEF TypeOK, RoomKept
    <3> QED BY <1>1, <3>1 DEF TypeOK, MaxMoved
  <2>3. Hungry
    BY <1>1, <1>5 DEF RoomKept
  <2>4. Len(buffer') = 0 /\ Capacity - Len(cache') >= Channels
    BY <1>1, <1>5, <2>1, <2>2, <2>3, PushAll
  <2> QED BY <1>1, <1>5, <2>4 DEF RoomKept, Free
<1>6. CASE ReadEnd \/ ReadFailure
  BY <1>5, <1>6 DEF ReadEnd, ReadFailure
<1>7. ASSUME ReadPacket PROVE RoomKept'
  <2>1. PICK held \in Seq(Nat) : Receive(held)
    BY <1>1, <1>7, ReadPacketReceives
  <2>2. reading /\ ~reading'
    BY <1>7 DEF ReadPacket
  <2>3. Len(buffer') < Threshold /\ Capacity - Len(cache') >= Channels
    BY <1>1, <2>1, <2>2, ReceiveRoom DEF RoomKept
  <2> QED BY <2>2, <2>3 DEF RoomKept, Free
<1>8. ASSUME DecodeFailure PROVE RoomKept'
  BY <1>2, <1>8 DEF DecodeFailure
\* The actions of the view never add to the cache or to the buffer.
<1>9. ASSUME cache' = cache \/ (Len(cache') \in Nat /\ Len(cache') <= Len(cache)),
             buffer' = buffer \/ buffer' = << >>, reading' = reading
      PROVE  RoomKept'
  <2>1. Len(cache') \in Nat /\ Len(cache') <= Len(cache)
    BY <1>1, <1>9
  <2>2. Capacity - Len(cache') >= Channels
    BY <1>1, <2>1 DEF RoomKept, Free
  <2>3. Len(buffer') < Threshold
    BY <1>1, <1>9, NoSamples DEF RoomKept
  <2>4. reading => Capacity - Len(cache') > Len(cache') \div 2
    BY <1>1, <2>1 DEF RoomKept, Hungry, Free
  <2> QED BY <1>9, <2>2, <2>3, <2>4 DEF RoomKept, Free, Hungry
<1>10. CASE Open \/ OpenFailure
  BY <1>9, <1>10 DEF Open, OpenFailure
<1>11. CASE Seek
  BY <1>9, <1>11 DEF Seek
<1>12. ASSUME NEW out \in OutLens, ProcessCount(out) PROVE RoomKept'
  BY <1>2, <1>12 DEF ProcessCount
<1>13. CASE ProcessPop
  <2> DEFINE count == Smaller(want, Len(cache))
  <2>1. want \in Nat /\ cache \in Seq(Sample)
    BY <1>1 DEF TypeOK
  <2>2. count \in Nat /\ count <= Len(cache)
    BY <1>1, <2>1, SmallerBounds
  <2>3. count \in 0 .. Len(cache) /\ cache' = SubSeq(cache, count + 1, Len(cache))
    BY <1>1, <1>13, <2>2 DEF ProcessPop
  <2>4. Len(cache') = Len(cache) - count
    BY <2>1, <2>3, Cut
  <2>5. Len(cache') \in Nat /\ Len(cache') <= Len(cache)
    BY <1>1, <2>2, <2>4
  <2> QED BY <1>9, <1>13, <2>5 DEF ProcessPop
<1> QED
  BY <1>3, <1>4, <1>6, <1>7, <1>8, <1>10, <1>11, <1>12, <1>13
  DEF Next, Read, Process

\* A roomy cache is never full when process_audio asks for the room in it, so
\* that it never pops nothing because of that, and playing goes on.
THEOREM RoomToPlay == Spec => []NeverFull
<1>1. RoomInv => NeverFull
  BY DEF RoomInv, RoomKept, NeverFull
<1> QED BY <1>1, RoomInit, RoomStep, PTL DEF Spec

\* With a roomy cache the buffer of the reader never keeps as many samples as it
\* is moved at: what a seek leaves of the old place in it, which is played
\* before the new one, is less than the threshold (data_received, seek).
THEOREM LittleBuffered == Roomy => (Spec => [](Len(buffer) < Threshold))
<1> SUFFICES ASSUME Roomy PROVE Spec => [](Len(buffer) < Threshold)
  OBVIOUS
<1>1. RoomInv => Len(buffer) < Threshold
  BY DEF RoomInv, RoomKept
<1> QED BY <1>1, RoomInit, RoomStep, PTL DEF Spec

-----------------------------------------------------------------------------
(***************************************************************************)
(* Channels                                                                *)
(***************************************************************************)
\* Numbers of samples that are the same for every channel.
Multiples == {n \in Int : n % Channels = 0}

LEMMA MultipleOf == ASSUME NEW n \in Int PROVE n \in Multiples <=> \E k \in Int : n = Channels * k
<1>1. Channels \in Nat \ {0}
  BY SizeAssumption
<1>2. n = Channels * (n \div Channels) + (n % Channels) /\ n \div Channels \in Int
  BY <1>1
<1>3. ASSUME NEW k \in Int, n = Channels * k PROVE n % Channels = 0
  BY <1>1, <1>3
<1>4. ASSUME n % Channels = 0 PROVE \E k \in Int : n = Channels * k
  <2>1. n = Channels * (n \div Channels)
    BY <1>1, <1>2, <1>4
  <2> QED BY <1>2, <2>1
<1> QED BY <1>3, <1>4 DEF Multiples

LEMMA MultiplesClosed ==
    ASSUME NEW a \in Multiples, NEW b \in Multiples
    PROVE  a + b \in Multiples /\ a - b \in Multiples
<1>1. a \in Int /\ b \in Int /\ Channels \in Int
  BY SizeAssumption DEF Multiples
<1>2. PICK j \in Int, k \in Int : a = Channels * j /\ b = Channels * k
  BY <1>1, MultipleOf
<1>3. a + b = Channels * (j + k) /\ a - b = Channels * (j - k)
  BY <1>1, <1>2
<1> QED BY <1>1, <1>2, <1>3, MultipleOf

\* The samples of a sequence are those of the first, the second ... channel,
\* again and again, and the last one is of the last channel.
Aligns(s) ==
    Len(s) \in Multiples /\ \A i \in 1 .. Len(s) : s[i].num - (i - 1) \in Multiples

LEMMA AlignsEmpty == 0 \in Multiples /\ Aligns(<< >>)
<1>1. 0 \in Multiples
  BY SizeAssumption DEF Multiples
<1> QED BY <1>1 DEF Aligns

LEMMA AlignsAt ==
    ASSUME NEW s \in Seq(Sample), Aligns(s), NEW j \in 1 .. Len(s)
    PROVE  s[j].num - (j - 1) \in Multiples /\ s[j].num \in Nat
<1>1. s[j] \in Sample
  OBVIOUS
<1> QED BY <1>1 DEF Aligns, Sample

LEMMA AlignsConcat ==
    ASSUME NEW s \in Seq(Sample), NEW t \in Seq(Sample), Aligns(s), Aligns(t)
    PROVE  s \o t \in Seq(Sample) /\ Aligns(s \o t)
<1> DEFINE u == s \o t
<1>1. /\ Len(s) \in Multiples /\ Len(t) \in Multiples
      /\ Len(s) \in Nat /\ Len(t) \in Nat
  BY DEF Aligns
<1>2. /\ u \in Seq(Sample) /\ Len(u) = Len(s) + Len(t)
      /\ \A i \in 1 .. Len(u) : u[i] = IF i <= Len(s) THEN s[i] ELSE t[i - Len(s)]
  BY ConcatProperties
<1> HIDE DEF u
<1>3. Len(u) \in Multiples
  BY <1>1, <1>2, MultiplesClosed
<1>4. ASSUME NEW i \in 1 .. Len(u) PROVE u[i].num - (i - 1) \in Multiples
  <2>1. CASE i <= Len(s)
    BY <1>1, <1>2, <2>1 DEF Aligns
  <2>2. CASE ~ (i <= Len(s))
    <3>1. i - Len(s) \in 1 .. Len(t) /\ u[i] = t[i - Len(s)]
      BY <1>1, <1>2, <2>2
    <3>2. t[i - Len(s)].num - ((i - Len(s)) - 1) \in Multiples /\ t[i - Len(s)].num \in Nat
      BY <3>1, AlignsAt
    <3>3. (t[i - Len(s)].num - ((i - Len(s)) - 1)) - Len(s) \in Multiples
      BY <1>1, <3>2, MultiplesClosed
    <3>4. (t[i - Len(s)].num - ((i - Len(s)) - 1)) - Len(s) = t[i - Len(s)].num - (i - 1)
      <4>1. \A a, b, c \in Int : (a - ((b - c) - 1)) - c = a - (b - 1)
        OBVIOUS
      <4>2. t[i - Len(s)].num \in Int /\ i \in Int /\ Len(s) \in Int
        BY <1>1, <3>2
      <4> QED BY <4>1, <4>2, Zenon
    <3> QED BY <3>1, <3>3, <3>4
  <2> QED BY <2>1, <2>2
<1> QED BY <1>2, <1>3, <1>4 DEF Aligns, u

\* A cut between frames leaves two aligned parts.
LEMMA AlignsCut ==
    ASSUME NEW s \in Seq(Sample), Aligns(s), NEW n \in 0 .. Len(s), n \in Multiples
    PROVE  Aligns(SubSeq(s, 1, n)) /\ Aligns(SubSeq(s, n + 1, Len(s)))
<1> DEFINE front == SubSeq(s, 1, n)
           rest == SubSeq(s, n + 1, Len(s))
<1>1. /\ Len(front) = n /\ Len(rest) = Len(s) - n
      /\ \A i \in 1 .. n : front[i] = s[i]
      /\ \A i \in 1 .. Len(s) - n : rest[i] = s[n + i]
  BY Cut
<1>2. Len(s) \in Nat /\ Len(s) \in Multiples /\ n \in Nat
  BY DEF Aligns
<1> HIDE DEF front, rest
<1>3. Aligns(front)
  BY <1>1, <1>2 DEF Aligns
<1>4. Len(rest) \in Multiples
  BY <1>1, <1>2, MultiplesClosed
<1>5. ASSUME NEW i \in 1 .. Len(rest) PROVE rest[i].num - (i - 1) \in Multiples
  <2>1. n + i \in 1 .. Len(s) /\ rest[i] = s[n + i]
    BY <1>1, <1>2
  <2>2. s[n + i].num - ((n + i) - 1) \in Multiples /\ s[n + i].num \in Nat
    BY <2>1, AlignsAt
  <2>3. (s[n + i].num - ((n + i) - 1)) + n \in Multiples
    BY <2>2, MultiplesClosed
  <2> QED BY <1>1, <1>2, <2>1, <2>2, <2>3
<1> QED BY <1>3, <1>4, <1>5 DEF Aligns, front, rest

LEMMA AlignsFrame ==
    ASSUME decoded \in Nat, decoded \in Multiples, NEW g \in Nat, NEW size \in FrameSizes
    PROVE  /\ Samples(g, size) \in Seq(Sample) /\ Aligns(Samples(g, size))
           /\ decoded + size \in Multiples
<1> DEFINE s == Samples(g, size)
<1>1. size \in Nat /\ size \in Multiples
  BY SizeAssumption DEF Multiples
<1>2. /\ s \in Seq(Sample) /\ Len(s) = size
      /\ \A i \in 1 .. size : s[i].num = decoded + i - 1
  BY <1>1, FrameSamples
<1> HIDE DEF s
<1>3. \A i \in 1 .. Len(s) : s[i].num - (i - 1) = decoded
  BY <1>1, <1>2
<1>4. decoded + size \in Multiples
  BY <1>1, MultiplesClosed
<1> QED BY <1>1, <1>2, <1>3, <1>4 DEF Aligns, s

\* The samples of a sequence take turns and the last one is of the last channel.
Ends(s) == \A i \in 1 .. Len(s) : s[i].num - (i - 1) + Len(s) \in Multiples

LEMMA EndsAt ==
    ASSUME NEW s \in Seq(Sample), Ends(s), NEW j \in 1 .. Len(s)
    PROVE  s[j].num - (j - 1) + Len(s) \in Multiples /\ s[j].num \in Nat
<1>1. s[j] \in Sample
  OBVIOUS
<1> QED BY <1>1 DEF Ends, Sample

\* Whole frames may follow.
LEMMA EndsConcat ==
    ASSUME NEW s \in Seq(Sample), NEW t \in Seq(Sample), Ends(s), Aligns(t)
    PROVE  Ends(s \o t)
<1> DEFINE u == s \o t
<1>1. /\ u \in Seq(Sample) /\ Len(u) = Len(s) + Len(t)
      /\ Len(s) \in Nat /\ Len(t) \in Nat /\ Len(t) \in Multiples
      /\ \A i \in 1 .. Len(u) : u[i] = IF i <= Len(s) THEN s[i] ELSE t[i - Len(s)]
  BY ConcatProperties DEF Aligns
<1> HIDE DEF u
<1>2. ASSUME NEW i \in 1 .. Len(u) PROVE u[i].num - (i - 1) + Len(u) \in Multiples
  <2>1. CASE i <= Len(s)
    <3>1. i \in 1 .. Len(s) /\ u[i] = s[i]
      BY <1>1, <2>1
    <3>2. s[i].num - (i - 1) + Len(s) \in Multiples /\ s[i].num \in Nat
      BY <3>1, EndsAt
    <3>3. (s[i].num - (i - 1) + Len(s)) + Len(t) \in Multiples
      BY <1>1, <3>2, MultiplesClosed
    <3> QED BY <1>1, <3>1, <3>2, <3>3
  <2>2. CASE ~ (i <= Len(s))
    <3>1. i - Len(s) \in 1 .. Len(t) /\ u[i] = t[i - Len(s)]
      BY <1>1, <2>2
    <3>2. t[i - Len(s)].num - ((i - Len(s)) - 1) \in Multiples /\ t[i - Len(s)].num \in Nat
      BY <3>1, AlignsAt
    <3>3. (t[i - Len(s)].num - ((i - Len(s)) - 1)) + Len(t) \in Multiples
      BY <1>1, <3>2, MultiplesClosed
    <3>4. PICK n \in Nat, a \in Nat : n = t[i - Len(s)].num /\ a = Len(s)
      BY <1>1, <3>2
    <3>5. (n - ((i - a) - 1)) + Len(t) \in Multiples
      BY <3>3, <3>4
    <3>6. (n - ((i - a) - 1)) + Len(t) = n - (i - 1) + (a + Len(t))
      <4>1. \A b, d \in Int : (n - ((b - a) - 1)) + d = n - (b - 1) + (a + d)
        OBVIOUS
      <4>2. i \in Int /\ Len(t) \in Int
        BY <1>1
      <4> QED BY <4>1, <4>2, Zenon
    <3>7. u[i].num = n /\ Len(u) = a + Len(t)
      BY <1>1, <3>1, <3>4
    <3> QED BY <3>5, <3>6, <3>7
  <2> QED BY <2>1, <2>2
<1> QED BY <1>2 DEF Ends, u

\* What is left when the first samples are gone ends as before.
LEMMA EndsRest ==
    ASSUME NEW s \in Seq(Sample), NEW t \in Seq(Sample), Ends(s \o t)
    PROVE  Ends(t)
<1> DEFINE u == s \o t
<1>1. /\ u \in Seq(Sample) /\ Len(u) = Len(s) + Len(t) /\ Len(s) \in Nat /\ Len(t) \in Nat
      /\ \A i \in 1 .. Len(t) : u[Len(s) + i] = t[i]
  BY Parts
<1>2. Ends(u)
  OBVIOUS
<1> HIDE DEF u
<1>3. ASSUME NEW i \in 1 .. Len(t) PROVE t[i].num - (i - 1) + Len(t) \in Multiples
  <2>1. Len(s) + i \in 1 .. Len(u) /\ u[Len(s) + i] = t[i]
    BY <1>1
  <2>2. t[i].num - ((Len(s) + i) - 1) + (Len(s) + Len(t)) \in Multiples /\ t[i].num \in Nat
    BY <1>1, <1>2, <2>1, EndsAt
  <2> QED BY <1>1, <2>2
<1> QED BY <1>3 DEF Ends

LEMMA EndsInTurn ==
    ASSUME NEW s \in Seq(Sample), Ends(s)
    PROVE  InTurn(s)
<1> SUFFICES ASSUME NEW i \in 1 .. Len(s) - 1
             PROVE  s[i + 1].num - s[i].num - 1 \in Multiples
  BY DEF InTurn, Multiples
<1> DEFINE a == s[i].num
           b == s[i + 1].num
           n == Len(s)
<1>1. i \in 1 .. Len(s) /\ i + 1 \in 1 .. Len(s) /\ n \in Nat /\ i \in Nat
  OBVIOUS
<1>2. /\ a - (i - 1) + n \in Multiples /\ a \in Nat
      /\ b - ((i + 1) - 1) + n \in Multiples /\ b \in Nat
  BY <1>1, EndsAt
<1> HIDE DEF a, b, n
<1>3. (b - ((i + 1) - 1) + n) - (a - (i - 1) + n) \in Multiples
  BY <1>2, MultiplesClosed
<1>4. (b - ((i + 1) - 1) + n) - (a - (i - 1) + n) = b - a - 1
  BY <1>1, <1>2
<1> QED BY <1>3, <1>4 DEF a, b

\* What ends with a frame starts with one exactly if it holds whole frames.
LEMMA EndsStarts ==
    ASSUME NEW s \in Seq(Sample), Ends(s)
    PROVE  Starts(s) <=> Len(s) \in Multiples
<1>1. CASE s = << >>
  BY <1>1, AlignsEmpty DEF Starts
<1>2. CASE s # << >>
  <2>1. 1 \in 1 .. Len(s) /\ Len(s) \in Nat
    BY <1>2
  <2>2. s[1].num - (1 - 1) + Len(s) \in Multiples /\ s[1].num \in Nat
    BY <2>1, EndsAt
  <2>3. s[1].num + Len(s) \in Multiples /\ (Starts(s) <=> s[1].num \in Multiples)
    BY <1>2, <2>1, <2>2 DEF Starts, Multiples
  <2>4. ASSUME s[1].num \in Multiples PROVE Len(s) \in Multiples
    <3>1. (s[1].num + Len(s)) - s[1].num \in Multiples
      BY <2>3, <2>4, MultiplesClosed
    <3> QED BY <2>1, <2>2, <3>1
  <2>5. ASSUME Len(s) \in Multiples PROVE s[1].num \in Multiples
    <3>1. (s[1].num + Len(s)) - Len(s) \in Multiples
      BY <2>3, <2>5, MultiplesClosed
    <3> QED BY <2>1, <2>2, <3>1
  <2> QED BY <1>2, <2>1, <2>2, <2>3, <2>4, <2>5
<1> QED BY <1>1, <1>2

\* The cache ends with a frame, what follows it is of whole frames, and what is
\* popped too, but for an output that is filled.
WholeOutputs == Capacity \in Multiples /\ OutLens \subseteq Multiples
AlignKept ==
    /\ decoded \in Multiples /\ Aligns(buffer) /\ Ends(heard \o cache)
    /\ want \in Multiples \cup OutLens
    /\ WholeOutputs => Len(cache) \in Multiples /\ want \in Multiples
AlignInv == RoomInv /\ (WholeMoves => AlignKept)

\* As long as samples are only moved to a hungry roomy cache, or the cache is
\* of whole frames, whole frames are moved.
Fits == (Roomy /\ RoomKept /\ Hungry) \/ (Capacity \in Multiples /\ Len(cache) \in Multiples)

LEMMA MovedFrames ==
    ASSUME TypeOK, Fits, NEW size \in FrameSizes,
           NEW n \in Nat, Roomy => n <= MaxMoved(size), n \in Multiples
    PROVE  Smaller(Free, n) \in Multiples
<1>1. CASE Roomy /\ RoomKept /\ Hungry
  BY <1>1, HungryTakesAll
<1>2. CASE Capacity \in Multiples /\ Len(cache) \in Multiples
  <2>1. Free \in Multiples
    BY <1>2, MultiplesClosed DEF Free
  <2> QED BY <2>1 DEF Smaller
<1> QED BY <1>1, <1>2 DEF Fits

LEMMA PushAligns ==
    ASSUME TypeOK, Ends(heard \o cache), UNCHANGED heard,
           NEW samples \in Seq(Sample), Aligns(samples),
           Smaller(Free, Len(samples)) \in Multiples, Push(samples)
    PROVE  /\ Ends(heard' \o cache') /\ Aligns(buffer')
           /\ Len(cache') - Len(cache) \in Multiples
<1> DEFINE moved == Smaller(Free, Len(samples))
           front == SubSeq(samples, 1, moved)
<1>1. Free \in Nat /\ Len(samples) \in Nat /\ cache \in Seq(Sample) /\ heard \in Seq(Sample)
  BY SizeAssumption DEF TypeOK, Free
<1>2. moved \in 0 .. Len(samples)
  <2>1. moved \in Nat /\ moved <= Len(samples)
    BY <1>1, SmallerBounds
  <2> QED BY <1>1, <2>1
<1>3. cache' = cache \o front /\ buffer' = SubSeq(samples, moved + 1, Len(samples))
  BY DEF Push
<1>4. moved \in Multiples
  OBVIOUS
<1> HIDE DEF moved
<1>5. /\ Aligns(front) /\ front \in Seq(Sample) /\ Len(front) = moved
      /\ Aligns(SubSeq(samples, moved + 1, Len(samples)))
  BY <1>2, <1>4, AlignsCut, Cut
<1> HIDE DEF front
<1>6. heard' \o cache' = (heard \o cache) \o front /\ heard \o cache \in Seq(Sample)
  BY <1>1, <1>3, <1>5, Regroup, Parts
<1>7. Ends((heard \o cache) \o front)
  BY <1>5, <1>6, EndsConcat
<1>8. Len(cache') - Len(cache) = moved
  <2>1. Len(cache \o front) = Len(cache) + moved /\ Len(cache) \in Nat
    BY <1>1, <1>5, Parts
  <2> QED BY <1>2, <1>3, <2>1
<1> QED BY <1>3, <1>4, <1>5, <1>6, <1>7, <1>8

LEMMA ReceiveAligns ==
    ASSUME TypeOK, AlignKept, Fits, Roomy => RoomKept, UNCHANGED heard,
           NEW held \in Seq(Nat), Receive(held)
    PROVE  /\ Ends(heard' \o cache') /\ Aligns(buffer') /\ decoded' \in Multiples
           /\ cache' = cache \/ Len(cache') - Len(cache) \in Multiples
<1>1. CASE held = << >>
  BY <1>1 DEF Receive, AlignKept
<1>2. CASE held # << >>
  <2>1. PICK size \in FrameSizes :
          LET samples == buffer \o Samples(Head(held), size)
          IN  /\ codec' = Tail(held)
              /\ decoded' = decoded + size
              /\ IF Len(samples) >= Threshold
                 THEN Push(samples)
                 ELSE buffer' = samples /\ UNCHANGED cache
    BY <1>2 DEF Receive
  <2> DEFINE frame == Samples(Head(held), size)
             samples == buffer \o frame
  <2>2. /\ size \in Nat /\ Head(held) \in Nat /\ Threshold \in Nat \ {0}
        /\ Len(buffer) \in Nat /\ buffer \in Seq(Sample) /\ decoded \in Nat
    BY <1>2, ReceiveTypes
  <2>3. frame \in Seq(Sample) /\ Len(frame) = size
    BY <2>2, FrameSamples
  <2>4. Aligns(frame) /\ decoded' \in Multiples
    BY <2>1, <2>2, AlignsFrame DEF AlignKept
  <2> HIDE DEF frame
  <2>5. samples \in Seq(Sample) /\ Aligns(samples)
    BY <2>2, <2>3, <2>4, AlignsConcat DEF AlignKept
  <2>6. Len(samples) = Len(buffer) + size
    BY <2>2, <2>3, ConcatProperties
  <2> HIDE DEF samples
  <2>7. CASE Len(samples) >= Threshold
    <3>1. Push(samples)
      BY <2>1, <2>7 DEF samples, frame
    <3>2. /\ Len(samples) \in Nat /\ Len(samples) \in Multiples
          /\ Roomy => Len(samples) <= MaxMoved(size)
      BY <2>2, <2>5, <2>6 DEF MaxMoved, Aligns, RoomKept
    <3>3. Smaller(Free, Len(samples)) \in Multiples
      BY <3>2, MovedFrames
    <3> QED BY <2>4, <2>5, <3>1, <3>3, PushAligns DEF AlignKept
  <2>8. CASE ~ (Len(samples) >= Threshold)
    <3>1. buffer' = samples /\ cache' = cache
      BY <2>1, <2>8 DEF samples, frame
    <3> QED BY <2>4, <2>5, <3>1 DEF AlignKept
  <2> QED BY <2>7, <2>8
<1> QED BY <1>1, <1>2

LEMMA AlignInit == Init => AlignInv
<1> SUFFICES ASSUME Init PROVE AlignInv
  OBVIOUS
<1>1. RoomInv /\ heard \o cache = << >>
  BY RoomInit, ConcatEmptySeq, NoSamples DEF Init
<1>2. Ends(<< >>)
  BY NoSamples DEF Ends
<1> QED BY <1>1, <1>2, AlignsEmpty, NoSamples DEF AlignInv, AlignKept, Init

LEMMA WholeMovesMeans ==
    /\ WholeMoves => Roomy \/ WholeOutputs
    /\ WholeMoves' = WholeMoves
<1>1. ASSUME WholeMoves PROVE Roomy \/ WholeOutputs
  BY <1>1, SizeAssumption DEF WholeMoves, WholeOutputs, Multiples
<1> QED BY <1>1 DEF WholeMoves, Roomy, MaxMoved

\* What process_audio pops, when it is not an output that it fills, is whole frames
\* or all there is.
LEMMA PopAligns ==
    ASSUME TypeOK, AlignKept, ProcessPop
    PROVE  /\ Ends(heard' \o cache')
           /\ WholeOutputs => Len(cache') \in Multiples
           /\ Starts(cache) => Starts(cache') \/ CutsFrame
<1> DEFINE count == Smaller(want, Len(cache))
<1>1. want \in Nat /\ Len(cache) \in Nat /\ cache \in Seq(Sample) /\ heard \in Seq(Sample)
  BY DEF TypeOK
<1>2. count \in 0 .. Len(cache) /\ (count = want \/ count = Len(cache))
  <2>1. count \in Nat /\ count <= Len(cache)
    BY <1>1, SmallerBounds
  <2> QED BY <1>1, <2>1 DEF Smaller
<1>3. heard' = SubSeq(cache, 1, count) /\ cache' = SubSeq(cache, count + 1, Len(cache))
  BY DEF ProcessPop
<1> HIDE DEF count
<1>4. /\ heard' \in Seq(Sample) /\ cache' \in Seq(Sample)
      /\ Len(heard') = count /\ Len(cache') = Len(cache) - count
      /\ heard' \o cache' = cache
  BY <1>1, <1>2, <1>3, Cut, CutJoin
<1>5. Ends(cache)
  BY <1>1, EndsRest DEF AlignKept
<1>6. Ends(cache')
  <2>1. PICK p \in Seq(Sample), q \in Seq(Sample) : p = heard' /\ q = cache'
    BY <1>4
  <2>2. p \o q = cache
    BY <1>4, <2>1
  <2>3. Ends(p \o q)
    BY <1>5, <2>2, Zenon
  <2> QED BY <2>1, <2>3, EndsRest
<1>7. ASSUME Len(cache) \in Multiples PROVE Len(cache') \in Multiples \/ want \notin Multiples
  <2>1. count = Len(cache) => Len(cache') = 0
    BY <1>1, <1>4
  <2>2. count = want /\ want \in Multiples => Len(cache') \in Multiples
    BY <1>4, <1>7, MultiplesClosed
  <2> QED BY <1>2, <2>1, <2>2, AlignsEmpty
<1>8. ASSUME Starts(cache), ~ Starts(cache') PROVE CutsFrame
  <2>1. Len(cache) \in Multiples /\ Len(cache') \notin Multiples
    <3>1. PICK q \in Seq(Sample) : q = cache'
      BY <1>4
    <3>2. Ends(q) /\ ~ Starts(q)
      BY <1>6, <1>8, <3>1
    <3>3. Len(q) \notin Multiples
      BY <3>2, EndsStarts
    <3> QED BY <1>1, <1>5, <1>8, <3>1, <3>3, EndsStarts
  <2>2. want \notin Multiples /\ want \in OutLens
    BY <1>7, <2>1 DEF AlignKept
  <2>3. count # Len(cache)
    BY <1>1, <1>4, <2>1, AlignsEmpty
  <2> QED BY <1>1, <1>2, <1>4, <2>2, <2>3 DEF CutsFrame, Multiples
<1> QED BY <1>4, <1>5, <1>7, <1>8 DEF AlignKept

\* The invariant, and what a step does to the start of the cache.
LEMMA AlignStep ==
    ASSUME AlignInv, [Next]_vars
    PROVE  /\ AlignInv'
           /\ WholeMoves => \/ cache' = cache
                            \/ Len(cache') - Len(cache) \in Multiples
                            \/ ProcessPop
<1>0. RoomInv' /\ (WholeMoves' <=> WholeMoves)
  BY RoomStep, WholeMovesMeans DEF AlignInv
<1> DEFINE Turns == cache' = cache \/ Len(cache') - Len(cache) \in Multiples
<1> SUFFICES ASSUME WholeMoves PROVE AlignKept' /\ (Turns \/ ProcessPop)
  BY <1>0 DEF AlignInv
<1>1. /\ TypeOK /\ AlignKept /\ (Roomy => RoomKept) /\ Len(cache) \in Nat
      /\ WholeOutputs' = WholeOutputs
  BY DEF AlignInv, RoomInv, TypeOK, WholeOutputs, Multiples
<1>2. reading => Fits
  <2>1. Roomy \/ WholeOutputs
    BY WholeMovesMeans
  <2> QED BY <1>1, <2>1 DEF Fits, RoomKept, AlignKept, WholeOutputs
<1>3. ASSUME UNCHANGED <<decoded, want, cache, buffer, heard>> PROVE AlignKept' /\ Turns
  BY <1>1, <1>3 DEF AlignKept
<1>4. CASE UNCHANGED vars
  BY <1>3, <1>4 DEF vars
<1>5. CASE PollStopped \/ PollRead \/ DropView \/ Seek
  BY <1>3, <1>5 DEF PollStopped, PollRead, DropView, Seek, file, player
<1>6. ASSUME Ends(heard' \o cache'), Aligns(buffer'), decoded' \in Multiples, Turns,
             UNCHANGED want
      PROVE  AlignKept' /\ Turns
  <2>1. ASSUME Len(cache) \in Multiples PROVE Len(cache') \in Multiples
    <3>1. CASE cache' = cache
      BY <2>1, <3>1
    <3>2. CASE Len(cache') - Len(cache) \in Multiples
      <4>1. (Len(cache') - Len(cache)) + Len(cache) \in Multiples
        BY <2>1, <3>2, MultiplesClosed
      <4>2. Len(cache') \in Nat
        BY <1>0 DEF RoomInv, TypeOK
      <4> QED BY <1>1, <4>1, <4>2
    <3> QED BY <1>6, <3>1, <3>2
  <2> QED BY <1>1, <1>6, <2>1 DEF AlignKept, WholeOutputs
<1>7. CASE ReadEnd \/ ReadFailure
  <2>1. Push(buffer) /\ reading /\ UNCHANGED <<decoded, want, heard>>
    BY <1>7 DEF ReadEnd, ReadFailure, player
  <2>2. PICK size \in FrameSizes : TRUE
    BY SizeAssumption
  <2>3. buffer \in Seq(Sample) /\ Len(buffer) \in Nat /\ Aligns(buffer) /\ Len(buffer) \in Multiples
    BY <1>1 DEF TypeOK, AlignKept, Aligns
  <2>4. ASSUME Roomy PROVE Len(buffer) <= MaxMoved(size)
    <3>1. Len(buffer) < Threshold /\ size \in Nat /\ Threshold \in Nat
      BY <1>1, <2>2, <2>4, SizeAssumption DEF RoomKept
    <3> QED BY <2>3, <3>1 DEF MaxMoved
  <2>5. Smaller(Free, Len(buffer)) \in Multiples
    BY <1>1, <1>2, <2>1, <2>2, <2>3, <2>4, MovedFrames
  <2>6. Ends(heard' \o cache') /\ Aligns(buffer') /\ Turns
    BY <1>1, <2>1, <2>3, <2>5, PushAligns DEF AlignKept
  <2> QED BY <1>1, <1>6, <2>1, <2>6 DEF AlignKept
<1>8. ASSUME ReadPacket PROVE AlignKept' /\ Turns
  <2>1. PICK held \in Seq(Nat) : Receive(held)
    BY <1>1, <1>8, ReadPacketReceives
  <2>2. reading /\ UNCHANGED <<want, heard>>
    BY <1>8 DEF ReadPacket, player
  <2>3. Ends(heard' \o cache') /\ Aligns(buffer') /\ decoded' \in Multiples /\ Turns
    BY <1>1, <1>2, <2>1, <2>2, ReceiveAligns
  <2> QED BY <1>6, <2>2, <2>3
<1>9. ASSUME DecodeFailure PROVE AlignKept' /\ Turns
  BY <1>3, <1>9 DEF DecodeFailure, player
<1>10. CASE Open \/ OpenFailure
  <2>1. UNCHANGED <<decoded, want, cache, heard>> /\ buffer' \in {<< >>, buffer}
    BY <1>10 DEF Open, OpenFailure, player
  <2>2. Aligns(buffer')
    BY <1>1, <2>1, AlignsEmpty DEF AlignKept
  <2> QED BY <1>1, <1>6, <2>1, <2>2 DEF AlignKept
<1>11. ASSUME NEW out \in OutLens, ProcessCount(out) PROVE AlignKept' /\ Turns
  <2>1. Free \in Nat /\ Channels \in Nat \ {0}
    BY <1>1, SizeAssumption DEF TypeOK, Free
  <2>2. Free - (Free % Channels) = Channels * (Free \div Channels) /\ Free \div Channels \in Int
    BY <2>1
  <2>3. Free - (Free % Channels) \in Multiples
    BY <2>1, <2>2, MultipleOf
  <2>4. want' = Free - (Free % Channels) \/ want' = out
    BY <1>11 DEF ProcessCount, Smaller
  <2>5. UNCHANGED <<decoded, cache, buffer, heard>>
    BY <1>11 DEF ProcessCount, file
  <2> QED BY <1>1, <2>3, <2>4, <2>5 DEF AlignKept, WholeOutputs
<1>12. CASE ProcessPop
  <2>1. Ends(heard' \o cache') /\ (WholeOutputs => Len(cache') \in Multiples)
    BY <1>1, <1>12, PopAligns
  <2>2. UNCHANGED <<decoded, buffer, want>>
    BY <1>12 DEF ProcessPop
  <2> QED BY <1>1, <1>12, <2>1, <2>2 DEF AlignKept
<1> QED
  BY <1>4, <1>5, <1>7, <1>8, <1>9, <1>10, <1>11, <1>12 DEF Next, Read, Process

LEMMA AlignSafe ==
    ASSUME AlignInv, [Next]_vars
    PROVE  WholeMoves =>
              /\ InTurn(Pipe')
              /\ Starts(cache) => Starts(cache') \/ (playing /\ ~playing' /\ CutsFrame)
<1> SUFFICES ASSUME WholeMoves
             PROVE  /\ InTurn(Pipe')
                    /\ Starts(cache) => Starts(cache') \/ (playing /\ ~playing' /\ CutsFrame)
  OBVIOUS
<1>1. TypeOK /\ TypeOK' /\ AlignKept /\ AlignKept'
  <2>1. AlignInv' /\ WholeMoves'
    BY AlignStep, WholeMovesMeans
  <2> QED BY <2>1 DEF AlignInv, RoomInv
<1>2. InTurn(Pipe')
  <2>1. PICK p \in Seq(Sample), q \in Seq(Sample), r \in Seq(Sample) :
           p = heard' /\ q = cache' /\ r = buffer'
    BY <1>1 DEF TypeOK
  <2>2. Ends(p \o q) /\ Aligns(r) /\ p \o q \in Seq(Sample)
    BY <1>1, <2>1, Parts DEF AlignKept
  <2>3. Ends((p \o q) \o r) /\ (p \o q) \o r \in Seq(Sample)
    BY <2>2, EndsConcat, Parts
  <2>4. Pipe' = p \o (q \o r) \/ Pipe' = (p \o q) \o r
    BY <2>1 DEF Pipe
  <2>5. Pipe' = (p \o q) \o r
    BY <2>4, Regroup
  <2> QED BY <2>3, <2>5, EndsInTurn
<1>3. ASSUME Len(cache') - Len(cache) \in Multiples, Starts(cache) PROVE Starts(cache')
  <2>1. PICK p \in Seq(Sample), q \in Seq(Sample) : p = heard' /\ q = cache'
    BY <1>1 DEF TypeOK
  <2>2. Ends(q)
    BY <1>1, <2>1, EndsRest DEF AlignKept
  <2>3. cache \in Seq(Sample) /\ heard \in Seq(Sample) /\ Ends(cache)
    BY <1>1, EndsRest DEF AlignKept, TypeOK
  <2>4. Len(cache) \in Multiples /\ Len(cache) \in Nat /\ Len(q) \in Nat
    BY <1>3, <2>3, EndsStarts
  <2>5. (Len(q) - Len(cache)) + Len(cache) \in Multiples
    BY <1>3, <2>1, <2>4, MultiplesClosed
  <2>6. Len(q) \in Multiples
    BY <2>4, <2>5
  <2> QED BY <2>1, <2>2, <2>6, EndsStarts
<1>4. ASSUME ProcessPop, Starts(cache)
      PROVE  Starts(cache') \/ (playing /\ ~playing' /\ CutsFrame)
  BY <1>1, <1>4, PopAligns DEF ProcessPop
<1>5. cache' = cache => (Starts(cache) => Starts(cache'))
  OBVIOUS
<1> QED BY <1>2, <1>3, <1>4, <1>5, AlignStep

\* When the reader moves whole frames, no channel is ever skipped, and outputs
\* start with the first channel until one is filled within a frame: for every
\* number of channels, outputs of any sizes, and however full the cache is when
\* process_audio asks, whatever is opened or sought in between.
THEOREM ChannelsAligned == Spec => Aligned
<1>1. AlignInv /\ [Next]_vars => AlignInv'
  BY AlignStep
<1>2. AlignInv /\ [Next]_vars =>
        [WholeMoves =>
            /\ InTurn(Pipe')
            /\ Starts(cache) => Starts(cache') \/ (playing /\ ~playing' /\ CutsFrame)]_vars
  BY AlignSafe
<1> QED BY <1>1, <1>2, AlignInit, PTL DEF Spec, Aligned

-----------------------------------------------------------------------------
(***************************************************************************)
(* Order                                                                   *)
(***************************************************************************)
\* The samples decoded and not yet played.
Queue == cache \o buffer

\* Samples in the order they were decoded, with gaps only between generations.
InOrder(s) ==
    /\ \A i, j \in 1 .. Len(s) : i < j => s[i].num < s[j].num /\ s[i].gen <= s[j].gen
    /\ \A i \in 1 .. Len(s) - 1 : s[i + 1].num = s[i].num + 1 \/ s[i].gen < s[i + 1].gen

Below(s, num, g) == \A i \in 1 .. Len(s) : s[i].num < num /\ s[i].gen <= g

\* A sample of a generation may be added to the samples up to num.
MayFollow(s, num, g) ==
    s # << >> => LET last == s[Len(s)]
                 IN  last.gen < g \/ (last.gen = g /\ last.num = num - 1)

\* The generation of the next frame: of the first one the codec holds, or of
\* the packets that are read.
NextGen(held, g) == IF held = << >> THEN g ELSE held[1]

CodecOK(held, g) ==
    /\ \A i \in 1 .. Len(held) : held[i] <= g
    /\ \A i, j \in 1 .. Len(held) : i < j => held[i] <= held[j]

\* What is played and what is queued is in order, and the next frame may follow;
\* a file that is closed is opened again, with a new generation, before it is read.
OrderInv ==
    /\ TypeOK
    /\ InOrder(Pipe) /\ Below(Pipe, decoded, NextGen(codec, gen))
    /\ context => MayFollow(Pipe, decoded, NextGen(codec, gen))
    /\ CodecOK(codec, gen)
    /\ reading => context

LEMMA PipeParts ==
    ASSUME TypeOK
    PROVE  /\ Pipe = heard \o Queue /\ Pipe = (heard \o cache) \o buffer
           /\ Pipe \in Seq(Sample) /\ Queue \in Seq(Sample)
<1>1. heard \in Seq(Sample) /\ cache \in Seq(Sample) /\ buffer \in Seq(Sample)
  BY DEF TypeOK
<1>2. cache \o buffer \in Seq(Sample)
  BY <1>1, Parts
<1>3. heard \o (cache \o buffer) \in Seq(Sample)
  BY <1>1, <1>2, Parts
<1>4. (heard \o cache) \o buffer = heard \o (cache \o buffer)
  BY <1>1, Regroup
<1> QED BY <1>2, <1>3, <1>4 DEF Pipe, Queue

LEMMA SampleTypes ==
    ASSUME NEW s \in Seq(Sample), NEW i \in 1 .. Len(s)
    PROVE  s[i].num \in Nat /\ s[i].gen \in Nat
<1>1. s[i] \in Sample
  OBVIOUS
<1> QED BY <1>1 DEF Sample

\* What is ordered can be cut in two, which are ordered and follow each other.
LEMMA OrderParts ==
    ASSUME NEW s \in Seq(Sample), NEW t \in Seq(Sample), InOrder(s \o t)
    PROVE  InOrder(s) /\ InOrder(t)
<1> DEFINE u == s \o t
<1>1. /\ Len(u) = Len(s) + Len(t) /\ Len(s) \in Nat /\ Len(t) \in Nat
      /\ \A i \in 1 .. Len(s) : u[i] = s[i]
      /\ \A i \in 1 .. Len(t) : u[Len(s) + i] = t[i]
  BY Parts
<1>2. /\ \A i, j \in 1 .. Len(u) : i < j => u[i].num < u[j].num /\ u[i].gen <= u[j].gen
      /\ \A i \in 1 .. Len(u) - 1 : u[i + 1].num = u[i].num + 1 \/ u[i].gen < u[i + 1].gen
  BY DEF InOrder
<1> HIDE DEF u
<1>3. InOrder(s)
  <2>1. ASSUME NEW i \in 1 .. Len(s), NEW j \in 1 .. Len(s), i < j
        PROVE  s[i].num < s[j].num /\ s[i].gen <= s[j].gen
    <3>1. i \in 1 .. Len(u) /\ j \in 1 .. Len(u) /\ u[i] = s[i] /\ u[j] = s[j]
      BY <1>1
    <3> QED BY <1>2, <2>1, <3>1
  <2>2. ASSUME NEW i \in 1 .. Len(s) - 1
        PROVE  s[i + 1].num = s[i].num + 1 \/ s[i].gen < s[i + 1].gen
    <3>1. i \in 1 .. Len(u) - 1 /\ u[i] = s[i] /\ u[i + 1] = s[i + 1]
      BY <1>1
    <3> QED BY <1>2, <3>1
  <2> QED BY <2>1, <2>2 DEF InOrder
<1>4. ASSUME NEW i \in 1 .. Len(t), NEW j \in 1 .. Len(t), i < j
      PROVE  t[i].num < t[j].num /\ t[i].gen <= t[j].gen
  <2>1. Len(s) + i \in 1 .. Len(u) /\ Len(s) + j \in 1 .. Len(u) /\ Len(s) + i < Len(s) + j
    BY <1>1, <1>4
  <2>2. u[Len(s) + i] = t[i] /\ u[Len(s) + j] = t[j]
    BY <1>1
  <2> QED BY <1>2, <2>1, <2>2
<1>5. ASSUME NEW i \in 1 .. Len(t) - 1
      PROVE  t[i + 1].num = t[i].num + 1 \/ t[i].gen < t[i + 1].gen
  <2>1. Len(s) + i \in 1 .. Len(u) - 1 /\ i \in 1 .. Len(t) /\ i + 1 \in 1 .. Len(t)
    BY <1>1
  <2>2. u[Len(s) + i] = t[i] /\ u[Len(s) + (i + 1)] = t[i + 1]
        /\ Len(s) + i + 1 = Len(s) + (i + 1)
    <3>1. Len(s) \in Nat /\ i \in Nat
      BY <1>1
    <3>2. Len(s) + i + 1 = Len(s) + (i + 1)
      BY <3>1
    <3> QED BY <1>1, <2>1, <3>2, Zenon
  <2> QED BY <1>2, <2>1, <2>2
<1> QED BY <1>3, <1>4, <1>5 DEF InOrder

\* Samples that may follow keep the order.
LEMMA OrderJoin ==
    ASSUME NEW s \in Seq(Sample), NEW num \in Nat, NEW g \in Nat, NEW size \in Nat,
           NEW t \in Seq(Sample), Len(t) = size,
           \A i \in 1 .. size : t[i].num = num + i - 1 /\ t[i].gen = g,
           InOrder(s), Below(s, num, g), MayFollow(s, num, g)
    PROVE  InOrder(s \o t)
<1> DEFINE u == s \o t
<1>1. /\ Len(u) = Len(s) + Len(t) /\ Len(s) \in Nat /\ Len(t) \in Nat
      /\ \A i \in 1 .. Len(s) : u[i] = s[i]
      /\ \A i \in 1 .. Len(t) : u[Len(s) + i] = t[i]
  BY Parts
<1>2. ASSUME NEW i \in Int, i > Len(s), i <= Len(u)
      PROVE  u[i].num = num + (i - Len(s)) - 1 /\ u[i].gen = g
  <2>1. i - Len(s) \in 1 .. Len(t) /\ Len(s) + (i - Len(s)) = i
    BY <1>1, <1>2
  <2>2. u[i] = t[i - Len(s)]
    BY <1>1, <2>1
  <2> QED BY <2>1, <2>2
<1>3. \A i \in 1 .. Len(s) : s[i].num \in Nat /\ s[i].gen \in Nat /\ s[i].num < num /\ s[i].gen <= g
  BY SampleTypes DEF Below
<1> HIDE DEF u
<1>4. ASSUME NEW i \in 1 .. Len(u), NEW j \in 1 .. Len(u), i < j
      PROVE  u[i].num < u[j].num /\ u[i].gen <= u[j].gen
  <2>1. CASE j <= Len(s)
    <3>1. i \in 1 .. Len(s) /\ j \in 1 .. Len(s)
      BY <1>1, <1>4, <2>1
    <3>2. u[i] = s[i] /\ u[j] = s[j]
      BY <1>1, <3>1, Zenon
    <3> QED BY <1>4, <3>1, <3>2 DEF InOrder
  <2>2. CASE i <= Len(s) /\ j > Len(s)
    <3>1. u[i] = s[i] /\ i \in 1 .. Len(s)
      BY <1>1, <2>2
    <3>2. u[j].num = num + (j - Len(s)) - 1 /\ u[j].gen = g
      BY <1>2, <2>2
    <3>3. /\ s[i].num \in Nat /\ s[i].gen \in Nat /\ s[i].num < num /\ s[i].gen <= g
          /\ Len(s) \in Nat
      BY <1>1, <1>3, <3>1
    <3> QED BY <2>2, <3>1, <3>2, <3>3
  <2>3. CASE i > Len(s)
    <3>1. /\ u[i].num = num + (i - Len(s)) - 1 /\ u[i].gen = g
          /\ u[j].num = num + (j - Len(s)) - 1 /\ u[j].gen = g
      BY <1>1, <1>2, <1>4, <2>3
    <3> QED BY <1>1, <1>4, <3>1
  <2> QED BY <1>1, <1>4, <2>1, <2>2, <2>3
<1>5. ASSUME NEW i \in 1 .. Len(u) - 1
      PROVE  u[i + 1].num = u[i].num + 1 \/ u[i].gen < u[i + 1].gen
  <2>1. CASE i < Len(s)
    <3>1. i \in 1 .. Len(s) /\ i + 1 \in 1 .. Len(s) /\ i \in 1 .. Len(s) - 1
      <4>1. i \in Int /\ i >= 1 /\ Len(s) \in Int
        BY <1>1
      <4> QED BY <4>1, <2>1
    <3>2. u[i] = s[i] /\ u[i + 1] = s[i + 1]
      BY <1>1, <3>1
    <3> QED BY <3>1, <3>2 DEF InOrder
  <2>2. CASE i = Len(s)
    <3>1. s # << >> /\ u[i] = s[Len(s)]
      BY <1>1, <2>2
    <3>2. u[i + 1].num = num /\ u[i + 1].gen = g
      <4>1. u[i + 1].num = num + (i + 1 - Len(s)) - 1 /\ u[i + 1].gen = g
        BY <1>1, <1>2, <2>2
      <4> QED BY <1>1, <2>2, <4>1
    <3>3. s[Len(s)].num \in Nat
      BY <1>1, <1>3, <2>2
    <3> QED BY <3>1, <3>2, <3>3 DEF MayFollow
  <2>3. CASE i > Len(s)
    <3>1. u[i].num = num + (i - Len(s)) - 1 /\ u[i + 1].num = num + (i + 1 - Len(s)) - 1
      BY <1>1, <1>2, <2>3
    <3> QED BY <1>1, <3>1
  <2> QED BY <1>1, <2>1, <2>2, <2>3
<1> QED BY <1>4, <1>5 DEF InOrder, u

\* What is added stays below the next sample.
LEMMA BelowJoin ==
    ASSUME NEW s \in Seq(Sample), NEW t \in Seq(Sample), NEW num \in Nat, NEW g \in Nat,
           NEW size \in Nat, Len(t) = size, NEW h \in Nat, g <= h,
           \A i \in 1 .. size : t[i].num = num + i - 1 /\ t[i].gen = g,
           Below(s, num, g)
    PROVE  Below(s \o t, num + size, h)
<1> DEFINE u == s \o t
<1>1. /\ Len(u) = Len(s) + Len(t) /\ Len(s) \in Nat /\ Len(t) \in Nat
      /\ \A i \in 1 .. Len(s) : u[i] = s[i]
      /\ \A i \in 1 .. Len(t) : u[Len(s) + i] = t[i]
  BY Parts
<1> HIDE DEF u
<1>2. ASSUME NEW i \in 1 .. Len(u) PROVE u[i].num < num + size /\ u[i].gen <= h
  <2>1. CASE i <= Len(s)
    <3>1. i \in 1 .. Len(s) /\ u[i] = s[i]
      BY <1>1, <2>1
    <3>2. s[i].num \in Nat /\ s[i].gen \in Nat /\ s[i].num < num /\ s[i].gen <= g
      BY <3>1, SampleTypes DEF Below
    <3> QED BY <3>1, <3>2
  <2>2. CASE ~ (i <= Len(s))
    <3>1. i - Len(s) \in 1 .. Len(t) /\ Len(s) + (i - Len(s)) = i
      BY <1>1, <2>2
    <3>2. u[i] = t[i - Len(s)]
      BY <1>1, <3>1
    <3>3. u[i].num = num + (i - Len(s)) - 1 /\ u[i].gen = g
      BY <3>1, <3>2
    <3>4. i - Len(s) \in Int /\ i - Len(s) <= size
      BY <1>1, <3>1
    <3> QED BY <3>3, <3>4
  <2> QED BY <2>1, <2>2
<1> QED BY <1>2 DEF Below, u

\* The last sample that was added is the one before the next.
LEMMA FollowJoin ==
    ASSUME NEW s \in Seq(Sample), NEW t \in Seq(Sample), NEW num \in Nat, NEW g \in Nat,
           NEW size \in Nat \ {0}, Len(t) = size, NEW h \in Nat, g <= h,
           \A i \in 1 .. size : t[i].num = num + i - 1 /\ t[i].gen = g
    PROVE  MayFollow(s \o t, num + size, h)
<1>1. /\ Len(s \o t) = Len(s) + Len(t) /\ Len(s) \in Nat
      /\ (s \o t)[Len(s) + size] = t[size]
  <2>1. size \in 1 .. Len(t)
    OBVIOUS
  <2> QED BY <2>1, Parts
<1>2. t[size].num = num + size - 1 /\ t[size].gen = g
  OBVIOUS
<1> QED BY <1>1, <1>2 DEF MayFollow

\* Moving samples from the buffer to the cache leaves the queue as it is.
LEMMA PushQueue ==
    ASSUME TypeOK, NEW samples \in Seq(Sample), Push(samples)
    PROVE  Queue' = cache \o samples
<1> DEFINE moved == Smaller(Free, Len(samples))
<1>1. Free \in Nat /\ Len(samples) \in Nat /\ cache \in Seq(Sample)
  BY SizeAssumption DEF TypeOK, Free
<1>2. moved \in 0 .. Len(samples)
  <2>1. moved \in Nat /\ moved <= Len(samples)
    BY <1>1, SmallerBounds
  <2> QED BY <1>1, <2>1
<1>3. /\ cache' = cache \o SubSeq(samples, 1, moved)
      /\ buffer' = SubSeq(samples, moved + 1, Len(samples))
  BY DEF Push
<1> HIDE DEF moved
<1>4. /\ SubSeq(samples, 1, moved) \in Seq(Sample)
      /\ SubSeq(samples, moved + 1, Len(samples)) \in Seq(Sample)
  BY <1>2, Cut
<1>5. SubSeq(samples, 1, moved) \o SubSeq(samples, moved + 1, Len(samples)) = samples
  BY <1>1, <1>2, CutJoin
<1> DEFINE front == SubSeq(samples, 1, moved)
           rest == SubSeq(samples, moved + 1, Len(samples))
<1>6. (cache \o front) \o rest = cache \o (front \o rest)
  <2> HIDE DEF front, rest
  <2>1. front \in Seq(Sample) /\ rest \in Seq(Sample)
    BY <1>4 DEF front, rest
  <2> QED BY <1>1, <2>1, Regroup
<1> QED BY <1>3, <1>5, <1>6 DEF Queue

\* A frame that is decoded is added to the queue.
LEMMA ReceiveQueue ==
    ASSUME TypeOK, NEW held \in Seq(Nat), Receive(held)
    PROVE  \/ codec' = held /\ Queue' = Queue /\ decoded' = decoded /\ held = << >>
           \/ \E size \in FrameSizes :
                /\ held # << >> /\ codec' = Tail(held) /\ decoded' = decoded + size
                /\ Queue' = Queue \o Samples(held[1], size)
<1>1. CASE held = << >>
  BY <1>1 DEF Receive, Queue
<1>2. CASE held # << >>
  <2>1. PICK size \in FrameSizes :
          LET samples == buffer \o Samples(Head(held), size)
          IN  /\ codec' = Tail(held)
              /\ decoded' = decoded + size
              /\ IF Len(samples) >= Threshold
                 THEN Push(samples)
                 ELSE buffer' = samples /\ UNCHANGED cache
    BY <1>2 DEF Receive
  <2> DEFINE frame == Samples(held[1], size)
             samples == buffer \o frame
  <2>2. size \in Nat /\ held[1] \in Nat /\ Head(held) = held[1] /\ decoded \in Nat
        /\ buffer \in Seq(Sample) /\ cache \in Seq(Sample)
    BY <1>2, ReceiveTypes
  <2>3. frame \in Seq(Sample)
    BY <2>2, FrameSamples
  <2> HIDE DEF frame
  <2>4. samples \in Seq(Sample) /\ cache \o samples = Queue \o frame
    <3>1. (cache \o buffer) \o frame = cache \o (buffer \o frame)
      BY <2>2, <2>3, Regroup
    <3>2. samples \in Seq(Sample)
      BY <2>2, <2>3, ConcatProperties
    <3> QED BY <3>1, <3>2 DEF Queue
  <2>5. Push(samples) \/ (buffer' = samples /\ UNCHANGED cache)
    BY <2>1, <2>2 DEF frame
  <2> HIDE DEF samples
  <2>6. Queue' = cache \o samples
    BY <2>4, <2>5, PushQueue DEF Queue
  <2> QED BY <1>2, <2>1, <2>4, <2>6 DEF frame
<1> QED BY <1>1, <1>2

LEMMA BelowParts ==
    ASSUME NEW s \in Seq(Sample), NEW t \in Seq(Sample), NEW num, NEW g, Below(s \o t, num, g)
    PROVE  Below(s, num, g) /\ Below(t, num, g)
<1>1. /\ Len(s \o t) = Len(s) + Len(t) /\ Len(s) \in Nat /\ Len(t) \in Nat
      /\ \A i \in 1 .. Len(s) : (s \o t)[i] = s[i]
      /\ \A i \in 1 .. Len(t) : (s \o t)[Len(s) + i] = t[i]
  BY Parts
<1> DEFINE u == s \o t
<1>2. \A i \in 1 .. Len(u) : u[i].num < num /\ u[i].gen <= g
  BY DEF Below
<1> HIDE DEF u
<1>3. ASSUME NEW i \in 1 .. Len(s) PROVE s[i].num < num /\ s[i].gen <= g
  <2>1. i \in 1 .. Len(u) /\ u[i] = s[i]
    BY <1>1 DEF u
  <2> QED BY <1>2, <2>1
<1>4. ASSUME NEW i \in 1 .. Len(t) PROVE t[i].num < num /\ t[i].gen <= g
  <2>1. Len(s) + i \in 1 .. Len(u) /\ u[Len(s) + i] = t[i]
    BY <1>1 DEF u
  <2> QED BY <1>2, <2>1
<1> QED BY <1>3, <1>4 DEF Below

LEMMA FollowParts ==
    ASSUME NEW s \in Seq(Sample), NEW t \in Seq(Sample), NEW num, NEW g, MayFollow(s \o t, num, g)
    PROVE  MayFollow(t, num, g)
<1> SUFFICES ASSUME t # << >> PROVE MayFollow(t, num, g)
  BY DEF MayFollow
<1>1. /\ Len(s \o t) = Len(s) + Len(t) /\ Len(s) \in Nat /\ Len(t) \in Nat
      /\ \A i \in 1 .. Len(t) : (s \o t)[Len(s) + i] = t[i]
  BY Parts
<1>2. Len(t) \in 1 .. Len(t)
  BY <1>1
<1>3. (s \o t)[Len(s \o t)] = t[Len(t)] /\ s \o t # << >>
  BY <1>1, <1>2
<1> QED BY <1>3 DEF MayFollow

LEMMA BelowMore ==
    ASSUME NEW s \in Seq(Sample), NEW num \in Nat, NEW g \in Nat, Below(s, num, g),
           NEW more \in Nat, num <= more, NEW h \in Nat, g <= h
    PROVE  Below(s, more, h)
<1>1. \A i \in 1 .. Len(s) : s[i].num \in Nat /\ s[i].gen \in Nat
  BY SampleTypes
<1> QED BY <1>1 DEF Below

\* A new generation may follow whatever there is.
LEMMA FollowNew ==
    ASSUME NEW s \in Seq(Sample), NEW num \in Nat, NEW g \in Nat, Below(s, num, g),
           NEW h \in Nat, g < h
    PROVE  MayFollow(s, num, h)
<1> SUFFICES ASSUME s # << >> PROVE s[Len(s)].gen < h
  BY DEF MayFollow
<1>1. Len(s) \in 1 .. Len(s)
  OBVIOUS
<1>2. s[Len(s)].gen \in Nat /\ s[Len(s)].gen <= g
  BY <1>1, SampleTypes DEF Below
<1> QED BY <1>2

\* What the codec holds is of no later generation than the next packet.
LEMMA NextGenBound ==
    ASSUME NEW held \in Seq(Nat), NEW g \in Nat, CodecOK(held, g)
    PROVE  NextGen(held, g) \in Nat /\ NextGen(held, g) <= g
<1>1. CASE held = << >>
  BY <1>1 DEF NextGen
<1>2. CASE held # << >>
  <2>1. 1 \in 1 .. Len(held)
    BY <1>2
  <2> QED BY <1>2, <2>1 DEF NextGen, CodecOK
<1> QED BY <1>1, <1>2

\* The frame that is decoded is of no later generation than the one after it.
LEMMA CodecTail ==
    ASSUME NEW held \in Seq(Nat), held # << >>, NEW g \in Nat, CodecOK(held, g)
    PROVE  /\ CodecOK(Tail(held), g) /\ NextGen(Tail(held), g) \in Nat
           /\ held[1] \in Nat /\ held[1] <= NextGen(Tail(held), g)
<1> DEFINE rest == Tail(held)
<1>1. /\ rest \in Seq(Nat) /\ Len(rest) = Len(held) - 1 /\ Len(held) \in Nat \ {0}
      /\ \A i \in 1 .. Len(rest) : rest[i] = held[i + 1]
  BY HeadTailProperties
<1> HIDE DEF rest
<1>2. 1 \in 1 .. Len(held) /\ held[1] \in Nat /\ held[1] <= g
  BY <1>1 DEF CodecOK
<1>3. ASSUME NEW i \in 1 .. Len(rest) PROVE rest[i] <= g
  <2>1. i + 1 \in 1 .. Len(held) /\ rest[i] = held[i + 1]
    BY <1>1
  <2> QED BY <2>1 DEF CodecOK
<1>4. ASSUME NEW i \in 1 .. Len(rest), NEW j \in 1 .. Len(rest), i < j PROVE rest[i] <= rest[j]
  <2>1. i + 1 \in 1 .. Len(held) /\ j + 1 \in 1 .. Len(held) /\ i + 1 < j + 1
    BY <1>1, <1>4
  <2>2. rest[i] = held[i + 1] /\ rest[j] = held[j + 1]
    BY <1>1, Zenon
  <2> QED BY <2>1, <2>2 DEF CodecOK
<1>5. CodecOK(rest, g)
  BY <1>3, <1>4 DEF CodecOK
<1>6. held[1] <= NextGen(rest, g)
  <2>1. CASE rest = << >>
    BY <1>2, <2>1 DEF NextGen
  <2>2. CASE rest # << >>
    <3>1. 1 \in 1 .. Len(rest) /\ 2 \in 1 .. Len(held) /\ rest[1] = held[2]
      BY <1>1, <2>2
    <3> QED BY <1>2, <2>2, <3>1 DEF NextGen, CodecOK
  <2> QED BY <2>1, <2>2
<1> QED BY <1>1, <1>2, <1>5, <1>6, NextGenBound DEF rest

\* A packet adds frames of its generation behind those the codec holds.
LEMMA HeldOK ==
    ASSUME TypeOK, CodecOK(codec, gen), ReadPacket
    PROVE  \E held \in Seq(Nat) :
              Receive(held) /\ CodecOK(held, gen) /\ NextGen(held, gen) = NextGen(codec, gen)
<1>1. codec \in Seq(Nat) /\ gen \in Nat
  BY DEF TypeOK
<1>2. CASE Receive(codec)
  BY <1>1, <1>2
<1>3. ASSUME NEW k \in FramesPer, Receive(codec \o [i \in 1 .. k |-> gen])
      PROVE  \E held \in Seq(Nat) :
                Receive(held) /\ CodecOK(held, gen) /\ NextGen(held, gen) = NextGen(codec, gen)
  <2> DEFINE new == [i \in 1 .. k |-> gen]
             held == codec \o new
  <2>1. k \in Nat
    BY FileAssumption
  <2>2. new \in Seq(Nat) /\ Len(new) = k /\ \A i \in 1 .. k : new[i] = gen
    BY <1>1, <2>1
  <2> HIDE DEF new
  <2>3. /\ held \in Seq(Nat) /\ Len(held) = Len(codec) + k
        /\ \A i \in 1 .. Len(codec) + k : held[i] = IF i <= Len(codec) THEN codec[i] ELSE new[i - Len(codec)]
    BY <1>1, <2>2, ConcatProperties
  <2>4. \A i \in 1 .. Len(codec) : codec[i] \in Nat /\ codec[i] <= gen
    BY <1>1 DEF CodecOK
  <2>5. Receive(held)
    BY <1>3 DEF new
  <2> HIDE DEF held
  <2>6. \A i \in 1 .. Len(held) : held[i] = IF i <= Len(codec) THEN codec[i] ELSE gen
    <3> SUFFICES ASSUME NEW i \in 1 .. Len(held), ~(i <= Len(codec)) PROVE held[i] = gen
      BY <2>3
    <3>1. i - Len(codec) \in 1 .. k /\ Len(codec) \in Nat
      BY <1>1, <2>1, <2>3
    <3> QED BY <2>2, <2>3, <3>1
  <2>7. CodecOK(held, gen)
    <3>1. Len(codec) \in Nat /\ Len(held) \in Nat
      BY <1>1, <2>3
    <3>2. ASSUME NEW i \in 1 .. Len(held) PROVE held[i] <= gen
      BY <1>1, <2>4, <2>6, <3>1
    <3>3. ASSUME NEW i \in 1 .. Len(held), NEW j \in 1 .. Len(held), i < j PROVE held[i] <= held[j]
      <4>1. CASE j <= Len(codec)
        BY <2>6, <3>1, <3>3, <4>1 DEF CodecOK
      <4>2. CASE ~(j <= Len(codec))
        BY <2>6, <3>2, <4>2
      <4> QED BY <4>1, <4>2
    <3> QED BY <3>2, <3>3 DEF CodecOK
  <2>8. NextGen(held, gen) = NextGen(codec, gen)
    <3>1. CASE codec = << >>
      <4>1. Len(codec) = 0 /\ (held # << >> => held[1] = gen)
        BY <2>3, <2>6, <3>1
      <4> QED BY <3>1, <4>1 DEF NextGen
    <3>2. CASE codec # << >>
      <4>1. 1 <= Len(codec) /\ held # << >> /\ held[1] = codec[1]
        BY <1>1, <2>1, <2>3, <2>6, <3>2
      <4> QED BY <3>2, <4>1 DEF NextGen
    <3> QED BY <3>1, <3>2
  <2> QED BY <2>3, <2>5, <2>7, <2>8
<1> QED BY <1>2, <1>3 DEF ReadPacket

\* Reading a packet keeps the order.
LEMMA ReceiveOrder ==
    ASSUME OrderInv, context, TypeOK', UNCHANGED heard,
           NEW held \in Seq(Nat), Receive(held), CodecOK(held, gen),
           NextGen(held, gen) = NextGen(codec, gen)
    PROVE  /\ InOrder(Pipe') /\ Below(Pipe', decoded', NextGen(codec', gen))
           /\ MayFollow(Pipe', decoded', NextGen(codec', gen))
           /\ CodecOK(codec', gen)
<1>1. /\ InOrder(Pipe) /\ Below(Pipe, decoded, NextGen(held, gen))
      /\ MayFollow(Pipe, decoded, NextGen(held, gen))
      /\ decoded \in Nat /\ gen \in Nat /\ heard \in Seq(Sample) /\ TypeOK
  BY DEF OrderInv, TypeOK
<1>2. /\ Pipe = heard \o Queue /\ Pipe \in Seq(Sample) /\ Queue \in Seq(Sample)
      /\ Pipe' = heard \o Queue'
  BY <1>1, PipeParts, Regroup DEF Pipe, Queue, TypeOK
<1>3. NextGen(held, gen) \in Nat /\ NextGen(held, gen) <= gen
  BY <1>1, NextGenBound
<1>4. CASE codec' = held /\ Queue' = Queue /\ decoded' = decoded
  BY <1>1, <1>2, <1>4
<1>5. ASSUME NEW size \in FrameSizes, held # << >>, codec' = Tail(held),
             decoded' = decoded + size, Queue' = Queue \o Samples(held[1], size)
      PROVE  /\ InOrder(Pipe') /\ Below(Pipe', decoded', NextGen(codec', gen))
             /\ MayFollow(Pipe', decoded', NextGen(codec', gen))
             /\ CodecOK(codec', gen)
  <2> DEFINE g == held[1]
             frame == Samples(g, size)
  <2>1. g = NextGen(held, gen) /\ g \in Nat /\ size \in Nat \ {0}
    BY <1>3, <1>5, SizeAssumption DEF NextGen
  <2> HIDE DEF g
  <2>2. /\ frame \in Seq(Sample) /\ Len(frame) = size
        /\ \A i \in 1 .. size : frame[i].num = decoded + i - 1 /\ frame[i].gen = g
    <3>1. decoded \in Nat /\ g \in Nat /\ size \in Nat
      BY <1>1, <2>1
    <3> QED BY <3>1, FrameSamples
  <2> DEFINE h == NextGen(codec', gen)
  <2>3. CodecOK(codec', gen) /\ h \in Nat /\ g <= h
    BY <1>1, <1>5, CodecTail DEF g
  <2> HIDE DEF frame, h
  <2>4. Pipe' = Pipe \o frame
    <3>1. Queue' = Queue \o frame
      BY <1>5 DEF frame, g
    <3>2. (heard \o Queue) \o frame = heard \o (Queue \o frame)
      BY <1>1, <1>2, <2>2, Regroup
    <3> QED BY <1>2, <3>1, <3>2
  <2>5. InOrder(Pipe) /\ Below(Pipe, decoded, g) /\ MayFollow(Pipe, decoded, g) /\ size \in Nat
    BY <1>1, <2>1
  <2>6. InOrder(Pipe')
    BY <1>1, <1>2, <2>1, <2>2, <2>4, <2>5, OrderJoin
  <2>7. Below(Pipe \o frame, decoded + size, h)
    BY <1>1, <1>2, <2>1, <2>2, <2>3, <2>5, BelowJoin
  <2>8. MayFollow(Pipe \o frame, decoded + size, h)
    BY <1>1, <1>2, <2>1, <2>2, <2>3, FollowJoin
  <2> QED BY <1>5, <2>3, <2>4, <2>6, <2>7, <2>8 DEF h
<1> QED BY <1>1, <1>4, <1>5, ReceiveQueue

LEMMA OrderInit == Init => OrderInv
<1> SUFFICES ASSUME Init PROVE OrderInv
  OBVIOUS
<1>1. TypeOK
  BY TypeInit
<1>2. Pipe = << >> /\ codec = << >> /\ Len(<< >>) = 0
  BY ConcatEmptySeq, NoSamples DEF Init, Pipe
<1>3. /\ InOrder(<< >>) /\ CodecOK(<< >>, gen)
      /\ \A n, g : Below(<< >>, n, g) /\ MayFollow(<< >>, n, g)
  BY <1>2 DEF InOrder, CodecOK, Below, MayFollow
<1> QED BY <1>1, <1>2, <1>3 DEF OrderInv, Init

\* What an opening leaves.
LEMMA DropOrder ==
    ASSUME OrderInv, TypeOK', UNCHANGED <<decoded, heard, cache>>, buffer' \in {<< >>, buffer}
    PROVE  /\ Pipe' \in Seq(Sample) /\ InOrder(Pipe')
           /\ \A n, g : Below(Pipe, n, g) => Below(Pipe', n, g)
           /\ buffer' = buffer => Pipe' = Pipe
<1> DEFINE front == heard \o cache
<1>1. /\ cache \in Seq(Sample) /\ buffer \in Seq(Sample) /\ heard \in Seq(Sample)
      /\ InOrder(Pipe) /\ Pipe = front \o buffer /\ Pipe \in Seq(Sample)
  BY PipeParts DEF OrderInv, TypeOK
<1>2. front \in Seq(Sample) /\ front \o << >> = front /\ Pipe' = front \o buffer'
  BY <1>1, Parts, ConcatEmptySeq DEF Pipe
<1> HIDE DEF front
<1>3. CASE buffer' = buffer
  BY <1>1, <1>2, <1>3
<1>4. CASE buffer' = << >> /\ buffer' # buffer
  <2>1. Pipe' = front
    BY <1>2, <1>4
  <2>2. InOrder(front) /\ \A n, g : Below(Pipe, n, g) => Below(front, n, g)
    BY <1>1, <1>2, OrderParts, BelowParts
  <2> QED BY <1>2, <1>4, <2>1, <2>2
<1> QED BY <1>3, <1>4

\* What process_audio pops is the front of the queue.
LEMMA PopQueue ==
    ASSUME TypeOK, ProcessPop
    PROVE  heard' \in Seq(Sample) /\ Queue' \in Seq(Sample) /\ Queue = heard' \o Queue'
<1> DEFINE count == Smaller(want, Len(cache))
<1>1. want \in Nat /\ Len(cache) \in Nat /\ cache \in Seq(Sample) /\ buffer \in Seq(Sample)
  BY DEF TypeOK
<1>2. count \in 0 .. Len(cache)
  <2>1. count \in Nat /\ count <= Len(cache)
    BY <1>1, SmallerBounds
  <2> QED BY <1>1, <2>1
<1>3. /\ heard' = SubSeq(cache, 1, count) /\ buffer' = buffer
      /\ cache' = SubSeq(cache, count + 1, Len(cache))
  BY DEF ProcessPop
<1> HIDE DEF count
<1>4. heard' \in Seq(Sample) /\ cache' \in Seq(Sample)
  BY <1>1, <1>2, <1>3, Cut
<1>5. heard' \o cache' = cache
  BY <1>1, <1>2, <1>3, CutJoin
<1>6. (heard' \o cache') \o buffer = heard' \o (cache' \o buffer)
  BY <1>1, <1>4, Regroup
<1>7. cache' \o buffer \in Seq(Sample)
  BY <1>1, <1>4, ConcatProperties
<1> QED BY <1>3, <1>4, <1>5, <1>6, <1>7 DEF Queue

LEMMA OrderStep == OrderInv /\ [Next]_vars => OrderInv'
<1> SUFFICES ASSUME OrderInv, [Next]_vars PROVE OrderInv'
  OBVIOUS
<1>1. /\ TypeOK /\ TypeOK' /\ decoded \in Nat /\ gen \in Nat /\ codec \in Seq(Nat)
      /\ cache \in Seq(Sample) /\ buffer \in Seq(Sample) /\ heard \in Seq(Sample)
      /\ Pipe \in Seq(Sample) /\ Queue \in Seq(Sample) /\ Pipe = heard \o Queue
  <2>1. TypeOK /\ TypeOK'
    BY TypeStep DEF OrderInv
  <2> QED BY <2>1, PipeParts DEF TypeOK
<1>2. NextGen(codec, gen) \in Nat /\ NextGen(codec, gen) <= gen
  BY <1>1, NextGenBound DEF OrderInv
<1>3. ASSUME UNCHANGED <<decoded, codec, gen, context>>, Pipe' = Pipe, reading' => context
      PROVE  OrderInv'
  BY <1>1, <1>3 DEF OrderInv
<1>4. CASE UNCHANGED vars
  BY <1>3, <1>4 DEF vars, Pipe, OrderInv
<1>5. CASE PollStopped \/ PollRead \/ DecodeFailure \/ DropView
  BY <1>3, <1>5 DEF PollStopped, PollRead, DecodeFailure, DropView, file, view, player, Pipe, OrderInv
<1>6. CASE ReadEnd \/ ReadFailure
  <2>1. Push(buffer) /\ ~reading' /\ UNCHANGED <<decoded, heard, codec, gen, context>>
    BY <1>6 DEF ReadEnd, ReadFailure, file, view, player
  <2>2. Queue' = Queue
    BY <1>1, <2>1, PushQueue DEF Queue
  <2>3. Pipe' = heard' \o Queue'
    BY <1>1, Regroup DEF Pipe, Queue, TypeOK
  <2> QED BY <1>1, <1>3, <2>1, <2>2, <2>3
<1>7. CASE ReadPacket
  <2>1. PICK held \in Seq(Nat) :
          Receive(held) /\ CodecOK(held, gen) /\ NextGen(held, gen) = NextGen(codec, gen)
    BY <1>1, <1>7, HeldOK DEF OrderInv
  <2>2. context /\ ~reading' /\ UNCHANGED <<context, heard, gen>>
    BY <1>7 DEF ReadPacket, view, player, OrderInv
  <2>3. /\ InOrder(Pipe') /\ Below(Pipe', decoded', NextGen(codec', gen))
        /\ MayFollow(Pipe', decoded', NextGen(codec', gen))
        /\ CodecOK(codec', gen)
    BY <1>1, <2>1, <2>2, ReceiveOrder
  <2> QED BY <1>1, <2>2, <2>3 DEF OrderInv
\* An opening empties the codec, a seek keeps what it holds: in both cases the
\* next frame is of no earlier generation.
<1>8. ASSUME UNCHANGED <<decoded, heard, cache, reading>>, ~reading,
             buffer' \in {<< >>, buffer}, gen' \in {gen, gen + 1},
             \/ codec' = << >> /\ (context' => gen' = gen + 1)
             \/ codec' = codec /\ buffer' = buffer /\ context' = context
      PROVE  OrderInv'
  <2>1. /\ Pipe' \in Seq(Sample) /\ InOrder(Pipe')
        /\ Below(Pipe', decoded, NextGen(codec, gen))
        /\ buffer' = buffer => Pipe' = Pipe
    BY <1>1, <1>8, DropOrder DEF OrderInv
  <2> DEFINE g == NextGen(codec, gen)
             h == NextGen(codec', gen')
  <2>2. /\ h \in Nat /\ g <= h /\ CodecOK(codec', gen')
        /\ h = g \/ g < h
        /\ codec' = << >> => h = gen'
    <3>1. CASE codec' = << >>
      BY <1>1, <1>2, <1>8, <3>1 DEF NextGen, CodecOK
    <3>2. CASE codec' = codec /\ codec # << >>
      <4>1. CodecOK(codec, gen) /\ \A i \in 1 .. Len(codec) : codec[i] \in Nat
        BY <1>1 DEF OrderInv
      <4>2. CodecOK(codec, gen + 1)
        BY <1>1, <4>1 DEF CodecOK
      <4>3. CodecOK(codec', gen')
        BY <1>8, <3>2, <4>1, <4>2
      <4> QED BY <1>2, <3>2, <4>3 DEF NextGen
    <3> QED BY <1>8, <3>1, <3>2
  <2>3. Below(Pipe', decoded, h)
    <3>1. g \in Nat /\ Below(Pipe', decoded, g) /\ decoded <= decoded
      BY <1>1, <1>2, <2>1
    <3> HIDE DEF g, h
    <3> QED BY <1>1, <2>1, <2>2, <3>1, BelowMore
  <2>4. ASSUME context' PROVE MayFollow(Pipe', decoded, h)
    <3>1. CASE g < h
      <4>1. Below(Pipe', decoded, g) /\ g \in Nat
        BY <1>2, <2>1
      <4> HIDE DEF g, h
      <4> QED BY <1>1, <2>1, <2>2, <3>1, <4>1, FollowNew
    <3>2. CASE h = g
      <4>1. codec' = codec /\ buffer' = buffer /\ context
        <5>1. CASE codec' = << >> /\ gen' = gen + 1
          BY <1>1, <1>2, <2>2, <3>2, <5>1
        <5> QED BY <1>8, <2>4, <5>1
      <4> QED BY <2>1, <3>2, <4>1 DEF OrderInv
    <3> QED BY <2>2, <3>1, <3>2
  <2> QED BY <1>1, <1>8, <2>1, <2>2, <2>3, <2>4 DEF OrderInv
<1>9. CASE Open
  BY <1>8, <1>9 DEF Open, Idle, player
<1>10. CASE OpenFailure
  BY <1>8, <1>10 DEF OpenFailure, Idle, player, view
<1>11. CASE Seek
  BY <1>8, <1>11 DEF Seek, Idle, player, view, file
<1>12. ASSUME NEW out \in OutLens, ProcessCount(out) PROVE OrderInv'
  BY <1>3, <1>12 DEF ProcessCount, file, view, Pipe, OrderInv
\* The last output is forgotten; what was queued is the new output and the rest.
<1>13. CASE ProcessPop
  <2>1. heard' \in Seq(Sample) /\ Queue' \in Seq(Sample) /\ Queue = heard' \o Queue'
    BY <1>1, <1>13, PopQueue
  <2>2. UNCHANGED <<context, codec, decoded, reading, gen>>
    BY <1>13 DEF ProcessPop, file, view
  <2>3. Pipe' = Queue
    <3>1. Pipe' = heard' \o Queue'
      BY <1>1, Regroup DEF Pipe, Queue, TypeOK
    <3> QED BY <2>1, <3>1
  <2> DEFINE g == NextGen(codec, gen)
  <2>4. /\ InOrder(heard \o Queue) /\ Below(heard \o Queue, decoded, g)
        /\ context => MayFollow(heard \o Queue, decoded, g)
    BY <1>1 DEF OrderInv
  <2> HIDE DEF g
  <2>5. /\ InOrder(Queue) /\ Below(Queue, decoded, g)
        /\ context => MayFollow(Queue, decoded, g)
    BY <1>1, <2>4, OrderParts, BelowParts, FollowParts
  <2> QED BY <1>1, <2>2, <2>3, <2>5 DEF OrderInv, g
<1> QED
  BY <1>4, <1>5, <1>6, <1>7, <1>9, <1>10, <1>11, <1>12, <1>13 DEF Next, Read, Process

LEMMA OrderSafe == OrderInv => InSequence
<1> SUFFICES ASSUME OrderInv, NEW i \in 1 .. Len(Pipe) - 1
             PROVE  /\ Pipe[i].gen <= Pipe[i + 1].gen
                    /\ \/ Pipe[i + 1].num = Pipe[i].num + 1
                       \/ Pipe[i + 1].num > Pipe[i].num /\ Pipe[i].gen < Pipe[i + 1].gen
  BY DEF InSequence
<1>1. Pipe \in Seq(Sample) /\ InOrder(Pipe)
  BY PipeParts DEF OrderInv
<1>2. i \in 1 .. Len(Pipe) /\ i + 1 \in 1 .. Len(Pipe) /\ i < i + 1
  BY <1>1
<1>3. /\ Pipe[i].num \in Nat /\ Pipe[i].gen \in Nat
      /\ Pipe[i + 1].num \in Nat /\ Pipe[i + 1].gen \in Nat
  BY <1>1, <1>2, SampleTypes
<1> QED BY <1>1, <1>2, <1>3 DEF InOrder

LEMMA OrderInvariant == Spec => []OrderInv
<1> QED BY OrderInit, OrderStep, PTL DEF Spec

\* Whatever the amounts that are read, moved and popped, and whatever is opened
\* and sought in between, samples are played in the order they were decoded and
\* none is missing within a generation.
THEOREM PlayedInSequence == Spec => []InSequence
<1> QED BY OrderInvariant, OrderSafe, PTL

-----------------------------------------------------------------------------
(***************************************************************************)
(* The reader and the view play files back                                 *)
(***************************************************************************)
LEMMA JoinCut ==
    ASSUME NEW s \in Seq(Sample), NEW t \in Seq(Sample)
    PROVE  /\ Len(s) \in 0 .. Len(s \o t) /\ s \o t \in Seq(Sample)
           /\ SubSeq(s \o t, 1, Len(s)) = s
           /\ SubSeq(s \o t, Len(s) + 1, Len(s \o t)) = t
<1> DEFINE u == s \o t
           n == Len(s)
<1>1. /\ u \in Seq(Sample) /\ Len(u) = n + Len(t) /\ n \in Nat /\ Len(t) \in Nat
      /\ \A i \in 1 .. n : u[i] = s[i]
      /\ \A i \in 1 .. Len(t) : u[n + i] = t[i]
  BY Parts
<1> HIDE DEF u
<1>2. n \in 0 .. Len(u)
  BY <1>1
<1>3. /\ SubSeq(u, 1, n) \in Seq(Sample) /\ Len(SubSeq(u, 1, n)) = n
      /\ \A i \in 1 .. n : SubSeq(u, 1, n)[i] = u[i]
      /\ SubSeq(u, n + 1, Len(u)) \in Seq(Sample)
      /\ Len(SubSeq(u, n + 1, Len(u))) = Len(u) - n
      /\ \A i \in 1 .. Len(u) - n : SubSeq(u, n + 1, Len(u))[i] = u[n + i]
  <2> HIDE DEF n
  <2> QED BY <1>1, <1>2, Cut, Zenon
<1>4. SubSeq(u, 1, n) = s
  BY <1>1, <1>3, SeqEqual
<1>5. SubSeq(u, n + 1, Len(u)) = t
  BY <1>1, <1>3, SeqEqual
<1> QED BY <1>1, <1>2, <1>4, <1>5 DEF u

\* What the reader receives is what the specification decodes.
LEMMA DecodeStep ==
    ASSUME OrderInv, ReadPacket
    PROVE  P!Turn \/ P!Decode
<1>1. /\ reading /\ reading' = FALSE /\ playing \in BOOLEAN /\ context /\ UNCHANGED <<heard, gen, playing, context>>
      /\ TypeOK /\ decoded \in Nat /\ gen \in Nat
      /\ MayFollow(Queue, decoded, NextGen(codec, gen))
  <2>1. /\ TypeOK /\ context /\ MayFollow(heard \o Queue, decoded, NextGen(codec, gen))
        /\ heard \in Seq(Sample) /\ Queue \in Seq(Sample)
    BY PipeParts DEF ReadPacket, OrderInv, TypeOK
  <2>2. MayFollow(Queue, decoded, NextGen(codec, gen))
    BY <2>1, FollowParts
  <2> QED BY <2>1, <2>2 DEF ReadPacket, view, player, TypeOK
<1>2. PICK held \in Seq(Nat) :
        Receive(held) /\ CodecOK(held, gen) /\ NextGen(held, gen) = NextGen(codec, gen)
  BY <1>1, HeldOK DEF OrderInv
<1>3. CASE Queue' = Queue /\ decoded' = decoded
  BY <1>1, <1>3 DEF P!Turn, Queue
<1>4. ASSUME NEW size \in FrameSizes, held # << >>, decoded' = decoded + size,
             Queue' = Queue \o Samples(held[1], size)
      PROVE  P!Decode
  <2> DEFINE g == held[1]
  <2>1. g = NextGen(codec, gen) /\ size \in Nat \ {0}
    BY <1>2, <1>4, SizeAssumption DEF NextGen
  <2>2. g \in 0 .. gen
    BY <1>1, <1>2, <2>1, NextGenBound
  <2> HIDE DEF g
  <2>3. P!Follows(g)
    BY <1>1, <2>1 DEF P!Follows, MayFollow, Queue
  <2>4. decoded' - decoded = size /\ decoded' \in Nat /\ decoded' > decoded
    BY <1>1, <1>4, <2>1
  <2>5. P!Frames(decoded, decoded', g) = Samples(g, size)
    BY <2>4 DEF P!Frames, Samples
  <2>6. Queue' = Queue \o P!Frames(decoded, decoded', g)
    BY <1>4, <2>5 DEF g
  <2> QED BY <1>1, <2>2, <2>3, <2>4, <2>6 DEF P!Decode, Queue
<1> QED BY <1>1, <1>2, <1>3, <1>4, ReceiveQueue

\* An opening or a seek leaves the queue, or the first part of it.
LEMMA CutStep ==
    ASSUME TypeOK, UNCHANGED <<decoded, heard, cache, reading, playing>>,
           ~reading, ~playing, gen' \in {gen, gen + 1}, buffer' \in {<< >>, buffer}
    PROVE  P!Cut
<1>1. cache \in Seq(Sample) /\ buffer \in Seq(Sample) /\ Queue \in Seq(Sample)
  BY PipeParts DEF TypeOK
<1>2. \E n \in 0 .. Len(Queue) : Queue' = SubSeq(Queue, 1, n)
  <2>1. CASE buffer' = buffer
    <3>1. Len(Queue) \in 0 .. Len(Queue) /\ SubSeq(Queue, 1, Len(Queue)) = Queue
      BY <1>1, SubSeqFull
    <3>2. Queue' = Queue
      BY <2>1 DEF Queue
    <3> QED BY <3>1, <3>2
  <2>2. CASE buffer' = << >>
    <3>1. Queue' = cache
      BY <1>1, <2>2, ConcatEmptySeq DEF Queue
    <3>2. Len(cache) \in 0 .. Len(Queue) /\ SubSeq(Queue, 1, Len(cache)) = cache
      BY <1>1, JoinCut DEF Queue
    <3> QED BY <3>1, <3>2
  <2> QED BY <2>1, <2>2
<1> QED BY <1>2 DEF P!Cut, Queue

LEMMA RefinementStep == OrderInv /\ [Next]_vars => [P!Next]_(P!vars)
<1> SUFFICES ASSUME OrderInv, [Next]_vars
             PROVE  P!Next \/ UNCHANGED <<decoded, Queue, heard, gen, reading, playing>>
  BY DEF P!vars, Queue
<1>1. TypeOK /\ TypeOK' /\ buffer \in Seq(Sample)
  <2>1. TypeOK /\ TypeOK'
    BY TypeStep DEF OrderInv
  <2> QED BY <2>1 DEF TypeOK
<1>2. CASE UNCHANGED vars \/ PollStopped \/ DropView
  BY <1>2 DEF vars, PollStopped, DropView, file, view, player, Queue
<1>3. ASSUME UNCHANGED <<decoded, Queue, heard, gen>>,
             reading' = reading \/ playing' = playing
      PROVE  P!Next
  BY <1>1, <1>3 DEF P!Next, P!Turn, Queue, TypeOK
<1>4. CASE PollRead \/ DecodeFailure
  BY <1>3, <1>4 DEF PollRead, DecodeFailure, view, player, Queue
<1>5. CASE ReadEnd \/ ReadFailure
  <2>1. Push(buffer) /\ UNCHANGED <<decoded, heard, gen, playing>>
    BY <1>5 DEF ReadEnd, ReadFailure, file, view, player
  <2>2. Queue' = Queue
    BY <1>1, <2>1, PushQueue DEF Queue
  <2> QED BY <1>3, <2>1, <2>2
<1>6. CASE ReadPacket
  BY <1>6, DecodeStep DEF P!Next
<1>7. CASE Open
  BY <1>1, <1>7, CutStep DEF Open, Idle, player, P!Next
<1>8. CASE OpenFailure
  BY <1>1, <1>8, CutStep DEF OpenFailure, Idle, player, view, P!Next
<1>9. CASE Seek
  BY <1>1, <1>9, CutStep DEF Seek, Idle, player, view, file, P!Next
<1>10. ASSUME NEW out \in OutLens, ProcessCount(out) PROVE P!Next
  BY <1>3, <1>10 DEF ProcessCount, file, view, Queue
<1>11. CASE ProcessPop
  <2>1. heard' \in Seq(Sample) /\ Queue' \in Seq(Sample) /\ Queue = heard' \o Queue'
    BY <1>1, <1>11, PopQueue
  <2>2. PICK p \in Seq(Sample), q \in Seq(Sample) : p = heard' /\ q = Queue'
    BY <2>1
  <2>3. \E n \in 0 .. Len(p \o q) :
           p = SubSeq(p \o q, 1, n) /\ q = SubSeq(p \o q, n + 1, Len(p \o q))
    BY JoinCut
  <2>4. \E n \in 0 .. Len(Queue) :
           heard' = SubSeq(Queue, 1, n) /\ Queue' = SubSeq(Queue, n + 1, Len(Queue))
    BY <2>1, <2>2, <2>3
  <2> QED BY <1>11, <2>4 DEF ProcessPop, file, view, P!Next, P!Play, Queue
<1> QED
  BY <1>2, <1>4, <1>5, <1>6, <1>7, <1>8, <1>9, <1>10, <1>11 DEF Next, Read, Process

\* The future and the audio thread, each at its own pace, with a buffer and a
\* cache of any size between them, do what Playback says: whatever is decoded is
\* played once and in order, and only an opening leaves samples out.
THEOREM Refinement == Spec => PlaysBack
<1>1. Init => P!Init
  <2> SUFFICES ASSUME Init PROVE P!Init
    OBVIOUS
  <2> QED BY NoSamples, ConcatEmptySeq DEF Init, P!Init
<1> QED BY <1>1, OrderInvariant, RefinementStep, PTL DEF Spec, PlaysBack, P!Spec

=============================================================================
