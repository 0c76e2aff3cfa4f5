--------------------------- MODULE BuffersProofs ---------------------------
(***************************************************************************)
(* Proofs about Buffers, for every number of channels and samples.         *)
(***************************************************************************)
EXTENDS Buffers, TLAPS

-----------------------------------------------------------------------------
(***************************************************************************)
(* Positions                                                               *)
(***************************************************************************)
\* A position is its channel plus its sample times the number of channels.
LEMMA Split ==
    ASSUME NEW p \in Nat, NEW n \in Nat \ {0}
    PROVE  /\ p % n \in 0 .. n - 1 /\ p \div n \in Nat
           /\ p = (p % n) + (p \div n) * n
BY Z3

\* There is one way to write it so.
LEMMA Unique ==
    ASSUME NEW n \in Nat \ {0}, NEW c \in 0 .. n - 1, NEW d \in 0 .. n - 1,
           NEW k \in Nat, NEW l \in Nat, c + k * n = d + l * n
    PROVE  c = d /\ k = l
<1>1. (k - l) * n = d - c
  BY Z3
<1>2. d - c < n /\ d - c > - n
  OBVIOUS
<1>3. k - l = 0
  <2>1. CASE k - l >= 1
    <3>1. (k - l) * n >= n
      BY <2>1, Z3
    <3> QED BY <3>1, <1>1, <1>2
  <2>2. CASE k - l <= -1
    <3>1. (k - l) * n <= - n
      BY <2>2, Z3
    <3> QED BY <3>1, <1>1, <1>2
  <2> QED BY <2>1, <2>2
<1> QED BY <1>1, <1>3, Z3

LEMMA Position ==
    ASSUME NEW n \in Nat \ {0}, NEW c \in 0 .. n - 1, NEW k \in Nat
    PROVE  (c + k * n) \in Nat /\ (c + k * n) % n = c /\ (c + k * n) \div n = k
<1> DEFINE p == c + k * n
<1>1. k * n \in Nat
  BY Z3
<1>2. p \in Nat
  BY <1>1
<1>3. /\ p % n \in 0 .. n - 1 /\ p \div n \in Nat
      /\ p = (p % n) + (p \div n) * n
  BY <1>2, Split
<1>4. p % n = c /\ p \div n = k
  BY <1>3, Unique
<1> QED BY <1>2, <1>4

\* A position among c channels of m samples is of one of these samples.
LEMMA Bounded ==
    ASSUME NEW n \in Nat \ {0}, NEW m \in Nat, NEW p \in Nat, p < n * m
    PROVE  p \div n \in 0 .. m - 1
<1>1. p \div n \in Nat /\ (p \div n) * n <= p
  BY Split
<1>2. ASSUME p \div n >= m PROVE FALSE
  <2>1. (p \div n) * n >= m * n
    BY <1>1, <1>2, Z3
  <2>2. m * n = n * m
    BY Z3
  <2> QED BY <1>1, <2>1, <2>2
<1> QED BY <1>1, <1>2

LEMMA Product == ASSUME NEW a \in Nat, NEW b \in Nat PROVE a * b \in Nat
BY Z3

LEMMA Bigger ==
    ASSUME NEW a \in Nat, NEW b \in Nat, NEW c \in 0 .. a, NEW d \in 0 .. b
    PROVE  c * d <= a * b
<1>1. c * d <= a * d
  BY Z3
<1>2. a * d <= a * b
  BY Z3
<1>3. c * d \in Nat /\ a * d \in Nat /\ a * b \in Nat
  BY Product
<1> QED BY <1>1, <1>2, <1>3

-----------------------------------------------------------------------------
(***************************************************************************)
(* The inductive invariant                                                 *)
(***************************************************************************)
Views == [channel : Nat, at : Nat, end : Nat, open : BOOLEAN]
Sources == [channels : Layouts, len : Nat]

Typed ==
    /\ interleaved \in BOOLEAN /\ channels \in Layouts
    /\ data \in Seq(Samples) /\ frames \in Frames
    /\ source \in Sources /\ source.len <= source.channels * MaxFrames
    /\ view \in Views /\ visited \subseteq 0 .. Len(data) - 1
    /\ mix \in {"silent", "mixed", "stale", "panicked"}

\* The iterator is on a sample of its channel, and has visited those before.
Iterates ==
    /\ view.channel \in 0 .. channels - 1 /\ view.end = Len(data)
    /\ view.at % channels = view.channel
    /\ \A p \in visited : p % channels = view.channel
    /\ \A p \in 0 .. Len(data) - 1 :
          (p < view.at /\ p % channels = view.channel) => p \in visited

Borrowed ==
    /\ view.open => mix # "panicked" /\ Iterates
    /\ ~view.open => visited = {}

\* What a merge of the source into silence has at a position.
Mix(p) ==
    {sample \in {SourceSample(q) : q \in 0 .. source.len - 1} :
        sample = <<p % channels, p \div channels>>}

Mixes ==
    /\ mix = "silent" => \A i \in DOMAIN data : data[i] = {}
    /\ mix = "mixed" => \A i \in DOMAIN data : data[i] = Mix(i - 1)

IInv == Typed /\ SamplesKept /\ Borrowed /\ Mixes

-----------------------------------------------------------------------------
(***************************************************************************)
(* What is merged                                                          *)
(***************************************************************************)
LEMMA PositionOf ==
    ASSUME Typed, SamplesKept, NEW p \in 0 .. Len(data) - 1
    PROVE  /\ p \in Nat /\ channels \in Nat \ {0}
           /\ p % channels \in 0 .. channels - 1 /\ p \div channels \in 0 .. frames - 1
           /\ p = (p % channels) + (p \div channels) * channels
<1>1. p \in Nat /\ p < channels * frames /\ channels \in Nat /\ frames \in Nat
  BY BoundsAssumption DEF Typed, SamplesKept, Layouts, Frames
<1>2. channels # 0
  BY <1>1, Z3
<1> QED BY <1>1, <1>2, Split, Bounded

LEMMA SourcePosition ==
    ASSUME Typed, NEW q \in 0 .. source.len - 1
    PROVE  /\ q \in Nat /\ source.channels \in Nat \ {0}
           /\ source.channels <= MaxChannels
           /\ q % source.channels \in 0 .. source.channels - 1
           /\ q \div source.channels \in 0 .. MaxFrames - 1
           /\ q = (q % source.channels) + (q \div source.channels) * source.channels
<1> DEFINE n == source.channels
<1>1. /\ q \in Nat /\ q < source.len /\ source.len <= n * MaxFrames
      /\ n \in Nat /\ n <= MaxChannels /\ MaxFrames \in Nat /\ source.len \in Nat
  BY BoundsAssumption DEF Typed, Layouts, Sources
<1> HIDE DEF n
<1>2. n # 0
  BY <1>1, Z3
<1>3. n * MaxFrames \in Nat
  BY <1>1, Product
<1>4. q < n * MaxFrames
  BY <1>1, <1>3
<1>5. /\ q % n \in 0 .. n - 1 /\ q \div n \in 0 .. MaxFrames - 1
      /\ q = (q % n) + (q \div n) * n
  BY <1>1, <1>2, <1>4, Split, Bounded
<1> QED BY <1>1, <1>2, <1>5 DEF n

\* zip_map pairs the samples of the same channel and time.
LEMMA ZippedSame ==
    ASSUME Typed, SamplesKept, NEW p \in 0 .. Len(data) - 1, NEW q \in 0 .. source.len - 1
    PROVE  <<p, q>> \in Zipped <=> SourceSample(q) = <<p % channels, p \div channels>>
<1> DEFINE n == source.channels
<1>1. /\ p \in Nat /\ channels \in Nat \ {0}
      /\ p % channels \in 0 .. channels - 1 /\ p \div channels \in 0 .. frames - 1
      /\ p = (p % channels) + (p \div channels) * channels
  BY PositionOf
<1>2. /\ q \in Nat /\ n \in Nat \ {0}
      /\ q % n \in 0 .. n - 1 /\ q \div n \in 0 .. MaxFrames - 1
      /\ q = (q % n) + (q \div n) * n
  BY SourcePosition
<1>3. MaxFrames \in Nat /\ frames <= MaxFrames /\ frames \in Nat
  BY BoundsAssumption DEF Typed, Frames
<1>4. SourceSample(q) = <<q % n, q \div n>>
  BY DEF SourceSample
<1> HIDE DEF n
<1>5. ASSUME <<p, q>> \in Zipped PROVE SourceSample(q) = <<p % channels, p \div channels>>
  <2>1. PICK c \in 0 .. Least(channels, n) - 1, k \in Frames :
           <<p, q>> = <<Item(c, k, channels), Item(c, k, n)>>
    BY <1>5 DEF Zipped, n
  <2>2. c \in 0 .. channels - 1 /\ c \in 0 .. n - 1 /\ k \in Nat
    BY <1>1, <1>2, <1>3 DEF Least, Frames
  <2>3. p = c + k * channels /\ q = c + k * n
    BY <2>1 DEF Item
  <2>4. p % channels = c /\ p \div channels = k
    BY <1>1, <2>2, <2>3, Position
  <2>5. q % n = c /\ q \div n = k
    BY <1>2, <2>2, <2>3, Position
  <2> QED BY <1>4, <2>4, <2>5
<1>6. ASSUME SourceSample(q) = <<p % channels, p \div channels>> PROVE <<p, q>> \in Zipped
  <2> DEFINE c == p % channels
             k == p \div channels
  <2>1. q % n = c /\ q \div n = k
    BY <1>4, <1>6
  <2>2. p = c + k * channels /\ q = c + k * n
    BY <1>1, <1>2, <2>1
  <2>3. c \in 0 .. Least(channels, n) - 1
    BY <1>1, <1>2, <2>1 DEF Least
  <2>4. k \in Frames
    BY <1>1, <1>3 DEF Frames
  <2>5. <<p, q>> = <<Item(c, k, channels), Item(c, k, n)>>
    BY <2>2 DEF Item
  <2> HIDE DEF c, k
  <2> QED BY <2>3, <2>4, <2>5 DEF Zipped, n
<1> QED BY <1>5, <1>6

LEMMA FromIs ==
    ASSUME Typed, SamplesKept, NEW p \in 0 .. Len(data) - 1
    PROVE  From(p) = Mix(p) /\ From(p) \in Samples
<1>1. \A q \in 0 .. source.len - 1 :
         <<p, q>> \in Zipped <=> SourceSample(q) = <<p % channels, p \div channels>>
  BY ZippedSame
<1>2. From(p) = Mix(p)
  BY <1>1, Zenon DEF From, Mix
<1>3. ASSUME NEW q \in 0 .. source.len - 1
      PROVE SourceSample(q) \in (0 .. MaxChannels - 1) \X (0 .. MaxFrames - 1)
  <2>1. /\ source.channels \in Nat /\ source.channels <= MaxChannels
        /\ q % source.channels \in 0 .. source.channels - 1
        /\ q \div source.channels \in 0 .. MaxFrames - 1
    BY SourcePosition
  <2>2. q % source.channels \in 0 .. MaxChannels - 1
    BY <2>1, BoundsAssumption
  <2> QED BY <2>1, <2>2 DEF SourceSample
<1>4. From(p) \in Samples
  BY <1>3 DEF From, Samples
<1> QED BY <1>2, <1>4

-----------------------------------------------------------------------------
(***************************************************************************)
(* Steps                                                                   *)
(***************************************************************************)
LEMMA InitIInv == Init => IInv
<1> SUFFICES ASSUME Init PROVE IInv
  OBVIOUS
<1>1. PICK c \in Layouts : \E len \in 0 .. c * MaxFrames : source = [channels |-> c, len |-> len]
  BY DEF Init
<1>2. PICK len \in 0 .. c * MaxFrames : source = [channels |-> c, len |-> len]
  BY <1>1
<1>3. c * MaxFrames \in Nat
  BY BoundsAssumption, Product DEF Layouts
<1>4. source \in Sources /\ source.len <= source.channels * MaxFrames
  BY <1>2, <1>3 DEF Sources
<1>5. Typed
  BY <1>4, BoundsAssumption DEF Init, Typed, Closed, Views, Frames
<1>6. channels * 0 = 0
  BY BoundsAssumption DEF Init, Layouts
<1> QED BY <1>5, <1>6 DEF Init, IInv, SamplesKept, Borrowed, Mixes, Closed

\* A buffer that is resized is silent if it was, and out of date otherwise.
LEMMA ResizedIInv ==
    ASSUME IInv, Usable, NEW len \in Nat,
           data' = Resized(len), mix' = Invalidated, len = channels' * frames',
           channels' \in Layouts, frames' \in Frames,
           UNCHANGED <<interleaved, source, view, visited>>
    PROVE  IInv'
<1>1. data' \in Seq(Samples) /\ Len(data') = len
  BY DEF IInv, Typed, Resized, Samples
<1>2. mix' \in {"silent", "stale"}
  BY DEF Invalidated
<1>3. visited = {} /\ ~view.open
  BY DEF IInv, Borrowed, Usable
<1>4. Typed'
  BY <1>1, <1>2, <1>3 DEF IInv, Typed
<1>5. SamplesKept'
  BY <1>1, <1>2 DEF SamplesKept
<1>6. Borrowed'
  BY <1>3 DEF Borrowed
<1>7. Mixes'
  <2>1. ASSUME mix' = "silent", NEW j \in DOMAIN data' PROVE data'[j] = {}
    <3>1. mix = "silent" \/ data = << >>
      BY <2>1 DEF Invalidated
    <3>2. j \in 1 .. len /\ data'[j] = IF j <= Len(data) THEN data[j] ELSE {}
      BY <2>1, <1>1 DEF Resized
    <3>3. \A i \in DOMAIN data : data[i] = {}
      BY <3>1 DEF IInv, Mixes
    <3> QED BY <3>2, <3>3 DEF IInv, Typed
  <2> QED BY <2>1, <1>2 DEF Mixes
<1> QED BY <1>4, <1>5, <1>6, <1>7 DEF IInv

LEMMA ResizeStep ==
    ASSUME IInv, NEW c \in Layouts, NEW n \in Frames, Resize(c, n)
    PROVE  IInv'
<1>1. c \in Nat /\ n \in Nat
  BY BoundsAssumption DEF Layouts, Frames
<1>2. c * n \in Nat
  BY <1>1, Product
<1> QED BY <1>2, ResizedIInv DEF Resize

LEMMA ResizeChannelsStep ==
    ASSUME IInv, NEW c \in Layouts, ResizeChannels(c)
    PROVE  IInv'
<1>1. /\ c \in Nat /\ channels \in Nat /\ frames \in Nat /\ frames \in Frames
      /\ Len(data) = channels * frames
  BY BoundsAssumption DEF Layouts, Frames, IInv, Typed, SamplesKept
<1>2. CASE channels = 0
  BY <1>2 DEF IInv, Typed, SamplesKept, Borrowed, Mixes, ResizeChannels, Usable
<1>3. CASE channels # 0
  <2>1. 0 + frames * channels = channels * frames
    BY <1>1, Z3
  <2>2. NSamples = frames
    BY <1>1, <1>3, <2>1, Position DEF NSamples
  <2>3. c * frames \in Nat
    BY <1>1, Product
  <2> QED BY <1>1, <1>3, <2>2, <2>3, ResizedIInv DEF ResizeChannels
<1> QED BY <1>2, <1>3

LEMMA ClearStep == ASSUME IInv, Clear PROVE IInv'
<1>1. channels * 0 = 0
  BY BoundsAssumption DEF IInv, Typed, Layouts
<1>2. visited = {} /\ ~view.open
  BY DEF IInv, Borrowed, Clear, Usable
<1> QED BY <1>1, <1>2, BoundsAssumption DEF Clear, IInv, Typed, SamplesKept, Borrowed, Mixes, Frames

\* Filled, merged into and copied to: the same length.
LEMMA WrittenIInv ==
    ASSUME IInv, Usable, data' \in Seq(Samples), Len(data') = Len(data),
           mix' \in {"silent", "mixed", "stale"}, Mixes',
           UNCHANGED <<interleaved, channels, frames, source, view, visited>>
    PROVE  IInv'
BY DEF IInv, Usable, Typed, SamplesKept, Borrowed

LEMMA FillStep == ASSUME IInv, Fill PROVE IInv'
<1>1. data' \in Seq(Samples) /\ Len(data') = Len(data)
  BY DEF Fill, IInv, Typed, Samples
<1>2. Mixes'
  BY DEF Fill, Mixes
<1> QED BY <1>1, <1>2, WrittenIInv DEF Fill

LEMMA MergeStep == ASSUME IInv, Merge \/ Copy PROVE IInv'
<1>1. \A i \in DOMAIN data :
         /\ From(i - 1) = Mix(i - 1) /\ From(i - 1) \in Samples /\ data[i] \in Samples
  <2>1. ASSUME NEW i \in DOMAIN data
        PROVE From(i - 1) = Mix(i - 1) /\ From(i - 1) \in Samples /\ data[i] \in Samples
    <3>1. i - 1 \in 0 .. Len(data) - 1 /\ data[i] \in Samples
      BY DEF IInv, Typed
    <3> QED BY <3>1, FromIs DEF IInv
  <2> QED BY <2>1
<1>2. data' \in Seq(Samples) /\ Len(data') = Len(data) /\ DOMAIN data' = DOMAIN data
  <2>1. \A i \in DOMAIN data : data[i] \cup From(i - 1) \in Samples
    BY <1>1 DEF Samples
  <2>2. Len(data) \in Nat /\ DOMAIN data = 1 .. Len(data)
    BY DEF IInv, Typed
  <2>3. CASE Merge
    BY <2>1, <2>2, <2>3 DEF Merge
  <2>4. CASE Copy
    BY <1>1, <2>2, <2>4 DEF Copy
  <2> QED BY <2>3, <2>4
<1>3. mix' = Mixing /\ mix' \in {"silent", "mixed", "stale"} /\ mix' # "silent"
  BY DEF Merge, Copy, Mixing, IInv, Typed, Usable
<1>4. ASSUME mix' = "mixed", NEW i \in DOMAIN data' PROVE data'[i] = Mix(i - 1)'
  <2>1. mix \in {"silent", "mixed"}
    BY <1>3, <1>4 DEF Mixing, IInv, Typed
  <2>2. data[i] = {} \/ data[i] = From(i - 1)
    BY <1>1, <1>2, <1>4, <2>1 DEF IInv, Mixes
  <2>3. \/ data'[i] = data[i] \cup From(i - 1)
        \/ data'[i] = IF From(i - 1) = {} THEN data[i] ELSE From(i - 1)
    BY <1>2, <1>4 DEF Merge, Copy
  <2>4. data'[i] = From(i - 1)
    BY <2>2, <2>3
  <2>5. Mix(i - 1)' = Mix(i - 1)
    BY DEF Merge, Copy, Mix, SourceSample
  <2> QED BY <1>1, <1>2, <1>4, <2>4, <2>5
<1>5. Mixes'
  BY <1>3, <1>4 DEF Mixes
<1> QED BY <1>2, <1>3, <1>5, WrittenIInv DEF Merge, Copy

LEMMA OpenStep == ASSUME IInv, NEW c \in Layouts, OpenChannel(c) PROVE IInv'
<1>1. c \in Nat /\ c < channels /\ channels \in Nat /\ Len(data) \in Nat
  BY BoundsAssumption DEF OpenChannel, Layouts, IInv, Typed
<1>2. c + 0 * channels = c
  BY <1>1
<1>3. c % channels = c
  BY <1>1, <1>2, Position
<1>4. Typed'
  BY <1>1 DEF OpenChannel, IInv, Typed, Views
<1>5. ASSUME NEW p \in 0 .. Len(data) - 1, p < c, p % channels = c PROVE FALSE
  <2>1. p + 0 * channels = p /\ p \in 0 .. channels - 1
    BY <1>1, <1>5
  <2>2. p % channels = p
    BY <1>1, <2>1, Position
  <2> QED BY <1>5, <2>2
<1>6. Borrowed'
  BY <1>1, <1>3, <1>5 DEF OpenChannel, Usable, Borrowed, Iterates
<1>7. SamplesKept' /\ Mixes'
  BY DEF OpenChannel, IInv, SamplesKept, Mixes, Mix, SourceSample
<1> QED BY <1>4, <1>6, <1>7 DEF IInv

LEMMA NextSampleStep == ASSUME IInv, NextSample PROVE IInv'
<1>1. /\ view.open /\ view.at \in Nat /\ view.at < view.end /\ Iterates /\ view \in Views
      /\ channels \in Nat \ {0} /\ Len(data) \in Nat
  BY BoundsAssumption DEF NextSample, IInv, Borrowed, Iterates, Typed, Layouts, Views
<1>2. /\ view' = [view EXCEPT !.at = view.at + channels] /\ visited' = visited \cup {view.at}
      /\ UNCHANGED <<interleaved, channels, data, frames, source, mix>>
  BY DEF NextSample
<1>3. view' \in Views /\ view'.at = view.at + channels /\ view'.open /\ view'.channel = view.channel
      /\ view'.end = view.end
  BY <1>1, <1>2 DEF Views
<1> DEFINE c == view.channel
           k == view.at \div channels
<1>4. c \in 0 .. channels - 1 /\ k \in Nat /\ view.at = c + k * channels
  BY <1>1, Split DEF Iterates
<1>5. view'.at % channels = c
  <2>1. view.at + channels = c + (k + 1) * channels
    <3> HIDE DEF k
    <3> QED BY <1>1, <1>4, Z3
  <2>2. k + 1 \in Nat
    BY <1>4
  <2>3. channels \in Nat \ {0} /\ c \in 0 .. channels - 1
    BY <1>1, <1>4
  <2> HIDE DEF k, c
  <2>4. (c + (k + 1) * channels) % channels = c
    BY <2>2, <2>3, Position
  <2> QED BY <1>3, <2>1, <2>4
<1>6. ASSUME NEW p \in 0 .. Len(data) - 1, p < view'.at, p % channels = c
      PROVE p \in visited'
  <2>1. CASE p < view.at
    BY <1>1, <1>2, <1>6, <2>1 DEF Iterates
  <2>2. CASE p >= view.at
    <3>1. p \in Nat /\ p \div channels \in Nat /\ p = c + (p \div channels) * channels
      <4>1. p \in Nat /\ channels \in Nat \ {0}
        BY <1>1
      <4>2. /\ p \div channels \in Nat
            /\ p = (p % channels) + (p \div channels) * channels
        BY <4>1, Split
      <4> QED BY <1>6, <4>1, <4>2
    <3> DEFINE l == p \div channels
    <3>2. l = k
      <4> HIDE DEF l, k
      <4>1. l \in Nat /\ k \in Nat /\ l * channels >= k * channels
            /\ l * channels < k * channels + channels
        <5>1. l * channels \in Nat /\ k * channels \in Nat
          BY <1>1, <1>4, <3>1, Product DEF l
        <5>2. /\ view.at = c + k * channels /\ view.at \in Nat /\ p = c + l * channels
              /\ view.at <= p /\ p < view.at + channels /\ p \in Nat /\ c \in Nat
          BY <1>1, <1>3, <1>4, <1>6, <2>2, <3>1 DEF l
        <5> HIDE DEF c
        <5> QED BY <1>1, <1>4, <3>1, <5>1, <5>2 DEF l
      <4>2. (k + 1) * channels = k * channels + channels
        BY <1>1, <4>1, Z3
      <4>3. ASSUME l >= k + 1 PROVE FALSE
        <5>1. l * channels >= (k + 1) * channels
          BY <1>1, <4>1, <4>3, Z3
        <5> QED BY <1>1, <4>1, <4>2, <5>1, Product
      <4>4. ASSUME l < k PROVE FALSE
        <5>1. l + 1 <= k /\ l + 1 \in Nat
          BY <4>1, <4>4
        <5>2. k * channels >= (l + 1) * channels
          BY <1>1, <4>1, <5>1, Z3
        <5>3. (l + 1) * channels = l * channels + channels
          BY <1>1, <4>1, Z3
        <5>4. l * channels \in Nat /\ k * channels \in Nat
          BY <1>1, <4>1, Product
        <5> QED BY <1>1, <4>1, <5>2, <5>3, <5>4
      <4> QED BY <4>1, <4>3, <4>4
    <3>3. p = view.at
      BY <1>4, <3>1, <3>2
    <3> QED BY <1>2, <3>3
  <2> QED BY <1>1, <1>6, <2>1, <2>2
<1>7. Iterates'
  <2>1. \A p \in visited' : p % channels = c
    BY <1>1, <1>2 DEF Iterates
  <2> QED BY <1>1, <1>2, <1>3, <1>5, <1>6, <2>1 DEF Iterates
<1>8. Typed'
  <2>1. visited' \subseteq 0 .. Len(data) - 1
    BY <1>1, <1>2 DEF IInv, Typed, Iterates
  <2> QED BY <1>2, <1>3, <2>1 DEF IInv, Typed
<1>9. SamplesKept' /\ Mixes'
  BY <1>2 DEF IInv, SamplesKept, Mixes, Mix, SourceSample
<1> QED BY <1>1, <1>2, <1>3, <1>7, <1>8, <1>9 DEF IInv, Borrowed

LEMMA IndexStep == ASSUME IInv, NEW index \in Frames, IndexSample(index) PROVE IInv'
<1>1. /\ view.open /\ view.at \in Nat /\ Iterates
      /\ channels \in Nat \ {0} /\ Len(data) \in Nat /\ index \in Nat
  BY BoundsAssumption DEF IndexSample, IInv, Borrowed, Iterates, Typed, Layouts, Views, Frames
<1> DEFINE p == Item(view.at, index, channels)
           c == view.channel
           k == view.at \div channels
<1>2. /\ p < view.end /\ visited' = visited \cup {p}
      /\ UNCHANGED <<interleaved, channels, data, frames, source, view, mix>>
  BY DEF IndexSample
<1>3. c \in 0 .. channels - 1 /\ k \in Nat /\ view.at = c + k * channels
  <2>1. view.at % channels = c
    BY <1>1 DEF Iterates
  <2>2. /\ view.at % channels \in 0 .. channels - 1 /\ k \in Nat
        /\ view.at = (view.at % channels) + k * channels
    BY <1>1, Split
  <2> QED BY <2>1, <2>2
<1>4. p = c + (k + index) * channels /\ k + index \in Nat
  <2> HIDE DEF k
  <2> QED BY <1>1, <1>3, Z3 DEF Item
<1>5. p \in Nat /\ p % channels = c
  <2> HIDE DEF p, k
  <2> QED BY <1>1, <1>3, <1>4, Position
<1> HIDE DEF p
<1>6. Iterates' /\ visited' \subseteq 0 .. Len(data) - 1
  <2>1. p \in 0 .. Len(data) - 1
    BY <1>1, <1>2, <1>5 DEF Iterates
  <2>2. visited' \subseteq 0 .. Len(data) - 1
    BY <1>2, <2>1 DEF IInv, Typed
  <2>3. \A r \in visited' : r % channels = c
    BY <1>1, <1>2, <1>5 DEF Iterates
  <2> QED BY <1>1, <1>2, <2>2, <2>3 DEF Iterates
<1>7. SamplesKept' /\ Mixes'
  BY <1>2 DEF IInv, SamplesKept, Mixes, Mix, SourceSample
<1> QED BY <1>1, <1>2, <1>6, <1>7 DEF IInv, Borrowed, Typed

LEMMA Inductive == IInv /\ [Next]_vars => IInv'
<1> SUFFICES ASSUME IInv, [Next]_vars PROVE IInv'
  OBVIOUS
<1>1. CASE \E c \in Layouts, n \in Frames : Resize(c, n)
  BY <1>1, ResizeStep
<1>2. CASE \E c \in Layouts : ResizeChannels(c) \/ OpenChannel(c)
  BY <1>2, ResizeChannelsStep, OpenStep
<1>3. CASE \E n \in Frames : ResizeSamples(n)
  BY <1>3, ResizeStep DEF ResizeSamples, IInv, Typed
<1>4. CASE Clear
  BY <1>4, ClearStep
<1>5. CASE SetInterleaved
  BY <1>5 DEF SetInterleaved, Usable, IInv, Typed, SamplesKept, Borrowed, Mixes, Mix, SourceSample
<1>6. CASE Fill
  BY <1>6, FillStep
<1>7. CASE Merge \/ Copy
  BY <1>7, MergeStep
<1>8. CASE NextSample
  BY <1>8, NextSampleStep
<1>9. CASE DropChannel
  <2>1. /\ view' = Closed /\ visited' = {}
        /\ UNCHANGED <<interleaved, channels, data, frames, source, mix>>
    BY <1>9 DEF DropChannel
  <2>2. Typed'
    BY <2>1 DEF Closed, Views, IInv, Typed
  <2>3. SamplesKept' /\ Mixes'
    BY <2>1 DEF IInv, SamplesKept, Mixes, Mix, SourceSample
  <2>4. Borrowed'
    BY <2>1 DEF Closed, Borrowed
  <2> QED BY <2>2, <2>3, <2>4 DEF IInv
<1>10. CASE \E index \in Frames : IndexSample(index)
  BY <1>10, IndexStep
<1>11. CASE UNCHANGED vars
  BY <1>11 DEF vars, IInv, Typed, SamplesKept, Borrowed, Iterates, Mixes, Mix, SourceSample
<1> QED
  BY <1>1, <1>2, <1>3, <1>4, <1>5, <1>6, <1>7, <1>8, <1>9, <1>10, <1>11 DEF Next

LEMMA Invariant == Spec => []IInv
BY InitIInv, Inductive, PTL DEF Spec

-----------------------------------------------------------------------------
(***************************************************************************)
(* Theorems                                                                *)
(***************************************************************************)
\* Buffers are never larger than their channels and samples, and an iterator
\* never leaves its buffer, however a buffer was resized before (Buffer::resize,
\* Channel::next, index).
THEOREM TypeCorrect == Spec => []TypeOK
<1>1. IInv => TypeOK
  <2> SUFFICES ASSUME IInv PROVE TypeOK
    OBVIOUS
  <2>1. channels \in 0 .. MaxChannels /\ frames \in 0 .. MaxFrames
        /\ source.channels \in 0 .. MaxChannels /\ MaxFrames \in 0 .. MaxFrames
    BY BoundsAssumption DEF IInv, Typed, Layouts, Frames, Sources
  <2>2. channels * frames <= MaxChannels * MaxFrames
        /\ source.channels * MaxFrames <= MaxChannels * MaxFrames
    BY <2>1, Bigger, BoundsAssumption
  <2>3. MaxChannels * MaxFrames \in Nat /\ source.channels * MaxFrames \in Nat
    BY <2>1, Product, BoundsAssumption
  <2>4. source.len \in 0 .. MaxChannels * MaxFrames
    BY <2>1, <2>2, <2>3 DEF IInv, Typed, Sources
  <2> QED BY <2>1, <2>2, <2>4 DEF IInv, Typed, SamplesKept, TypeOK, Sources, Views, Layouts, Frames
<1> QED BY <1>1, Invariant, PTL

\* Every channel has the samples it was last resized to, in whatever order
\* channels and samples are changed (resize, resize_channels, resize_samples).
THEOREM SizesKept == Spec => []SamplesKept
<1>1. IInv => SamplesKept
  BY DEF IInv
<1> QED BY <1>1, Invariant, PTL

\* A merge or a copy into silence puts every sample of the other buffer at its
\* channel and time, for all numbers of channels and samples (zip_map).
THEOREM MixIsRight == Spec => []Mixed
<1>1. IInv => Mixed
  BY DEF IInv, Mixes, Mixed, Mix
<1> QED BY <1>1, Invariant, PTL

\* Iterators over channels and map_inplace agree on interleaved buffers, for all
\* numbers of channels (Channel::new, next, index, map_inplace).
THEOREM ChannelsRight == Spec => []ChannelsAgree
<1>1. IInv => ChannelsAgree
  <2> SUFFICES ASSUME IInv, view.open, interleaved = TRUE
               PROVE LET own == {p \in 0 .. Len(data) - 1 : MapChannel(p) = view.channel}
                     IN  visited \subseteq own /\ (view.at >= view.end => visited = own)
    BY DEF ChannelsAgree
  <2>1. Iterates /\ visited \subseteq 0 .. Len(data) - 1 /\ view.at \in Nat /\ Len(data) \in Nat
    BY DEF IInv, Borrowed, Typed, Views
  <2>2. \A p \in 0 .. Len(data) - 1 : MapChannel(p) = p % channels
    BY DEF MapChannel
  <2> DEFINE own == {p \in 0 .. Len(data) - 1 : MapChannel(p) = view.channel}
  <2>3. \A p \in own : p \in 0 .. Len(data) - 1 /\ p % channels = view.channel
    BY <2>2
  <2>4. \A p \in visited : p \in own
    BY <2>1, <2>2 DEF Iterates
  <2>5. ASSUME view.at >= view.end, NEW p \in own PROVE p \in visited
    <3>1. p < view.at
      BY <2>1, <2>3, <2>5 DEF Iterates
    <3> QED BY <2>1, <2>3, <3>1 DEF Iterates
  <2> HIDE DEF own
  <2>6. visited \subseteq own /\ (view.at >= view.end => visited = own)
    BY <2>4, <2>5
  <2> QED BY <2>6 DEF own
<1> QED BY <1>1, Invariant, PTL

=============================================================================
