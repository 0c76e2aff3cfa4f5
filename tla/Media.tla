------------------------------- MODULE Media -------------------------------
(***************************************************************************)
(* The media pipeline: the Reader future (format/reader.rs), polled by the *)
(* main thread, decodes a file into its buffer and moves the samples into  *)
(* a ring buffer; the MediaView (dsp/media.rs), in the audio thread, plays *)
(* them from there.  Reader and view share the ring buffer, which needs no *)
(* lock, and a lock on the Reader, which seek, open and drop take.         *)
(*                                                                         *)
(* A sample is the number of its decoding and the generation (the opening  *)
(* or seek) its packet was read in; samples are interleaved, so that its   *)
(* channel is its number modulo the number of channels.                    *)
(***************************************************************************)
EXTENDS Integers, Sequences

CONSTANTS
    Capacity,    \* of the ring buffer, in samples
    Threshold,   \* samples the buffer collects before they are moved (1024)
    Channels,    \* channels of the files that are opened
    FrameSizes,  \* samples of a decoded and resampled frame, all channels
    OutLens,     \* samples of the output buffers given to process_audio
    Streams,     \* the kinds of the streams of a file
    Packets,     \* packets of a file, of all streams that are read
    FramesPer,   \* frames a packet may decode to
    CodecRoom,   \* decoded frames the codec holds before it refuses packets
    Errors,      \* whether reading and decoding may fail
    MaxGen       \* bound on the number of successful openings and seeks

ASSUME SizeAssumption ==
    /\ Capacity \in Nat /\ Threshold \in Nat \ {0} /\ Channels \in Nat \ {0}
    /\ FrameSizes # {}
    /\ \A size \in FrameSizes : size \in Nat \ {0} /\ size % Channels = 0
    /\ \A out \in OutLens : out \in Nat
ASSUME FileAssumption ==
    /\ Packets \in Nat /\ (\A k \in FramesPer : k \in Nat) /\ CodecRoom \in Nat
ASSUME StreamAssumption == Streams \in Seq({"audio", "other"})
ASSUME ModeAssumption == Errors \in BOOLEAN /\ MaxGen \in Nat

VARIABLES
    context,   \* Reader::context: whether a file is open
    position,  \* packets of the file read so far
    codec,     \* generations of the frames the codec holds
    fed,       \* history: the streams whose packets the codec was given
    buffer,    \* Reader::buffer
    decoded,   \* samples decoded so far
    cache,     \* the ring buffer
    reading,   \* poll_once holds the lock and is about to read a packet
    result,    \* what the Reader future returned
    stopped,   \* Reader::stopped; the view is gone
    infos,     \* whether MediaView::infos is set
    playing,   \* process_audio has computed how much it pops
    want,      \* that amount
    heard,     \* what the last process_audio wrote
    gen        \* number of successful openings and seeks

file == <<context, position, codec, fed>>
view == <<stopped, infos, gen>>
player == <<playing, want, heard>>
vars == <<context, position, codec, fed, buffer, decoded, cache, reading,
          result, stopped, infos, playing, want, heard, gen>>

Sample == [num : Nat, gen : Nat]

\* The samples of a frame of a generation.
Samples(g, size) == [i \in 1 .. size |-> [num |-> decoded + i - 1, gen |-> g]]

Free == Capacity - Len(cache)          \* Producer::remaining, Consumer::remaining
Smaller(a, b) == IF a < b THEN a ELSE b

Init ==
    /\ context = FALSE /\ position = 0 /\ codec = << >> /\ fed = {}
    /\ buffer = << >> /\ decoded = 0 /\ cache = << >>
    /\ reading = FALSE /\ result = "pending" /\ stopped = FALSE
    /\ infos = FALSE /\ playing = FALSE /\ want = 0 /\ heard = << >> /\ gen = 0

(***************************************************************************)
(* The streams of a file                                                   *)
(***************************************************************************)
\* audio_stream() without a stream in particular: the first audio stream.
AudioStream ==
    {s \in DOMAIN Streams :
        Streams[s] = "audio" /\ \A r \in 1 .. s - 1 : Streams[r] # "audio"}

\* The loop that discards the streams compares the index of each with itself: its
\* variable hides the stream that was chosen.
Discarded == {stream \in DOMAIN Streams : stream # stream}

(***************************************************************************)
(* The Reader future.  A poll that finds nothing to do returns Pending and *)
(* changes nothing; it always wakes itself.                                *)
(***************************************************************************)
Polled == result = "pending" /\ ~reading

\* Mutated form of PollStopped: without a file the stop is not noticed.
PollStoppedOpen ==
    /\ Polled /\ stopped /\ context
    /\ result' = "ok"
    /\ UNCHANGED <<file, buffer, decoded, cache, reading, view, player>>

PollStopped ==
    /\ Polled /\ stopped
    /\ result' = "ok"
    /\ UNCHANGED <<file, buffer, decoded, cache, reading, view, player>>

\* Mutated form of Hungry: reads as long as there is room for a sample.
HungryToTheLast == Free > 0

Hungry == Free > Len(cache) \div 2

PollRead ==
    /\ Polled /\ ~stopped /\ context /\ Hungry
    /\ reading' = TRUE
    /\ UNCHANGED <<file, buffer, decoded, cache, result, view, player>>

\* Mutated form of Push: what was moved stays in the buffer too.
PushKeeps(samples) ==
    LET moved == Smaller(Free, Len(samples))
    IN  /\ cache' = cache \o SubSeq(samples, 1, moved)
        /\ buffer' = samples

\* data_received: push_slice takes what fits, the rest stays.
Push(samples) ==
    LET moved == Smaller(Free, Len(samples))
    IN  /\ cache' = cache \o SubSeq(samples, 1, moved)
        /\ buffer' = SubSeq(samples, moved + 1, Len(samples))

\* Reader::receive_frame, from a codec that holds the frames of held, and the
\* moving of the buffer once it is large enough.
Receive(held) ==
    IF held = << >>
    THEN codec' = held /\ UNCHANGED <<buffer, decoded, cache>>
    ELSE \E size \in FrameSizes :
            LET samples == buffer \o Samples(Head(held), size)
            IN  /\ codec' = Tail(held)
                /\ decoded' = decoded + size
                /\ IF Len(samples) >= Threshold
                   THEN Push(samples)
                   ELSE buffer' = samples /\ UNCHANGED cache

\* Mutated form of ReadPacket: the end of the file is not noticed.
ReadPacketBeyond ==
    /\ reading
    /\ position' = position + 1
    /\ UNCHANGED fed
    /\ Receive(codec \o <<gen>>)
    /\ reading' = FALSE
    /\ UNCHANGED <<context, result, view, player>>

\* A packet the codec refuses (EAGAIN) is lost: send_packet returns Pending.
ReadPacket ==
    /\ reading /\ position < Packets
    /\ position' = position + 1
    /\ \E s \in DOMAIN Streams \ Discarded : fed' = fed \cup {s}
    /\ \/ Len(codec) >= CodecRoom /\ Receive(codec)
       \/ /\ Len(codec) < CodecRoom
          /\ \E k \in FramesPer : Receive(codec \o [i \in 1 .. k |-> gen])
    /\ reading' = FALSE
    /\ UNCHANGED <<context, result, view, player>>

\* Mutated form of ReadEnd: too few samples for the threshold are kept.
ReadEndKeeps ==
    /\ reading /\ position = Packets
    /\ reading' = FALSE
    /\ UNCHANGED <<file, buffer, decoded, cache, result, view, player>>

\* End of file, or a source without data (EAGAIN): the rest of the buffer is
\* moved and the future stays pending.
ReadEnd ==
    /\ reading /\ (position = Packets \/ Errors)
    /\ Push(buffer)
    /\ reading' = FALSE
    /\ UNCHANGED <<file, decoded, result, view, player>>

\* Mutated form of ReadFailure: an error discards the buffer.
ReadFailureDiscards ==
    /\ Errors /\ reading
    /\ buffer' = << >>
    /\ reading' = FALSE /\ result' = "error"
    /\ UNCHANGED <<file, decoded, cache, view, player>>

ReadFailure ==
    /\ Errors /\ reading
    /\ Push(buffer)
    /\ reading' = FALSE /\ result' = "error"
    /\ UNCHANGED <<file, decoded, view, player>>

\* send_packet or receive_frame fails: the buffer is left as it is.
DecodeFailure ==
    /\ Errors /\ reading /\ position < Packets
    /\ position' = position + 1
    /\ \E s \in DOMAIN Streams \ Discarded : fed' = fed \cup {s}
    /\ reading' = FALSE /\ result' = "error"
    /\ UNCHANGED <<context, codec, buffer, decoded, cache, view, player>>

(***************************************************************************)
(* MediaView                                                               *)
(***************************************************************************)
\* The owner of the view may call a method that locks the Reader.
Idle == ~playing /\ ~stopped /\ ~reading

\* Reader::open closes the file that is open, and then opens the other.
Open ==
    /\ Idle /\ gen < MaxGen /\ AudioStream # {}
    /\ context' = TRUE /\ position' = 0 /\ codec' = << >> /\ fed' = {}
    /\ buffer' = IF context THEN << >> ELSE buffer
    /\ infos' = TRUE /\ gen' = gen + 1
    /\ UNCHANGED <<decoded, cache, reading, result, stopped, player>>

OpenFailure ==
    /\ Idle /\ context
    /\ context' = FALSE /\ codec' = << >> /\ buffer' = << >>
    /\ UNCHANGED <<position, fed, decoded, cache, reading, result, view, player>>

\* The for_each that seek calls on the cache visits the samples and removes none
\* (ringbuf 0.2), so that a seek changes nothing but the position; one that fails
\* changes nothing at all and is no action.
Seek ==
    /\ Idle /\ context /\ gen < MaxGen
    /\ position' \in 0 .. Packets
    /\ gen' = gen + 1
    /\ UNCHANGED <<context, codec, fed, buffer, decoded, cache, reading, result,
                   stopped, infos, player>>

\* Mutated form of ProcessCount: the amount is not rounded to whole frames.
ProcessCountExact(out) ==
    /\ ~playing /\ ~stopped /\ infos
    /\ want' = Smaller(Free, out)
    /\ playing' = TRUE
    /\ UNCHANGED <<file, buffer, decoded, cache, reading, result, view, heard>>

\* process_audio: what it pops is computed from the free space of the cache.  It
\* panics on a view that was never opened (no infos), which the graph has to avoid
\* (module Graph); here such a view is not processed.
ProcessCount(out) ==
    /\ ~playing /\ ~stopped /\ infos
    /\ want' = Smaller(Free - (Free % Channels), out)
    /\ playing' = TRUE
    /\ UNCHANGED <<file, buffer, decoded, cache, reading, result, view, heard>>

ProcessPop ==
    /\ playing
    /\ LET count == Smaller(want, Len(cache))
       IN  /\ heard' = SubSeq(cache, 1, count)
           /\ cache' = SubSeq(cache, count + 1, Len(cache))
    /\ playing' = FALSE
    /\ UNCHANGED <<file, buffer, decoded, reading, result, view, want>>

DropView ==
    /\ Idle
    /\ stopped' = TRUE
    /\ UNCHANGED <<file, buffer, decoded, cache, reading, result, infos, gen, player>>

Read == ReadPacket \/ ReadEnd \/ ReadFailure \/ DecodeFailure

Process == ProcessPop \/ \E out \in OutLens : ProcessCount(out)

Next ==
    \/ PollStopped \/ PollRead \/ Read
    \/ Open \/ OpenFailure \/ Seek \/ DropView
    \/ Process

\* The future wakes itself whenever it is pending; the audio server calls
\* process_audio for every period.
Fairness == WF_vars(PollStopped \/ PollRead) /\ WF_vars(Read) /\ WF_vars(Process)

Spec == Init /\ [][Next]_vars /\ Fairness

-----------------------------------------------------------------------------
(***************************************************************************)
(* Correctness                                                             *)
(***************************************************************************)
TypeOK ==
    /\ context \in BOOLEAN /\ position \in 0 .. Packets
    /\ codec \in Seq(Nat) /\ fed \subseteq DOMAIN Streams
    /\ buffer \in Seq(Sample) /\ decoded \in Nat
    /\ cache \in Seq(Sample) /\ Len(cache) <= Capacity
    /\ reading \in BOOLEAN /\ result \in {"pending", "ok", "error"}
    /\ stopped \in BOOLEAN /\ infos \in BOOLEAN
    /\ playing \in BOOLEAN /\ want \in Nat /\ heard \in Seq(Sample) /\ gen \in Nat

\* The largest number of samples the buffer holds when it is moved.
MaxMoved(size) == Threshold - 1 + size

\* The cache is large enough for the files: a third of it takes all the samples
\* the buffer may hold, and one of every channel.
Roomy == \A size \in FrameSizes : 3 * (MaxMoved(size) + Channels) <= Capacity

\* process_audio pops as much as is FREE in the cache, so that a cache without
\* room for one sample of every channel would silence the view for good; with a
\* roomy cache the filling rule of poll_once keeps it from getting there.
NeverFull == Roomy => Free >= Channels

\* What is on its way: the last output, the cache, the buffer.
Pipe == heard \o cache \o buffer

\* Samples are played in the order they were decoded, and none is missing but
\* those an opening removed, which are followed by samples of what was opened.
InSequence ==
    \A i \in 1 .. Len(Pipe) - 1 :
        /\ Pipe[i].gen <= Pipe[i + 1].gen
        /\ \/ Pipe[i + 1].num = Pipe[i].num + 1
           \/ Pipe[i + 1].num > Pipe[i].num /\ Pipe[i].gen < Pipe[i + 1].gen

\* The two of them play a file back: whatever the cache has room for, whichever
\* of them is faster and whatever fails in between, what is decoded is played in
\* its order and nothing is lost but to an opening (poll_once, data_received,
\* process_audio, open and seek together).
P == INSTANCE Playback WITH next <- decoded, pipe <- cache \o buffer
PlaysBack == P!Spec

\* Samples of a whole number of frames are moved to the cache: it is roomy, or
\* itself and the outputs are of whole frames.
WholeMoves ==
    Roomy \/ (Capacity % Channels = 0 /\ \A out \in OutLens : out % Channels = 0)

\* The channels take turns, and a sequence starts with the first of them.
InTurn(s) == \A i \in 1 .. Len(s) - 1 : (s[i + 1].num - s[i].num - 1) % Channels = 0
Starts(s) == s # << >> => s[1].num % Channels = 0

\* An output that has no room for the last frame in full was filled: a graph gives
\* n_samples times its own number of channels.
CutsFrame == Len(heard') \in OutLens /\ Len(heard') % Channels # 0

\* No channel is skipped, although the amounts popped and moved depend on how full
\* the cache is and an opening empties the buffer; and an output starts with the
\* first channel, unless an earlier one ended within a frame because it was full,
\* never because of what was in the cache (process_audio, push_slice).
Aligned ==
    [][WholeMoves =>
          /\ InTurn(Pipe')
          /\ Starts(cache) => Starts(cache') \/ (playing /\ ~playing' /\ CutsFrame)]_vars

\* "Internal buffer is cleared" (Reader::seek): once a seek or an opening
\* succeeded the buffer holds nothing read before.
BufferFresh == \A i \in DOMAIN buffer : buffer[i].gen = gen

\* "Discard unused streams" (ReaderContext::new): the codec of the chosen stream
\* gets the packets of this stream.
ChosenOnly == fed \subseteq AudioStream

\* A cache that is not empty is emptied as long as the view is there: playing
\* does not come to a stop with samples at hand.
Plays == cache # << >> ~> (cache = << >> \/ stopped)

\* What is in the buffer is moved to the cache in the end, also when there is
\* too little for the threshold (data_received at the end of the file).
TailMoved == (buffer # << >> /\ context) ~> (buffer = << >> \/ ~context \/ result # "pending")

\* Dropping the view ends the Reader future (Reader::stop).
StopEnds == stopped ~> result # "pending"
=============================================================================
