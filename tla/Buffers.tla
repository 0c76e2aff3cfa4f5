------------------------------ MODULE Buffers ------------------------------
(***************************************************************************)
(* A buffer of samples (data/buffer.rs), the iterators over its channels   *)
(* (data/channel.rs) and the merge of another buffer into it, as the graph *)
(* does with its dry buffer: it is resized for each unit, filled, and each *)
(* parent's slot, whose channels and length may differ, is merged into it. *)
(*                                                                         *)
(* A sample is the set of what was added up in it; a sample of the source  *)
(* is its channel and frame.  Positions count from 0.                      *)
(***************************************************************************)
EXTENDS Integers, Sequences

CONSTANTS
    MaxChannels,  \* bound on the channels of a buffer
    MaxFrames     \* bound on n_samples, the samples of a channel

ASSUME BoundsAssumption == MaxChannels \in Nat \ {0} /\ MaxFrames \in Nat

VARIABLES
    interleaved,  \* Buffer::interleaved
    channels,     \* the number of channels of its layout
    data,         \* Buffer::buffer
    frames,       \* history: the samples each channel was last resized to
    source,       \* the buffer that is merged: its channels, its length
    view,         \* the iterator over a channel, which borrows the buffer
    visited,      \* history: positions it returned or was indexed at
    mix           \* history: whether data is silence, the mix or out of date
                  \* (or the program panicked)

vars == <<interleaved, channels, data, frames, source, view, visited, mix>>

Frames == 0 .. MaxFrames

\* The numbers of channels whose default layout has as many: up to 8, as ffmpeg
\* has none for 9 to 15.
Layouts == 0 .. MaxChannels

Closed == [channel |-> 0, at |-> 0, end |-> 0, open |-> FALSE]

Init ==
    /\ interleaved \in BOOLEAN /\ channels \in Layouts /\ data = << >>
    /\ frames = 0
    /\ \E c \in Layouts : \E len \in 0 .. c * MaxFrames :
          source = [channels |-> c, len |-> len]
    /\ view = Closed /\ visited = {} /\ mix = "silent"

\* No iterator borrows the buffer.
Usable == ~view.open /\ mix # "panicked"

(***************************************************************************)
(* Sizes                                                                   *)
(***************************************************************************)
\* Vec::resize with equilibrium.
Resized(len) == [i \in 1 .. len |-> IF i <= Len(data) THEN data[i] ELSE {}]

\* What was there is invalid, unless it is silence.
Invalidated == IF mix = "silent" \/ data = << >> THEN "silent" ELSE "stale"

\* n_samples(); without channels it divides by zero.
NSamples == Len(data) \div channels

Resize(c, n) ==
    /\ Usable
    /\ data' = Resized(c * n) /\ channels' = c /\ frames' = n /\ mix' = Invalidated
    /\ UNCHANGED <<interleaved, source, view, visited>>

\* Mutated form of ResizeChannels: n_samples() is called after the update.
ResizeChannelsLate(c) ==
    /\ Usable
    /\ IF c = 0 THEN mix' = "panicked" /\ UNCHANGED <<data, channels>>
       ELSE data' = Resized(c * (Len(data) \div c)) /\ channels' = c /\ mix' = Invalidated
    /\ UNCHANGED <<interleaved, frames, source, view, visited>>

ResizeChannels(c) ==
    /\ Usable /\ c # channels
    /\ IF channels = 0 THEN mix' = "panicked" /\ UNCHANGED <<data, channels>>
       ELSE data' = Resized(c * NSamples) /\ channels' = c /\ mix' = Invalidated
    /\ UNCHANGED <<interleaved, frames, source, view, visited>>

ResizeSamples(n) == Resize(channels, n)

Clear ==
    /\ Usable
    /\ data' = << >> /\ frames' = 0 /\ mix' = "silent"
    /\ UNCHANGED <<interleaved, channels, source, view, visited>>

SetInterleaved ==
    /\ Usable
    /\ interleaved' = ~interleaved
    /\ UNCHANGED <<channels, data, frames, source, view, visited, mix>>

(***************************************************************************)
(* Samples                                                                 *)
(***************************************************************************)
\* Mutated form of MapChannel: the position is scaled as in panned buffers.
MapChannelPanned(i) == (i * channels) \div Len(data)

\* The channel map_inplace passes to its function for a position.
MapChannel(i) ==
    IF interleaved THEN i % channels ELSE (i * channels) \div Len(data)

\* map_inplace() with a constant: it visits every position.
Fill ==
    /\ Usable
    /\ data' = [i \in DOMAIN data |-> {}] /\ mix' = "silent"
    /\ UNCHANGED <<interleaved, channels, frames, source, view, visited>>

\* The k-th sample an iterator over channel c returns; the iterator has a start
\* and a step, whatever the layout of the buffer is.
Item(c, k, n) == c + k * n

Least(a, b) == IF a < b THEN a ELSE b

\* Mutated form of Zipped: both iterators have the step of the buffer.
ZippedSameStep ==
    {pair \in (0 .. Len(data) - 1) \X (0 .. source.len - 1) :
        \E c \in 0 .. Least(channels, source.channels) - 1, k \in Frames :
            pair = <<Item(c, k, channels), Item(c, k, channels)>>}

\* The positions zip_map pairs, for as long as both iterators have samples.
Zipped ==
    {pair \in (0 .. Len(data) - 1) \X (0 .. source.len - 1) :
        \E c \in 0 .. Least(channels, source.channels) - 1, k \in Frames :
            pair = <<Item(c, k, channels), Item(c, k, source.channels)>>}

\* The sample at a position of the source.
SourceSample(q) == <<q % source.channels, q \div source.channels>>

\* What zip_map gives the function for the sample at a position.
From(p) == {SourceSample(q) : q \in {r \in 0 .. source.len - 1 : <<p, r>> \in Zipped}}

Mixing == IF mix \in {"silent", "mixed"} THEN "mixed" ELSE mix

Merge ==
    /\ Usable
    /\ data' = [i \in DOMAIN data |-> data[i] \cup From(i - 1)]
    /\ mix' = Mixing
    /\ UNCHANGED <<interleaved, channels, frames, source, view, visited>>

Copy ==
    /\ Usable
    /\ data' = [i \in DOMAIN data |-> IF From(i - 1) = {} THEN data[i] ELSE From(i - 1)]
    /\ mix' = Mixing
    /\ UNCHANGED <<interleaved, channels, frames, source, view, visited>>

(***************************************************************************)
(* Iterators                                                               *)
(***************************************************************************)
\* channel(c) and channel_mut(c) are None when there is no such channel.
OpenChannel(c) ==
    /\ Usable /\ c < channels
    /\ view' = [channel |-> c, at |-> c, end |-> Len(data), open |-> TRUE]
    /\ visited' = {}
    /\ UNCHANGED <<interleaved, channels, data, frames, source, mix>>

\* Mutated form of NextSample: the end is taken for the last position.
NextSampleBeyond ==
    /\ view.open /\ view.at <= view.end
    /\ visited' = visited \cup {view.at}
    /\ view' = [view EXCEPT !.at = @ + channels]
    /\ UNCHANGED <<interleaved, channels, data, frames, source, mix>>

NextSample ==
    /\ view.open /\ view.at < view.end
    /\ visited' = visited \cup {view.at}
    /\ view' = [view EXCEPT !.at = @ + channels]
    /\ UNCHANGED <<interleaved, channels, data, frames, source, mix>>

\* Indexing, from where the iterator is; beyond the end it panics.
IndexSample(index) ==
    /\ view.open
    /\ LET p == Item(view.at, index, channels)
       IN  p < view.end /\ visited' = visited \cup {p}
    /\ UNCHANGED <<interleaved, channels, data, frames, source, view, mix>>

DropChannel ==
    /\ view.open
    /\ view' = Closed /\ visited' = {}
    /\ UNCHANGED <<interleaved, channels, data, frames, source, mix>>

Next ==
    \/ \E c \in Layouts, n \in Frames : Resize(c, n)
    \/ \E c \in Layouts : ResizeChannels(c) \/ OpenChannel(c)
    \/ \E n \in Frames : ResizeSamples(n)
    \/ Clear \/ SetInterleaved \/ Fill \/ Merge \/ Copy
    \/ NextSample \/ DropChannel \/ \E index \in Frames : IndexSample(index)

Spec == Init /\ [][Next]_vars

-----------------------------------------------------------------------------
(***************************************************************************)
(* Correctness                                                             *)
(***************************************************************************)
Samples == SUBSET ((0 .. MaxChannels - 1) \X (0 .. MaxFrames - 1))

TypeOK ==
    /\ interleaved \in BOOLEAN /\ channels \in Layouts
    /\ data \in Seq(Samples) /\ Len(data) <= MaxChannels * MaxFrames
    /\ source.channels \in Layouts /\ source.len \in 0 .. MaxChannels * MaxFrames
    /\ frames \in Frames /\ view.at \in Nat /\ view.end \in Nat
    /\ visited \subseteq 0 .. Len(data) - 1
    /\ mix \in {"silent", "mixed", "stale", "panicked"}

\* However often the channels and the samples are changed one after the other,
\* every channel of a buffer has the samples it was last resized to, and
\* resize_channels, which computes them from the old sizes, never panics for a
\* buffer that had channels.
SamplesKept ==
    /\ Len(data) = channels * frames
    /\ mix = "panicked" => channels = 0

\* After it was filled, a buffer into which another is merged has on each
\* channel, as its iterators count them, the samples of that channel of the
\* other, at the same time, and silence where the other has none, whichever has
\* more channels or samples.
Mixed ==
    mix = "mixed" =>
        \A i \in DOMAIN data :
            data[i] = {sample \in {SourceSample(q) : q \in 0 .. source.len - 1} :
                          sample = <<(i - 1) % channels, (i - 1) \div channels>>}

\* An iterator over a channel of an interleaved buffer, also when it is indexed on
\* the way, returns the samples for which map_inplace names this channel, and in
\* the end all of them.
ChannelsAgree ==
    (view.open /\ interleaved) =>
        LET own == {p \in 0 .. Len(data) - 1 : MapChannel(p) = view.channel}
        IN  visited \subseteq own /\ (view.at >= view.end => visited = own)
=============================================================================
