# foxlive in TLA+

Specifications of [foxlive](../src), an audio engine in Rust: a library
(`libfoxlive`) with a request multiplexer, a media reader, an audio graph and
their data types, procedural macros (`libfoxlive_derive`) and a small
application (`foxlive`). The modules are written from the code; line numbers
below refer to it. TLC checks small instances, TLAPS proves nearly every safety
property for all of them.

## 1. Inventory

**Request multiplexer** (`libfoxlive/src/rpc/multiplex.rs`, `channel.rs`,
`frame.rs`). *State*: the transport (an mpsc pair), the map of registered
senders by request id, `max_flying`; for every `Channel` its id, its queue
(oneshot or mpsc), its expiration time. *Operations*: `add_channel`, `request`,
`request_stream`, dropping a Channel, `close_multiplex`, `set_timeout`, polling.
*Interaction*: there is no dispatching task; whichever Channel is polled reads
the transport under the write lock, keeps a frame of its own id and pushes any
other into the queue of its Channel or of the default Channel. *Hard*: who reads
what in which order; Channels that outlive their registration; full queues;
wakers, of which the transport keeps one; timeouts; several polling threads.
*Correct when*: every frame reaches the right Channel, at most once and in
order; a registered Channel misses nothing and is not unsubscribed by others; a
response that arrived is received.

**Media reader** (`libfoxlive/src/format/reader.rs`, `codec.rs`, `resampler.rs`,
`futures.rs`) **and media view** (`dsp/media.rs`). *State*: the open file and its
codec, the reader's interleaved buffer, the ring buffer shared by the reader
(producer, main thread) and the view (consumer, audio thread), `stopped`.
*Operations*: `open`, `poll_once`, `seek`, `stop`; `process_audio`, drop of the
view. *Hard*: producer and consumer interleave; the amount to play is computed
from the free space of the cache; packets the codec does not take; seeking while
samples are in flight; the end of the file. *Correct when*: what is played is what was
decoded, in order and with the channels aligned; playing never comes to a stop
with data at hand.

**Audio graph** (`dsp/graph.rs`, `dsp.rs`, `jack.rs`, `closure.rs`). *State*: a
stable graph of units, the list of nodes in topological order, the arena of
output buffers, each unit's slot in it, the request transport. *Operations*:
edits (also as requests of the generated service), `updated`, `process_nodes`,
`process_requests`. *Hard*: edits between `updated` and `process_nodes`, indices
that are used again, slots that are out of date, cycles. *Correct when*: a node's
input is the mix of what its parents wrote in this cycle.

**Buffers and channel iterators** (`data/buffer.rs`, `channel.rs`, `sample.rs`).
*State*: the samples, the channel layout, whether they are interleaved.
*Operations*: resizing, filling, merging another buffer, iterating over a
channel. *Hard*: index arithmetic with two buffers of different channels and
lengths. *Correct when*: samples stay on their channels.

**Objects and values** (`rpc/object.rs`, `value.rs`,
`libfoxlive_derive/src/object.rs`). *State*: at build time the attributes the
macro has taken and those it leaves; at run time the values of the members.
*Operations*: the passes of the macro, `get_value`, `set_value`. *Hard*:
attributes are removed while indices into them are kept. *Correct when*: the
declared members, with all their metadatas, can be read and set by index.

**Time** (`data/time.rs`): conversions between timestamps, durations and sample
counts; *hard*: products and quotients of integers of a given width. **Service
dispatch** (`rpc/service.rs`, `libfoxlive_derive/src/service.rs`): generated
matching of requests to methods. **Formats and
streams** (`format/format.rs`, `stream.rs`, `error.rs`): thin wrappers of ffmpeg.
**Build script** (`libfoxlive/build`), **plugins** (`dsp/plugins`),
**application** (`foxlive/src/main.rs`).

## 2. Plan

Done, in the order of their importance:

1. `Multiplex`, its abstract specification `Demux`, `MultiplexExec` (the
   executor and its wakers, composed with `Multiplex`), `MultiplexProofs`,
   `MultiplexExecProofs`.
2. `Media`: reader, ring buffer and view in one module, since they interleave at
   every step; its abstract specification `Playback`; `MediaProofs`. `Times`, the
   conversions that a seek and the making of the cache use; `TimesProofs`.
3. `Graph`: edits, order, processing, the service; its abstract specification
   `Mixer`; `GraphProofs`.
4. `Buffers` and `Objects`: sequential code, checked over all small inputs;
   `BuffersProofs`, `ObjectsProofs`.

Left, for who goes on:

5. Files of different channel counts one after the other (`Channels` would become
   a variable, and `Aligned` the property the code then violates); frames the codec
   holds at the end of the file; panned buffers.
6. The wet and dry mix of the graph, with weights for the samples of a slot; the
   registering of JACK ports.
7. The generated client of a service; the freshness test of the build script.

## 3. The multiplexer

`Multiplex` has one action per method or branch. A frame is its position in the
log `sent`; the transport is the part of the log above `read`. `entry` is
`Multiplex::channels`. `Subscribe` is `subscribe` with the making of the handle;
`BeginRequest`, `FinishRequest` and `AbortRequest` are the parts of the
`request` future before and after its `await`. `poll_next` is split at the lock
of the multiplexer: `PollQueueItem`, `PollQueueEnd`, `PollQueuePending` for the
own queue, then one action for each way through `poll_frame` and
`handle_frame`. With `Parallel = FALSE` the two halves are not interleaved with
anything (a `LocalPool`); with `Parallel = TRUE` other Channels may run between
them. `got`, `since` and `ended` are history. Mutated forms beside some
definitions are the bugs the properties are tested against.

`Demux` promises a log, Channels that get an id once, and deliveries: each frame
once, to a Channel of its id or the default one, in order if `InOrder`.
`Multiplex` implements it with the Channel's id as address, and `InOrder` exactly
when polls do not overlap.

`MultiplexExec` adds the executor: a task runs only when woken, polls the
Channels it awaits, and is woken through the queue's receiver of each of them or
through the transport's receiver, which keeps one waker. `mode`, chosen once, says
how the default Channel and its peer behave: `pipelined` requests or one after the
other, a peer that only answers requests (`solicited`, as the server of the unit
test, multiplex.rs:407-416) or sends what it likes, `timeouts` that run out or not.
`OneAtATime` is the mode in which the code serves everybody. Fairness: the executor
runs every woken task (`LocalPool::run`) and a running task goes on to its next
suspension; nothing is assumed of the peer, of requests or of time.

| run | instance | shows |
| --- | --- | --- |
| `mx_pair` | default + 2 Channels, 2 ids, 2 frames, one thread | type, delivery, order, nothing missed, no eviction, drained before None, refinement |
| `mx_parallel` | default + 1 Channel, 2 ids, 3 frames, default queue of 2, threads, timeouts | nothing missed, the default Channel gets what nobody claims unless its queue is full just then, refinement without order |
| `mx_evicted` | ids used twice | *violated*: a late drop unsubscribes the new owner of the id |
| `exec_requests` | two modes: requests one after the other; requests together with timeouts and a free peer; two tasks | a waiting Channel is scheduled or registered with an empty transport, and receives its response, no Channel sleeps over its queue, a queued response is received, a woken late Channel ends, the leave of the peer ends waits |
| `exec_lost_wakeup` | requests together, answering peer | *violated*: a response stays in the transport |

Bounds: two ids and three handles give every combination of poller, owner and
default Channel; two frames suffice to overtake, duplicate or overflow a queue
of one, and three overflow the default queue of `mx_parallel`. Queues and transport
are made with the `max_flying` that `multiplex()` was given (`Capacity`); the limit
of entries is the public field `max_flying`, which the owner of the multiplexer may
set to another value afterwards (`MaxFlying`). `mx_parallel` makes use of this, with
1 and then 3, since with 1 throughout no frame would ever be read. `mx_pair`
reaches `max_flying`; `exec_requests` has room for an entry
more than it makes, as beyond the limit nobody reads (hazard at multiplex.rs:162):
with `max_flying = 2` it finds `Reachable` and `SingleReceived` violated.

`Buffer` is the argument of `mpsc::channel`, to which each sender adds one slot
(`Room`). A Channel that `add_channel` makes may have no sender (`no_channel`): it
counts as closed, and its frames go to the default Channel.
`FreshIds` says whether clients use an id again; when they do, and an old Channel
is still there, the code fails (`mx_evicted`), so the other runs do without.
`Parallel` has the polls of several threads.

## 4. The media pipeline

`Media` has the future (`PollRead`, then one of `ReadPacket`, `ReadEnd`,
`ReadFailure`, `DecodeFailure`; `PollStopped`), the owner's calls (`Open`,
`OpenFailure`, `Seek`, `DropView`), which wait for the lock and so
do not run while `reading`, and the audio thread (`ProcessCount` reads the
counters of the ring buffer, `ProcessPop` pops). A sample is the number of its
decoding and the generation, the opening or seek, its packet was read in: order,
losses, channels and staleness can be told from these two numbers. The codec is a
queue of the generations of its frames, with room for `CodecRoom`. `Seek` leaves
cache and buffer as they are: `Consumer::for_each` of ringbuf 0.2 (Cargo.toml:22)
only visits what is in the cache (section 9), and `Reader::seek` moves the file's
position only. A seek that fails changes nothing and is no action. `Streams` lists the kinds of the
streams of a file: opening takes the first audio stream (`AudioStream`), and the
codec is fed with packets of every stream but the `Discarded` ones, of which,
as the code stands (reader.rs:46), there are none; `fed` remembers which.

`Playback` promises what a listener cares for, without buffer, cache or codec: what
is decoded joins a pipe, a generation after the earlier ones; what is played is
what is first in it; an opening may cut off its end, while nobody reads or plays. `Media` implements it with `cache \o buffer` as the pipe.

`Times` has the conversions of `data/time.rs` as operators on 64-bit integers that
wrap, as in a release build; a debug build panics instead, which is why the
properties are about products that fit. Its two actions are calls that use them:
`Seek` goes from a timestamp through `Stream::duration` and back through
`Reader::seek`, and `SeeksBack` bounds what is lost on the way; `MakeCache` is the
size `MediaView::new` gives the cache, and `CacheLasts` what it lasts for. The run
`data` (section 6) checks both.

`process_audio` pops as much as is *free* in the ring buffer, not as much as is
filled. It works because the reader stops filling at two thirds: `NeverFull`, and
with it `Plays`, hold for a cache that is three times as large as what the buffer
may hold (`Roomy`, as the half second of audio that `main.rs` asks for is by far).

Outputs need not be whole frames of the media: graph.rs:173 gives a unit n_samples
times the channels of the *graph*. `Aligned` therefore says what the two counts of
`process_audio` and the partial moves guarantee for outputs of any size: no channel
is skipped between samples (`InTurn`), and the next output starts elsewhere than
with the first channel only if one was filled within a frame (`CutsFrame`), never
because of what was in the cache. It needs a roomy cache, or a cache and outputs of
whole frames (`WholeMoves`): otherwise the reader moves part of a frame, and an
opening that clears the rest leaves a gap.

Fairness (`Fairness`): the future wakes itself whenever it is pending
(reader.rs:299-305 and `SharedReader`), and `LocalPool` polls what is woken; the
audio server calls `process_audio` for every period. Nothing is assumed of the
user's calls.

| run | instance | shows |
| --- | --- | --- |
| `media_play` | 4 packets of 0 to 2 frames of 2 or 4 samples, stereo, a cache of 25, outputs of 4 and 5, 2 openings or seeks, errors | order, channels, room to play, playing goes on, the tail is played, the future ends, refinement |
| `media_seek` | the same without errors | *violated*: after a seek the buffer holds samples from before |
| `media_streams` | a film: a video and two audio streams | *violated*: the codec is given packets of streams that were to be discarded |

A threshold of 3 samples with frames of 2 and 4 has the buffer below, at and
above the threshold, and a cache of 25 is just roomy (3 * (3 - 1 + 4 + 2) = 24)
and odd, as is an output of 5, so that pushes and pops are cut within a frame if they
ever are. For time,
a second of 100 units and integers of 16 bits keep all cases within TLC's integers:
ticks longer than a unit, as long, shorter, and no multiple of it.

## 5. The audio graph

`Graph` has the units by index, the edges, `ordered_nodes`, and the arena, whose
slots hold the set of nodes that wrote to them in this cycle, or `old`. Edits are
calls of the owner (`Call`) or requests (`ServeBegin`, `Serve` for each request,
`ServeEnd`, which calls `updated`); a removed index is used again by the next
node. `process_nodes` goes node by node: `ProcessBegin` resizes the arena,
`ProcessRemoved` is the early `continue`, `ProcessNode` merges the parents' slots,
gives the node its slot and lets it render, `ProcessEnd` ends the cycle. A cycle
in the graph is the panic of `updated` (`expect`): a phase from which nothing goes
on. `ProcessPanic` is a panic in a cycle, after which the cycle stays unfinished: at a
media that has not been opened (media.rs:116), or at a slot beyond the arena, which
`ProcessSafe` rules out. The client only counts its requests and the responses it has
not read. The graph has its transport: `process_requests` panics without it.

`Mixer` promises what the graph is for, without order, arena or slots: in a cycle
every node there is is mixed once, after its parents, and hears through each edge
what the parent rendered in this cycle. `Graph` implements it (`Mixes`): the nodes
done are those `process_nodes` has visited, what is heard is what was merged.

The contract of the caller, which the JACK example follows: `updated()` is called
after nodes or edges were added and before `process_nodes` (`edited`); after
removals it need not be, and `Topological` shows that it need not.

Whether `updated` panics is decided many edits before it, and the request that
closes the cycle has been answered by then. `StaysSortable` says which edits can:
an edge between two nodes that are in the graph, or a child that is given the index
of the removed parent it is added to; nothing else does, whatever was removed and
whichever indices are used again.

| run | instance | shows |
| --- | --- | --- |
| `graph_cycles` | 3 indices, 2 edges, sources (opened or not), filters and sinks, a bus of one | order, no panic but for a media that was not opened, no slot beyond the arena, no response lost, edits that close no cycle, refinement |
| `graph_channels` | media of 0 or 2 channels, opened after they were added | *violated*: the slot of such a media is too small |

Three nodes and two edges have chains, mixes, forks and parallel edges, and an
index that is used again between a sort and a cycle; symmetry of both kinds of
indices is sound as no action or property names one.

## 6. Buffers and objects

`Buffers` is a buffer with the calls that change it, in any order, a second buffer
that is merged into it, and an iterator that borrows it and may be indexed. A
sample is the set of what was added up in it. `mix` and `visited` are history.
`data` checks, for up to 3 channels of up to 2 samples on both sides: the samples
of a channel are those it was last resized to; a merge puts every sample on its
channel and time whichever buffer is larger; the positions an iterator returns or
is indexed at are those `map_inplace` gives the same channel number. Sizes beyond
these repeat the same residues. `buffer.rs` reads a field `n_channels` that the
struct does not have (259, 305, 320): the model takes it for the number of
channels of the layout. `data` has `Times` beside `Buffers`, the other sequential
code of the same directory: one conversion from each set of arguments, of 10 time
bases, 100 timestamps, 121 durations and 5 rates.

`Objects` is the macro as a program over lists of attributes: `drain_attrs` one
step at a time, the search for `#[field]`, the removal by the index found before
draining, and then the object it generates. `objects` checks every list of up to
three attributes on the struct and on two members like those of `MediaView`: a
struct that compiles has the right fields with all metadatas and loses no other
attribute; one that does not compile has a `#[meta]` before its `#[field]` or
without one; and values read are those last acknowledged. Three attributes are
enough for two neighbours to be removed and for one to be left on each side. There
is no fairness: both modules are about what calls return.

## 7. Proofs

All theorems are for every value of the constants that satisfies the modules'
assumptions; TLC evaluates these assumptions in the runs.

`MultiplexProofs` (`TypeCorrect`, `NoDuplicates`, `InOrder`, `NothingMissed`,
`DefaultServed`, `NoneWhenDrained`, `KeepsSubscription`, `Refinement`). No property is inductive by itself. `Registry` says
that an entry of the map names a Channel that was created and has that id;
`OneLock` that without `Parallel` at most one poll is under way, and that what it
saw of its queue is still so; `Started` that a Channel subscribed within the log;
`UniqueIds` that no two Channels have an id when clients take fresh ones. Every
step is of one of a few kinds (`StepKind`): it sends, reads and keeps, reads and
queues, reads and skips, moves the head of a queue, or stays; the invariants are
proved for the kinds rather than for each action. `IInv` collects the parts, and
`RefinementStep` maps each kind to a step of `Demux` or to a stutter.
`DefaultServed` is about one step (`Serves`): a data frame whose id has no open
sender is refused by a full default queue only, as `Registry` rules out that the
entry found under its id is another Channel's. Two more action properties follow
from parts of the invariant: `NoneWhenDrained` from `OneLock` (what the only poll
saw of its queue is still so, hence it answers None to an empty one only; with
several threads it is false), and `KeepsSubscription` from `UniqueIds` (a Channel
that subscribes or leaves releases the entry of its own id, and nobody shares it).

`MultiplexExecProofs` (`Implements`, `ExecTypeCorrect`, `AlwaysReachable`,
`NeverAsleep`, `PollResolves`, `AnswerTaken`, `ExecDemultiplexes`). Every step under the executor is one of
`Multiplex` (`Implements`), so that all of the above holds there too, the abstract
demultiplexer included (`ExecDemultiplexes`). `Bookkeeping`: only Channels that wait are left to poll, only the running task
has Channels that are resolved. `Alone` is why one request at a time is served: the
only Channel beside the default one keeps its registration and an empty queue, so
that every frame in the transport is its own, and each way out of a poll either
resolves it or leaves its task registered with the transport. It needs
`max_flying >= 3`: with 2 the poll returns before it reads, and registers nowhere.
`NeverAsleep` is for any number of requests, without these conditions: `Watch` says
that a Channel whose task sleeps is registered with its own receiver while its queue
is empty and its sender alive; whoever queues a frame or takes the sender away wakes
the tasks that are registered. What is lost in `exec_lost_wakeup` is therefore only
ever the transport.
Two theorems are what the liveness of section 3 rests on beside the scheduling.
`PollResolves`: of a Channel whose timeout is over, or on one thread whose queue holds
a frame, no poll ends with the Channel still waiting, even one that spent its turn on the
frame of another. `AnswerTaken` (one request at a time, `max_flying >= 3`): a poll
ends with the Channel waiting only over an empty transport whose peer is there. With
`AlwaysReachable`, a Channel that was answered or left by the peer is due for a poll,
and that poll resolves it; that the poll takes place is the fairness, which TLC checks.

`MediaProofs` (`TypeCorrect`, `RoomToPlay`, `LittleBuffered`, `ChannelsAligned`,
`PlayedInSequence`, `Refinement`). `RoomKept`: the buffer is below the threshold between polls, and a
read under way found the cache hungry, so that what it pushes fits and leaves room
for a sample of each channel; the audio thread can only add room in between. The
same invariant bounds what a seek leaves in the buffer (`LittleBuffered`), which
`media_seek` shows to be something.
`AlignKept`: the decoded count is a whole number of frames, the buffer starts and
ends with a frame (`Aligns`), and the last output with the cache ends with one
(`Ends`), wherever it starts; the cache then starts with a frame exactly if it holds
a whole number of them (`EndsStarts`), and the amount to pop is whole frames or an
output. Divisibility is proved with witnesses, `n = Channels * k`, since the provers
do not know `%` by a constant of unknown value. `OrderInv`: what was played and what
is queued is in order, up to the generation of the next frame the codec holds; the
same facts let every step be one of `Playback`.

`TimesProofs` (`SeekExact`, `SeekOnTicks`, `CacheExact`). All rest on one lemma, `ThereAndBack`: a
number times `b` over `a`, rounded, times `a` over `b`, rounded, is at most the
number and misses it by less than one and `a / b`. What a call leaves in `last`
follows from it, whatever was there before. `SeekOnTicks` is about a conversion: with
ticks of a microsecond or more the frame before is the worst that is found, and with
ticks of whole microseconds the frame itself is.

`GraphProofs` (`TypeCorrect`, `OrderKept`, `InputsFresh`, `OutputsKept`,
`ProcessingSafe`, `ResponsesKept`, `Refinement`, `SortOrPanic`, `OnlyEdgesCloseCycles`,
`FitUnlessReopened`). `GraphInv` is `TypeOK`, `Links`
(edges join live nodes), `Topological`, `CycleInv` and `TransportInv`. What a node
hears depends on slots filled many steps before, hence `CycleInv`, of a cycle that is
under way or was given up: the arena has as
many slots as nodes are ordered and no more are taken than nodes were visited; the
nodes visited have slots below the next one, each with what its node rendered in
this cycle; the other slots have only what is old; and nothing was merged yet for
the nodes to come. It is `Topological` that makes a node's parents visited ones.
`TransportInv` counts requests, responses and what the client waits for.
`Sortable`, that `toposort` finds no cycle, says that every set of nodes has one
without a parent in the set. `SortOrPanic` shows that `updated` then has an order to
return, and only then, in a graph of any size: a sort gives such a node
(`SortedAcyclic`: the one of the set that comes first), and such nodes give a sort
(`AcyclicSorted`: the longest sequence of nodes that follow their
parents has them all, as otherwise `PrefixGrows` appends one whose parents it has);
both take the least number of a set (`Least`, from the library's theorem that < is
well founded), where one would else use induction. For `OnlyEdgesCloseCycles`, an edit
adds at most one node, and that keeps the graph acyclic (`StaysAcyclic`): it depends on `Links`, without which a new node
could have the edges of the node that had its index. `FitUnlessReopened` holds where
`Reopens` is FALSE, and says that what `graph_channels` shows has no other cause.

`BuffersProofs` (`TypeCorrect`, `SizesKept`, `MixIsRight`, `ChannelsRight`). A
position is its channel plus its sample times the number of channels, in one way
only (`Split`, `Unique`); from that a merge pairs exactly the positions of the same
channel and sample, whatever the sizes of both buffers, and an iterator with the
step of the channels visits exactly the positions of its channel.

`ObjectsProofs` (`TypeCorrect`, `ValuesKept`, `DerivedRight`). The fields are declared in the order
of the members, so that no two indices stand for the same member (`Distinct`), and
what an index was last acknowledged is what its member holds (`Agrees`).
`DerivedRight` is about the loop of the macro, for lists of any length. `Split` is
about a list that is being drained: every attribute written is still in it or among
the metadatas taken, both in the order written; no `#[meta]` is left before the index,
and what was taken came before what is left from the index on. Taking an attribute moves the rest by one (`WasAt`),
which is why the index must stay (`SplitTake`). `Found` says that the index of the
`#[field]`, found before, is still right unless a `#[meta]` was taken before it.
`Progress` has this for the member the macro is at, the result for those it has read
and the list as written for those to come; each attribute carries its place in the
list, so that the results are stated without a recursive definition.

Only model-checked: everything temporal beyond a step (`Plays`, `TailMoved`,
`StopEnds`, `ResponseReceived`, `SingleReceived`, `LeaveEndsAll`,
`QueuedReceived`, `TimeoutAtWake`), as liveness under fairness and ENABLED are out
of the proof system's reach. Every invariant and every action property of the
passing runs is a theorem. Of those the code violates, three are proved under the
condition whose absence the run shows: `NotEvicted` for fresh ids, `ChannelsFit`
without reopening, and, in place of
`ResponseReceived`, `Reachable` for one request at a time. `OutputKept` is a theorem
only: in the run `Mixes` is checked, which an output that is not kept breaks.

## 8. What is not modelled

* Formats, streams' infos and errors' texts: wrappers of ffmpeg with no state of
  their own, but for the choice of the stream. `tell` only returns the position of
  the last seek, which nothing advances (media.rs:125), and is not in `Media`.
* Files of different numbers of channels, opened one after the other: `Channels` is
  a constant on which the alignment proofs rest.
* The values of samples, and with them the wet and dry mix of the graph, the
  amplitude of a view, conversions of sample types.
* The registering and the output of JACK ports, the generated client of a service,
  ranges and defaults of fields.
* A closure that is a source and a sink at once (closure.rs:18-20): the kinds of
  `Graph` are each one or the other, or neither.
* Numbers of channels whose default layout has another number (ffmpeg has none for 9
  to 15): in `Buffers` a layout is its number of channels.
* What rustc says of a generated object beyond the attributes that are left in it: the
  default getter and setter (object.rs:163 and 169) compile for members that are Copy,
  and a second `#[field]` stays and is rejected as any other attribute of the macro.
* Media of fewer channels than their graph as far as the mix goes: `Graph` has a slot as
  a whole (section 9).
* Code that is not compiled (controllers, ids, frames, the graph as an `Object`),
  generated code (plugins), the build script (pure I/O), and the application, which
  only wires the parts: the models take from it who calls what, in which thread.

## 9. Disagreements of code and documentation

Shown by runs: `mx_evicted`, `exec_lost_wakeup`, `media_seek`, `media_streams`,
`graph_channels`. Met while reading, and shown by none:

* multiplex.rs:162 counts the default channel as in flight: with `max_flying = 2`
  one request stops all reading.
* dsp.rs:46 says that 1.0 is full wet and 0.0 full dry; graph.rs:228 adds the output
  times `wet` and the input times `-wet`, so that 0.0 is silence.
* stream.rs:115 computes the duration of a stream that does not know it, the
  smallest i64, as if it were one: a debug build panics (`SeeksBack` is about
  products that fit).
* multiplex.rs:5-6 says that the default channel gets all messages that no other
  handles; the result of its `try_send` is ignored (150), and with a full queue the
  message is lost. `DefaultGetsUnclaimed` states what is left of the promise.
* With several threads, the poll of the own queue and the lock of the multiplexer
  (multiplex.rs:283-284) are two steps: a frame that is queued between them is received
  after a later one, or after the None of the closed transport. `Ordered`, `EndDrained`
  and the order of `Demux` are therefore claimed for one thread.
* reader.rs:274-275 leaves it to the caller to clear the shared cache on a seek;
  media.rs:75 means to, but `for_each` of ringbuf 0.2 (Cargo.toml:22) only visits what
  is in it.
* jack.rs:87 adds the samples of a port to what is in its slot of the arena, and
  `resize` (graph.rs:174) clears nothing that was there: an input port adds up
  what it recorded from cycle to cycle. `Rendered` has it so, and `Mixer` promises
  nothing of what is heard from ports, which `graph_cycles` leaves out.
* graph.rs:173 makes a slot of n_samples times the channels of the graph. A media of
  fewer channels pops as many samples as the slot has (media.rs:118), although only
  n_samples for each of its channels are merged to its children (buffer.rs:97-103): a mono media
  in a stereo graph loses every second period. Where the slot is no whole number
  of the media's frames (6 channels beside 8), playing stops within a frame:
  `CutsFrame` of `Aligned`.
* media.rs:116 panics when a media in the graph has not been opened, in the audio thread
  (`ProcessPanic`); graph.rs:248 panics when the graph has no transport.
* channel.rs:158-161 takes ffmpeg's default layout: for 9 to 15 channels there is
  none, and the layout has no channel; for 16, bits that `ChannelLayout` may not
  have are the `unwrap` of buffer.rs:195.
* main.rs:45 calls `get_value` of a graph, which graph.rs has in a comment only: the
  application does not compile at this commit.
* channel.rs:15 promises iterators over panned buffers; `Channel::new` has no
  parameter for them. `len` of an iterator (channel.rs:122) is short by one on
  every channel but the first and wraps past the end; nothing calls it.
* media.rs:31 declares the amplitude as `I32`, its member is a float.
* build/utils.rs:7 says that it returns true when a file should be regenerated,
  and compares the times the other way round.
