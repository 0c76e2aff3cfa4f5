----------------------------- MODULE Multiplex -----------------------------
(***************************************************************************)
(* The request multiplexer of rpc/multiplex.rs.  One transport carries the *)
(* frames of many requests; every Channel handle receives the frames of    *)
(* its own request id, and the default channel (id None) receives the      *)
(* frames no other channel handles.  There is no dispatching thread:       *)
(* whichever Channel is polled reads the transport, keeps the frame when   *)
(* it is its own and pushes it into another Channel's queue otherwise.     *)
(*                                                                         *)
(* A frame is named by its position in the log of what the peer sent, so   *)
(* the content of the transport is read + 1 .. Len(sent), and the queues   *)
(* and histories hold positions.                                           *)
(***************************************************************************)
EXTENDS Naturals, Sequences, FiniteSets

CONSTANTS
    Ids,        \* request ids (Frame::Id)
    NoId,       \* the id None of the default channel
    Handles,    \* the Channel values the program may ever create
    Root,       \* the default Channel, returned by multiplex()
    NoHandle,   \* no Channel
    Capacity,   \* max_flying as multiplex() got it: the size of the queues it makes
    MaxFlying,  \* Multiplex::max_flying, a public field, as it is when frames flow
    Buffer,     \* buffer of the queues the caller makes for add_channel
    Timeout,    \* whether the multiplexer was given a timeout
    Parallel,   \* whether Channels are polled by several threads
    FreshIds,   \* whether the caller never uses a request id twice
    MaxSent     \* bound on the number of frames the peer sends

ASSUME HandleAssumption == Root \in Handles /\ NoHandle \notin Handles
ASSUME IdAssumption == NoId \notin Ids
ASSUME FiniteAssumption == IsFiniteSet(Ids)
ASSUME BoundAssumption == 
    /\ Capacity \in Nat \ {0} /\ MaxFlying \in Nat \ {0}
    /\ Buffer \in Nat /\ MaxSent \in Nat
ASSUME ModeAssumption ==
    Timeout \in BOOLEAN /\ Parallel \in BOOLEAN /\ FreshIds \in BOOLEAN

VARIABLES
    sent,     \* the frames the peer has sent, in order
    read,     \* how many of them have been taken from the transport
    peer,     \* whether the other end of the transport is still there
    entry,    \* Multiplex::channels: whose sender is registered under an id
    status,   \* life of a handle
    cid,      \* Channel::id
    oneshot,  \* whether the handle's queue is a oneshot channel
    room,     \* number of frames its queue can hold
    used,     \* whether its sender is MxSender::None or a consumed Oneshot(None)
    queue,    \* frames dispatched to the handle and not received yet
    got,      \* history: frames the handle's poll_next returned
    since,    \* history: value of read when the handle subscribed
    pc,       \* "lock": own queue found empty, about to lock the multiplexer
    asking,   \* the Channel a pending request() of the handle holds
    late,     \* whether the handle's expiration time is over
    ended     \* whether its last poll_next returned Ready(None)

wire == <<sent, read, peer>>
chans == <<status, cid, oneshot, room, since, asking>>
vars == <<sent, read, peer, entry, status, cid, oneshot, room, used, queue,
          got, since, pc, asking, late, ended>>

Keys == Ids \cup {NoId}
Frame == [id : Ids, payload : {"Data", "Close"}]

(***************************************************************************)
(* Senders and receivers                                                   *)
(***************************************************************************)
\* MxSender::is_closed.  The receiver of a registered MPSC sender is alive:
\* Drop removes the entry before the receiver goes away.
IsClosed(h) == used[h]

Subscribed(h) == entry[cid[h]] = h

\* The receiver yields None once its sender is gone and nothing is queued.
SenderAlive(h) == Subscribed(h) /\ ~IsClosed(h)

\* Mutated form of Room: no slot beyond the buffer.
RoomOfBuffer(buffer) == buffer

\* A futures mpsc channel with one sender holds one frame more than its buffer.
Room(buffer) == buffer + 1

\* Number of entries of a map of channels.
Count(channels) == Cardinality({k \in Keys : channels[k] # NoHandle})

(***************************************************************************)
(* Who may run.  With one thread (a LocalPool) poll_next runs to its end   *)
(* before anything else does; with several, another Channel may run        *)
(* between the poll of the own queue and the lock of the multiplexer.      *)
(***************************************************************************)
Turn == Parallel \/ \A h \in Handles : pc[h] = "idle"

\* The owner may call a method of h: nothing holds its mutable borrow.
Callable(h) == Turn /\ status[h] = "open" /\ pc[h] = "idle" /\ asking[h] = NoHandle

Init ==
    /\ sent = << >> /\ read = 0 /\ peer = TRUE
    /\ entry = [k \in Keys |-> IF k = NoId THEN Root ELSE NoHandle]
    /\ status = [h \in Handles |-> IF h = Root THEN "open" ELSE "free"]
    /\ cid = [h \in Handles |-> NoId]
    /\ oneshot = [h \in Handles |-> FALSE]
    /\ room = [h \in Handles |-> Room(Capacity)]
    /\ used = [h \in Handles |-> FALSE]
    /\ queue = [h \in Handles |-> << >>]
    /\ got = [h \in Handles |-> << >>]
    /\ since = [h \in Handles |-> 0]
    /\ pc = [h \in Handles |-> "idle"]
    /\ asking = [h \in Handles |-> NoHandle]
    /\ late = [h \in Handles |-> FALSE]
    /\ ended = [h \in Handles |-> FALSE]

(***************************************************************************)
(* The peer (any program that holds the other end of the transport)        *)
(***************************************************************************)
PeerSend ==
    /\ peer /\ Len(sent) < MaxSent
    /\ Len(sent) - read <= Capacity
    /\ \E f \in Frame : sent' = Append(sent, f)
    /\ UNCHANGED <<read, peer, entry, used, queue, got, pc, late, ended, chans>>

PeerLeave ==
    /\ peer
    /\ peer' = FALSE
    /\ UNCHANGED <<sent, read, entry, used, queue, got, pc, late, ended, chans>>

(***************************************************************************)
(* Subscribing: add_channel, request and request_stream                    *)
(***************************************************************************)
MaySubscribe(i) ==
    /\ entry[i] # NoHandle => IsClosed(entry[i])
    /\ Count(entry) < MaxFlying

\* h becomes the Channel of id i; its sender replaces a closed one.
Subscribe(h, i, single, n, state) ==
    /\ status[h] = "free"
    /\ FreshIds => \A g \in Handles : cid[g] # i
    /\ MaySubscribe(i)
    /\ entry' = [entry EXCEPT ![i] = h]
    /\ status' = [status EXCEPT ![h] = state]
    /\ cid' = [cid EXCEPT ![h] = i]
    /\ oneshot' = [oneshot EXCEPT ![h] = single]
    /\ room' = [room EXCEPT ![h] = n]
    /\ since' = [since EXCEPT ![h] = read]
    /\ UNCHANGED <<wire, queue, got, pc, late, ended>>

\* The caller makes the queue: one for Buffer frames, or the pair of no_channel,
\* whose sender is closed (a oneshot one is as in BeginRequest).
AddChannel(p, h) ==
    /\ Callable(p)
    /\ \E i \in Ids : Subscribe(h, i, FALSE, Room(Buffer), "open")
    /\ \E none \in BOOLEAN : used' = [used EXCEPT ![h] = none]
    /\ UNCHANGED asking

\* request or request_stream: subscribe, then await the sending of the frame.
BeginRequest(p, h) ==
    /\ Callable(p)
    /\ \E i \in Ids : \/ Subscribe(h, i, TRUE, 1, "sending")
                       \/ Subscribe(h, i, FALSE, Room(MaxFlying), "sending")
    /\ UNCHANGED used
    /\ asking' = [asking EXCEPT ![p] = h]

\* The frame is sent (poll_flush delays the timeout of p): h is handed out.
\* A flush that ends after the peer left is the one that ends just before.
FinishRequest(p) ==
    /\ Turn /\ pc[p] = "idle" /\ asking[p] # NoHandle
    /\ peer
    /\ status' = [status EXCEPT ![asking[p]] = "open"]
    /\ asking' = [asking EXCEPT ![p] = NoHandle]
    /\ late' = [late EXCEPT ![p] = FALSE]
    /\ UNCHANGED <<wire, entry, cid, oneshot, room, used, queue, got, since, pc,
                   ended>>

(***************************************************************************)
(* Dropping                                                                *)
(***************************************************************************)
\* Drop for Channel: whatever is registered under its id is removed.
Release(h) ==
    /\ entry' = [entry EXCEPT ![cid[h]] = NoHandle]
    /\ status' = [status EXCEPT ![h] = "dropped"]
    /\ queue' = [queue EXCEPT ![h] = << >>]
    /\ UNCHANGED <<wire, cid, oneshot, room, used, got, since, pc, late, ended>>

DropChannel(h) ==
    /\ Callable(h)
    /\ Release(h)
    /\ UNCHANGED asking

\* The send fails because the peer is gone, or the caller drops the future.
AbortRequest(p) ==
    /\ Turn /\ pc[p] = "idle" /\ asking[p] # NoHandle
    /\ Release(asking[p])
    /\ asking' = [asking EXCEPT ![p] = NoHandle]

CloseMultiplex(h) ==
    /\ Callable(h)
    /\ entry' = [k \in Keys |-> NoHandle]
    /\ UNCHANGED <<wire, used, queue, got, pc, late, ended, chans>>

(***************************************************************************)
(* Timeouts                                                                *)
(***************************************************************************)
\* The expiration time passes.
Expire(h) ==
    /\ Timeout /\ status[h] \in {"open", "sending"} /\ ~late[h]
    /\ late' = [late EXCEPT ![h] = TRUE]
    /\ UNCHANGED <<wire, entry, used, queue, got, pc, ended, chans>>

\* set_timeout, or poll_flush when the owner sends a frame through h.
DelayTimeout(h) ==
    /\ Callable(h) /\ late[h]
    /\ late' = [late EXCEPT ![h] = FALSE]
    /\ UNCHANGED <<wire, entry, used, queue, got, pc, ended, chans>>

(***************************************************************************)
(* poll_next, first half: the Channel's own queue                          *)
(***************************************************************************)
PollQueueItem(h) ==
    /\ Callable(h) /\ queue[h] # << >>
    /\ got' = [got EXCEPT ![h] = Append(@, Head(queue[h]))]
    /\ queue' = [queue EXCEPT ![h] = Tail(@)]
    /\ late' = [late EXCEPT ![h] = FALSE]
    /\ ended' = [ended EXCEPT ![h] = FALSE]
    /\ UNCHANGED <<wire, entry, used, pc, chans>>

\* Mutated form of PollQueueEnd: a lost sender ends the stream at once.
PollQueueEndEarly(h) ==
    /\ Callable(h) /\ ~SenderAlive(h)
    /\ ended' = [ended EXCEPT ![h] = TRUE]
    /\ UNCHANGED <<wire, entry, used, queue, got, pc, late, chans>>

PollQueueEnd(h) ==
    /\ Callable(h) /\ queue[h] = << >> /\ ~SenderAlive(h)
    /\ ended' = [ended EXCEPT ![h] = TRUE]
    /\ UNCHANGED <<wire, entry, used, queue, got, pc, late, chans>>

\* Mutated form of PollQueuePending: the transport is read whatever is queued.
PollTransportFirst(h) ==
    /\ Callable(h) /\ SenderAlive(h)
    /\ pc' = [pc EXCEPT ![h] = "lock"]
    /\ UNCHANGED <<wire, entry, used, queue, got, late, ended, chans>>

PollQueuePending(h) ==
    /\ Callable(h) /\ queue[h] = << >> /\ SenderAlive(h)
    /\ pc' = [pc EXCEPT ![h] = "lock"]
    /\ UNCHANGED <<wire, entry, used, queue, got, late, ended, chans>>

(***************************************************************************)
(* poll_next, second half: poll_frame under the write lock                 *)
(***************************************************************************)
\* channels.retain(..): the entries whose sender is closed go.
Retained ==
    [k \in Keys |-> IF entry[k] # NoHandle /\ IsClosed(entry[k])
                    THEN NoHandle ELSE entry[k]]

Saturated == Count(Retained) >= MaxFlying
Empty == read = Len(sent)

Locked(h) ==
    /\ pc[h] = "lock"
    /\ pc' = [pc EXCEPT ![h] = "idle"]
    /\ UNCHANGED <<chans, sent, peer, late>>

\* Mutated form of NotReady: the expiration time is not looked at.
NotReadyYet(h) == UNCHANGED <<ended, got>>

\* The multiplexer had nothing for h: None when the timeout is over.
NotReady(h) ==
    /\ ended' = [ended EXCEPT ![h] = late[h]]
    /\ UNCHANGED got

\* The frame read is returned to h itself; its timeout is not delayed.
Return(h) ==
    /\ got' = [got EXCEPT ![h] = Append(@, read + 1)]
    /\ ended' = [ended EXCEPT ![h] = FALSE]
    /\ UNCHANGED <<queue, used>>

\* As many entries as max_flying: the transport is not read.
PollSaturated(h) ==
    /\ Locked(h) /\ Saturated
    /\ entry' = Retained
    /\ NotReady(h)
    /\ UNCHANGED <<read, used, queue>>

PollEmpty(h) ==
    /\ Locked(h) /\ ~Saturated /\ Empty /\ peer
    /\ entry' = Retained
    /\ NotReady(h)
    /\ UNCHANGED <<read, used, queue>>

\* Mutated form of PollTransportEnd: the end is taken for an empty transport.
PollTransportEndPending(h) ==
    /\ Locked(h) /\ ~Saturated /\ Empty /\ ~peer
    /\ entry' = Retained
    /\ NotReady(h)
    /\ UNCHANGED <<read, used, queue>>

PollTransportEnd(h) ==
    /\ Locked(h) /\ ~Saturated /\ Empty /\ ~peer
    /\ entry' = Retained
    /\ ended' = [ended EXCEPT ![h] = TRUE]
    /\ UNCHANGED <<read, used, queue, got>>

\* h takes the next frame from the transport.
Take(h, payload) ==
    /\ Locked(h) /\ ~Saturated /\ ~Empty
    /\ sent[read + 1].payload = payload
    /\ read' = read + 1

Rid == sent[read + 1].id   \* id of the next frame
Owner == Retained[Rid]     \* the Channel registered for it

\* Mutated form of HandleClose: unsubscribes the poller's id.
HandleCloseOfPoller(h) ==
    /\ Take(h, "Close")
    /\ entry' = [Retained EXCEPT ![cid[h]] = NoHandle]
    /\ NotReady(h)
    /\ UNCHANGED <<used, queue>>

HandleClose(h) ==
    /\ Take(h, "Close")
    /\ entry' = [Retained EXCEPT ![Rid] = NoHandle]
    /\ NotReady(h)
    /\ UNCHANGED <<used, queue>>

HandleOwn(h) ==
    /\ Take(h, "Data") /\ Owner # NoHandle /\ Rid = cid[h]
    /\ entry' = Retained
    /\ Return(h)

\* Mutated form of HandleOther: a full queue loses the frame, not its Channel.
HandleOtherLoses(h) ==
    /\ Take(h, "Data") /\ Owner # NoHandle /\ Rid # cid[h]
    /\ IF Len(queue[Owner]) < room[Owner]
       THEN /\ queue' = [queue EXCEPT ![Owner] = Append(@, read + 1)]
            /\ used' = [used EXCEPT ![Owner] = oneshot[Owner]]
       ELSE UNCHANGED <<queue, used>>
    /\ entry' = Retained
    /\ NotReady(h)

\* Mutated form of HandleOther: the frame dispatched is also returned.
HandleOtherEcho(h) ==
    /\ Take(h, "Data") /\ Owner # NoHandle /\ Rid # cid[h]
    /\ Len(queue[Owner]) < room[Owner]
    /\ queue' = [queue EXCEPT ![Owner] = Append(@, read + 1)]
    /\ used' = [used EXCEPT ![Owner] = oneshot[Owner]]
    /\ entry' = Retained
    /\ got' = [got EXCEPT ![h] = Append(@, read + 1)]
    /\ ended' = [ended EXCEPT ![h] = FALSE]

\* Dispatched to the queue of another Channel, which loses its
\* subscription when the queue is full.
HandleOther(h) ==
    /\ Take(h, "Data") /\ Owner # NoHandle /\ Rid # cid[h]
    /\ IF Len(queue[Owner]) < room[Owner]
       THEN /\ queue' = [queue EXCEPT ![Owner] = Append(@, read + 1)]
            /\ used' = [used EXCEPT ![Owner] = oneshot[Owner]]
            /\ entry' = Retained
       ELSE /\ entry' = [Retained EXCEPT ![Rid] = NoHandle]
            /\ UNCHANGED <<queue, used>>
    /\ NotReady(h)

\* Mutated form of HandleUnclaimed: any poller keeps a frame nobody claims.
HandleUnclaimedByAny(h) ==
    /\ Take(h, "Data") /\ Owner = NoHandle
    /\ entry' = Retained
    /\ Return(h)

HandleUnclaimed(h) ==
    /\ Take(h, "Data") /\ Owner = NoHandle /\ cid[h] = NoId
    /\ entry' = Retained
    /\ Return(h)

\* Mutated form of HandleDefault: a frame nobody claims is discarded.
HandleDefaultDrops(h) ==
    /\ Take(h, "Data") /\ Owner = NoHandle /\ cid[h] # NoId
    /\ entry' = Retained
    /\ NotReady(h)
    /\ UNCHANGED <<queue, used>>

\* Left to the default channel; the error of try_send is ignored.
HandleDefault(h) ==
    /\ Take(h, "Data") /\ Owner = NoHandle /\ cid[h] # NoId
    /\ entry' = Retained
    /\ IF Retained[NoId] # NoHandle /\ Len(queue[Root]) < room[Root]
       THEN queue' = [queue EXCEPT ![Root] = Append(@, read + 1)]
       ELSE UNCHANGED queue
    /\ NotReady(h)
    /\ UNCHANGED used

Poll(h) ==
    \/ PollQueueItem(h) \/ PollQueueEnd(h) \/ PollQueuePending(h)
    \/ PollSaturated(h) \/ PollEmpty(h) \/ PollTransportEnd(h)
    \/ HandleClose(h) \/ HandleOwn(h) \/ HandleOther(h)
    \/ HandleUnclaimed(h) \/ HandleDefault(h)

Next ==
    \/ PeerSend \/ PeerLeave
    \/ \E p, h \in Handles : AddChannel(p, h) \/ BeginRequest(p, h)
    \/ \E h \in Handles :
          \/ FinishRequest(h) \/ AbortRequest(h)
          \/ DropChannel(h) \/ CloseMultiplex(h)
          \/ Expire(h) \/ DelayTimeout(h)
          \/ Poll(h)

Spec == Init /\ [][Next]_vars

-----------------------------------------------------------------------------
(***************************************************************************)
(* Correctness                                                             *)
(***************************************************************************)
Positions(s) == {s[i] : i \in DOMAIN s}

\* The frames that reached a Channel: received by its owner, then queued.
Trail(h) == got[h] \o queue[h]
Held(h) == Positions(Trail(h))

IsData(n) == sent[n].payload = "Data"

TypeOK ==
    /\ sent \in Seq(Frame) /\ read \in 0 .. Len(sent) /\ peer \in BOOLEAN
    /\ entry \in [Keys -> Handles \cup {NoHandle}]
    /\ status \in [Handles -> {"free", "sending", "open", "dropped"}]
    /\ cid \in [Handles -> Keys]
    /\ oneshot \in [Handles -> BOOLEAN]
    /\ room \in [Handles -> Nat \ {0}]
    /\ used \in [Handles -> BOOLEAN]
    /\ queue \in [Handles -> Seq(Nat)]
    /\ got \in [Handles -> Seq(Nat)]
    /\ since \in [Handles -> Nat]
    /\ pc \in [Handles -> {"idle", "lock"}]
    /\ asking \in [Handles -> Handles \cup {NoHandle}]
    /\ late \in [Handles -> BOOLEAN]
    /\ ended \in [Handles -> BOOLEAN]

Distinct(s) == \A i, j \in DOMAIN s : s[i] = s[j] => i = j

\* Every frame that reached a Channel is a data frame already taken from the
\* transport, carries the Channel's id unless the Channel is the default one,
\* and reached it only once and no other Channel (handle_frame, also with
\* several threads).
DeliveredOnce ==
    \A h \in Handles :
        /\ \A n \in Held(h) : /\ n \in 1 .. read /\ IsData(n)
                              /\ h = Root \/ sent[n].id = cid[h]
        /\ Distinct(Trail(h))
        /\ \A g \in Handles \ {h} : Held(g) \cap Held(h) = {}

Increasing(s) == \A i, j \in DOMAIN s : i < j => s[i] < s[j]

\* A Channel yields its frames in the order the peer sent them, although
\* some come from its queue and others straight from the transport
\* (poll_next polls the queue first; this needs polls that do not overlap).
Ordered == \A h \in Handles : Increasing(Trail(h))

\* As long as a Channel is registered it has, received or queued, exactly the
\* data frames of its id that were read since it subscribed: whichever Channel
\* reads the transport, none is lost or handed to another (poll_frame).
NoGap ==
    \A h \in Handles \ {Root} :
        Subscribed(h) =>
            Held(h) = {n \in since[h] + 1 .. read : sent[n].id = cid[h] /\ IsData(n)}

\* A Channel stays registered until it is dropped, its only response was
\* dispatched, a frame of its id ends it, or all channels are closed: nothing
\* another Channel does takes its subscription away (unsubscribe, retain).
NotEvicted ==
    [][\A h \in Handles : Subscribed(h) /\ ~Subscribed(h)' =>
          \/ status'[h] = "dropped"
          \/ used[h]
          \/ read' > read /\ sent[read'].id = cid[h]
          \/ \A k \in Keys : entry'[k] = NoHandle]_vars

\* poll_next answers None only to a Channel whose queue is empty, so that no
\* frame already dispatched to it is left behind (poll_next, poll_frame).
EndDrained ==
    [][\A h \in Handles : ~ended[h] /\ ended'[h] => queue[h] = << >>]_vars

Unclaimed(n) == \A h \in Handles : SenderAlive(h) => cid[h] # sent[n].id

\* "The default Channel (whose id=None) gets all messages that haven't be handled
\* by other channels", but for those that meet a full queue (handle_frame ignores
\* the error of try_send): while it is registered, a data frame read for whose id
\* no open sender is registered is received or queued by it, whichever Channel
\* reads it, or its queue is full just then; and what it got it keeps.
DefaultGetsUnclaimed ==
    [][status'[Root] # "dropped" =>
          /\ Held(Root) \subseteq Held(Root)'
          /\ \A n \in read + 1 .. read' :
                IsData(n) /\ Unclaimed(n) /\ SenderAlive(Root) =>
                    n \in Held(Root)' \/ Len(queue[Root]) >= room[Root]]_vars

\* The multiplexer implements the abstract demultiplexer: every frame is
\* delivered at most once and to the right Channel, in the peer's order when
\* polls do not overlap.
D == INSTANCE Demux WITH addr <- cid, InOrder <- ~Parallel
Demultiplexes == D!Spec
=============================================================================
