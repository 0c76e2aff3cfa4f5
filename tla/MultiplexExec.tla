--------------------------- MODULE MultiplexExec ---------------------------
(***************************************************************************)
(* Multiplex under a single-threaded executor (futures LocalPool): a task  *)
(* is polled only after one of its wakers was woken.  The default Channel  *)
(* makes requests; every Channel a request returns is awaited for one      *)
(* response, then dropped, as the client of the unit test does.            *)
(*                                                                         *)
(* The transport's receiver keeps one waker, the last registered; so does  *)
(* the receiver of every Channel's queue.                                  *)
(***************************************************************************)
EXTENDS Multiplex

CONSTANTS
    Tasks, NoTask,
    TaskOf,     \* the task that awaits each Channel
    Modes       \* how the default Channel and its peer may behave

ASSUME TaskAssumption == TaskOf \in [Handles -> Tasks] /\ NoTask \notin Tasks
ASSUME UseAssumption ==
    \A m \in Modes :
        /\ m.pipelined \in BOOLEAN /\ m.solicited \in BOOLEAN /\ m.timeouts \in BOOLEAN
        /\ m.frames \in Nat

VARIABLES
    woken,       \* tasks in the executor's ready queue
    running,     \* the task being polled
    todo,        \* Channels this run of the task has still to poll
    netWaker,    \* the task registered with the transport's receiver
    queueWaker,  \* Channels whose queue's receiver has a waker registered
    mode         \* pipelined: a request may be made while another one waits;
                 \* solicited: the peer only answers Channels that wait, once;
                 \* timeouts: time passes; frames: bound on what the peer sends

execVars == <<woken, running, todo, netWaker, queueWaker, mode>>
allVars == <<vars, execVars>>

\* The owner still awaits the response.
Waiting(h) == h # Root /\ status[h] = "open" /\ got[h] = << >> /\ ~ended[h]
Resolved(h) == h # Root /\ status[h] = "open" /\ ~Waiting(h)

\* The executor is going to poll the Channel.
Scheduled(h) == TaskOf[h] \in woken \/ h \in todo

ExecInit ==
    /\ Init
    /\ woken = {} /\ running = NoTask /\ todo = {}
    /\ netWaker = NoTask /\ queueWaker = {} /\ mode \in Modes

(***************************************************************************)
(* Wakers                                                                  *)
(***************************************************************************)
\* Channels whose receiver this step notifies: a frame was pushed or the
\* sender went away.
Notified ==
    {h \in queueWaker : \/ Len(queue'[h]) > Len(queue[h])
                        \/ SenderAlive(h) /\ ~SenderAlive(h)'}

Wake(registering, others) ==
    /\ woken' = woken \cup {TaskOf[h] : h \in Notified} \cup others
    /\ queueWaker' = (queueWaker \ Notified) \cup registering
    /\ UNCHANGED mode

\* A frame or the end of the transport wakes the registered task, once.
WakeNet ==
    /\ Wake({}, {netWaker} \ {NoTask})
    /\ netWaker' = NoTask
    /\ UNCHANGED <<running, todo>>

(***************************************************************************)
(* The peer                                                                *)
(***************************************************************************)
Answers(f) ==
    /\ f.payload = "Data"
    /\ \E h \in Handles : Waiting(h) /\ cid[h] = f.id
    /\ \A n \in 1 .. Len(sent) : sent[n].id # f.id

ExecPeerSend ==
    /\ PeerSend /\ Len(sent) < mode.frames
    /\ mode.solicited => Answers(sent'[Len(sent')])
    /\ WakeNet

ExecPeerLeave == PeerLeave /\ WakeNet

(***************************************************************************)
(* Requests, made between two runs; the awaiting task is spawned           *)
(***************************************************************************)
Request(h) ==
    /\ running = NoTask
    /\ mode.pipelined \/ \A g \in Handles : ~Waiting(g)
    /\ BeginRequest(Root, h)
    /\ UNCHANGED execVars

Spawn ==
    /\ running = NoTask
    /\ FinishRequest(Root)
    /\ Wake({}, {TaskOf[asking[Root]]})
    /\ UNCHANGED <<running, todo, netWaker>>

ExecExpire(h) == mode.timeouts /\ Expire(h) /\ UNCHANGED execVars

(***************************************************************************)
(* A run of a task polls each Channel it still awaits (join_all)           *)
(***************************************************************************)
Run(t) ==
    /\ running = NoTask /\ t \in woken
    /\ running' = t
    /\ woken' = woken \ {t}
    /\ todo' = {h \in Handles : Waiting(h) /\ TaskOf[h] = t}
    /\ UNCHANGED <<netWaker, queueWaker, mode, vars>>

Polls(h) == h \in todo

\* Mutated form of ExecPollQueue: try_next, which registers nothing.
ExecTryQueue(h) ==
    /\ Polls(h)
    /\ \/ /\ PollQueueItem(h) \/ PollQueueEnd(h)
          /\ todo' = todo \ {h}
       \/ PollQueuePending(h) /\ UNCHANGED todo
    /\ Wake({}, {})
    /\ UNCHANGED <<running, netWaker>>

\* The first half of poll_next registers with the queue when it is empty.
ExecPollQueue(h) ==
    /\ Polls(h)
    /\ \/ /\ PollQueueItem(h) \/ PollQueueEnd(h)
          /\ Wake({}, {})
          /\ todo' = todo \ {h}
       \/ /\ PollQueuePending(h)
          /\ Wake({h}, {})
          /\ UNCHANGED todo
    /\ UNCHANGED <<running, netWaker>>

\* Mutated form of ExecPollFrame: an empty transport is left unwatched.
ExecPollFrameUnwatched(h) ==
    /\ Polls(h)
    /\ \/ PollEmpty(h) \/ PollSaturated(h) \/ PollTransportEnd(h)
       \/ HandleClose(h) \/ HandleOwn(h) \/ HandleOther(h) \/ HandleDefault(h)
    /\ Wake({}, {})
    /\ todo' = todo \ {h}
    /\ UNCHANGED <<running, netWaker>>

\* The second half registers with the transport only when that is empty.
ExecPollFrame(h) ==
    /\ Polls(h)
    /\ \/ /\ PollEmpty(h)
          /\ netWaker' = running
       \/ /\ \/ PollSaturated(h) \/ PollTransportEnd(h)
             \/ HandleClose(h) \/ HandleOwn(h) \/ HandleOther(h) \/ HandleDefault(h)
          /\ UNCHANGED netWaker
    /\ Wake({}, {})
    /\ todo' = todo \ {h}
    /\ UNCHANGED running

\* The response is there, or will not come: the Channel goes out of scope.
Finish(h) ==
    /\ running # NoTask /\ TaskOf[h] = running /\ Resolved(h)
    /\ DropChannel(h)
    /\ Wake({}, {})
    /\ todo' = todo \ {h}
    /\ UNCHANGED <<running, netWaker>>

\* Mutated form of Yield: the run may end with Channels left to poll.
YieldEarly ==
    /\ running # NoTask
    /\ running' = NoTask
    /\ UNCHANGED <<woken, todo, netWaker, queueWaker, mode, vars>>

Yield ==
    /\ running # NoTask /\ todo = {}
    /\ \A h \in Handles : TaskOf[h] = running => ~Resolved(h)
    /\ running' = NoTask
    /\ UNCHANGED <<woken, todo, netWaker, queueWaker, mode, vars>>

Work ==
    \/ Yield
    \/ \E t \in Tasks : Run(t)
    \/ \E h \in Handles : ExecPollQueue(h) \/ ExecPollFrame(h) \/ Finish(h)

ExecNext ==
    \/ ExecPeerSend \/ ExecPeerLeave \/ Spawn \/ Work
    \/ \E h \in Handles : Request(h) \/ ExecExpire(h)

\* The executor runs every woken task to its next suspension.
ExecFairness ==
    /\ WF_allVars(Yield)
    /\ \A t \in Tasks : SF_allVars(Run(t))
    /\ \A h \in Handles : WF_allVars(ExecPollQueue(h) \/ ExecPollFrame(h) \/ Finish(h))

ExecSpec == ExecInit /\ [][ExecNext]_allVars /\ ExecFairness

-----------------------------------------------------------------------------
(***************************************************************************)
(* Correctness                                                             *)
(***************************************************************************)
\* The executor's bookkeeping has its types, and a Channel is polled only by
\* the task that runs.
ExecTypeOK ==
    /\ woken \subseteq Tasks /\ running \in Tasks \cup {NoTask}
    /\ todo \subseteq {h \in Handles : TaskOf[h] = running}
    /\ netWaker \in Tasks \cup {NoTask} /\ queueWaker \subseteq Handles
    /\ mode \in Modes

\* The response waits in the transport.
Answered(h) ==
    /\ Waiting(h) /\ Subscribed(h)
    /\ \E n \in read + 1 .. Len(sent) : sent[n].id = cid[h] /\ IsData(n)

\* One request at a time, awaited without a timeout, to a peer that does
\* nothing but answer.
OneAtATime == ~mode.pipelined /\ mode.solicited /\ ~mode.timeouts

\* A Channel that waits and is not going to be polled is woken by the next
\* frame or the end of the transport, which holds no frame and still has its
\* peer (poll_frame must register the waker it is given when it returns
\* Pending): so it is when requests are made one at a time.
Reachable ==
    OneAtATime =>
        \A h \in Handles :
            Waiting(h) => Scheduled(h) \/ (netWaker = TaskOf[h] /\ Empty /\ peer)

\* However many requests are pending, a Channel is never left asleep over a
\* frame in its own queue, nor once its sender is gone (poll_next registers with
\* the queue before it tries the multiplexer; what dispatches, drops the
\* subscription or drops the sender wakes the owner).
QueueWatched ==
    \A h \in Handles :
        Waiting(h) /\ (queue[h] # << >> \/ ~SenderAlive(h)) => Scheduled(h)

\* "Send a request and return channel awaiting a single response": a response
\* the peer sent reaches the Channel that waits for it (request, poll_next).
ResponseReceived == \A h \in Handles : Answered(h) ~> ~Waiting(h)

\* It does when requests are made one at a time.
SingleReceived == \A h \in Handles : (OneAtATime /\ Answered(h)) ~> ~Waiting(h)

\* A response another Channel's poll put into a Channel's queue reaches its
\* owner, however many requests are pending (handle_frame, poll_next).
QueuedReceived == \A h \in Handles : (Waiting(h) /\ queue[h] # << >>) ~> ~Waiting(h)

\* A Channel whose expiration time is over stops waiting when its task runs
\* again, whatever else the run reads or dispatches (poll_next, is_timed_out).
TimeoutAtWake ==
    \A h \in Handles : (Waiting(h) /\ late[h] /\ TaskOf[h] \in woken) ~> ~Waiting(h)

\* Once the peer is gone nobody keeps waiting (poll_frame, Ready(None)), if
\* requests are made one at a time.
LeaveEndsAll == \A h \in Handles : (OneAtATime /\ ~peer /\ Waiting(h)) ~> ~Waiting(h)
=============================================================================
