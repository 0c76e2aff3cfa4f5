------------------------- MODULE MultiplexExecProofs -------------------------
(***************************************************************************)
(* Proofs about MultiplexExec, for every number of Channels and tasks: the *)
(* executor only restricts what the multiplexer may do, and a Channel that *)
(* waits is always going to be polled when requests are made one at a      *)
(* time.                                                                   *)
(***************************************************************************)
EXTENDS MultiplexExec, MultiplexProofs

-----------------------------------------------------------------------------
(***************************************************************************)
(* Every step is one of the multiplexer                                    *)
(***************************************************************************)
LEMMA ExecStep == [ExecNext]_allVars => [Next]_vars
<1> SUFFICES ASSUME [ExecNext]_allVars PROVE [Next]_vars
  OBVIOUS
<1>1. Root \in Handles
  BY HandleAssumption
<1>2. CASE ExecPeerSend \/ ExecPeerLeave
  BY <1>2 DEF ExecPeerSend, ExecPeerLeave, Next
<1>3. CASE Spawn
  BY <1>1, <1>3 DEF Spawn, Next
<1>4. CASE Yield \/ \E t \in Tasks : Run(t)
  BY <1>4 DEF Yield, Run
<1>5. ASSUME NEW h \in Handles, ExecPollQueue(h) \/ ExecPollFrame(h) PROVE Next
  <2>1. Poll(h)
    BY <1>5 DEF ExecPollQueue, ExecPollFrame, Poll
  <2> QED BY <2>1 DEF Next
<1>6. ASSUME NEW h \in Handles, Finish(h) PROVE Next
  BY <1>6 DEF Finish, Next
<1>7. ASSUME NEW h \in Handles, Request(h) PROVE Next
  BY <1>1, <1>7 DEF Request, Next
<1>8. ASSUME NEW h \in Handles, ExecExpire(h) PROVE Next
  BY <1>8 DEF ExecExpire, Next
<1>9. CASE UNCHANGED allVars
  BY <1>9 DEF allVars
<1> QED
  BY <1>2, <1>3, <1>4, <1>5, <1>6, <1>7, <1>8, <1>9 DEF ExecNext, Work

\* Under the executor the multiplexer behaves as it does without: whatever is
\* proved of Multiplex holds here too (every handler is called by a task).
THEOREM Implements == ExecSpec => Spec
<1>1. ExecInit => Init
  BY DEF ExecInit
<1> QED BY <1>1, ExecStep, PTL DEF ExecSpec, Spec

LEMMA Underneath == ExecSpec => [](TypeOK /\ Registry)
<1>1. IInv => TypeOK /\ Registry
  BY DEF IInv
<1> QED BY <1>1, Implements, Invariance, PTL

-----------------------------------------------------------------------------
(***************************************************************************)
(* Bookkeeping                                                             *)
(***************************************************************************)
\* The Channels requests made, from the request to the drop.
Live == {h \in Handles \ {Root} : status[h] \in {"sending", "open"}}

Bookkeeping ==
    /\ ExecTypeOK
    /\ \A h \in todo : Waiting(h)
    /\ \A h \in Handles : Resolved(h) => running = TaskOf[h]
    /\ status[Root] = "open"
    /\ \A k \in Keys : entry[k] # NoHandle => entry[k] = Root \/ entry[k] \in Live
    /\ \A h \in Handles : status[h] = "sending" <=> asking[Root] = h
    /\ \A h \in Handles \ {Root} :
          status[h] \in {"free", "sending"} => got[h] = << >> /\ ~ended[h]

LEMMA WakeGrows ==
    ASSUME ExecTypeOK, NEW registering \in SUBSET Handles, NEW others \in SUBSET Tasks,
           Wake(registering, others)
    PROVE  /\ woken \subseteq woken' /\ others \subseteq woken' /\ woken' \subseteq Tasks
           /\ queueWaker' \subseteq Handles /\ mode' = mode
<1>1. Notified \subseteq Handles
  BY DEF Notified, ExecTypeOK
<1>2. {TaskOf[h] : h \in Notified} \subseteq Tasks
  BY <1>1, TaskAssumption
<1> QED BY <1>1, <1>2 DEF Wake, ExecTypeOK

LEMMA BookInit == ExecInit => Bookkeeping
BY HandleAssumption, TaskAssumption
   DEF ExecInit, Init, Bookkeeping, ExecTypeOK, Waiting, Resolved, Live

\* The multiplexer does not move.
LEMMA BookScheduled ==
    ASSUME Bookkeeping, Yield \/ \E t \in Tasks : Run(t)
    PROVE  Bookkeeping'
<1>1. UNCHANGED vars
  BY DEF Yield, Run
<1>2. \A h \in Handles : /\ Waiting(h)' <=> Waiting(h)
                         /\ Resolved(h)' <=> Resolved(h)
                         /\ (h \in Live' <=> h \in Live)
  BY <1>1 DEF vars, Waiting, Resolved, Live
<1>3. CASE Yield
  <2>1. \A h \in Handles : ~Resolved(h)
    BY <1>3 DEF Yield, Bookkeeping
  <2> QED BY <1>1, <1>2, <1>3, <2>1 DEF Yield, Bookkeeping, ExecTypeOK, vars, Live
<1>4. ASSUME NEW t \in Tasks, Run(t) PROVE Bookkeeping'
  <2>1. \A h \in Handles : ~Resolved(h)
    BY <1>4, TaskAssumption DEF Run, Bookkeeping
  <2> QED BY <1>1, <1>2, <1>4, <2>1 DEF Run, Bookkeeping, ExecTypeOK, vars, Live
<1> QED BY <1>3, <1>4

LEMMA BookPeer ==
    ASSUME Bookkeeping, ExecPeerSend \/ ExecPeerLeave
    PROVE  Bookkeeping'
<1>1. UNCHANGED <<entry, status, cid, got, asking, ended, running, todo>>
  BY DEF ExecPeerSend, ExecPeerLeave, PeerSend, PeerLeave, WakeNet, chans
<1>2. {netWaker} \ {NoTask} \in SUBSET Tasks
  BY DEF Bookkeeping, ExecTypeOK
<1>3. woken' \subseteq Tasks /\ queueWaker' \subseteq Handles /\ mode' = mode /\ netWaker' = NoTask
  BY <1>2, WakeGrows DEF Bookkeeping, ExecPeerSend, ExecPeerLeave, WakeNet
<1> QED BY <1>1, <1>3 DEF Bookkeeping, ExecTypeOK, Waiting, Resolved, Live

LEMMA BookRequest ==
    ASSUME TypeOK, Bookkeeping, NEW h \in Handles, Request(h)
    PROVE  Bookkeeping'
<1>1. PICK i \in Ids : /\ status[h] = "free" /\ entry' = [entry EXCEPT ![i] = h]
                       /\ status' = [status EXCEPT ![h] = "sending"]
                       /\ asking[Root] = NoHandle /\ asking' = [asking EXCEPT ![Root] = h]
                       /\ UNCHANGED <<got, ended, running, todo, woken, netWaker, queueWaker, mode>>
  BY DEF Request, BeginRequest, Subscribe, Callable, execVars
<1>2. h # Root
  BY <1>1 DEF Bookkeeping
<1>3. \A g \in Handles : status[g] # "sending"
  BY <1>1, HandleAssumption DEF Bookkeeping
<1>4. \A g \in Handles : /\ Waiting(g)' <=> Waiting(g)
                         /\ Resolved(g)' <=> Resolved(g)
                         /\ g \in Live => g \in Live'
  BY <1>1, <1>2 DEF Waiting, Resolved, Live, TypeOK
<1>5. h \in Live'
  BY <1>1, <1>2 DEF Live, TypeOK
<1>6. \A k \in Keys : entry'[k] # NoHandle => entry'[k] = Root \/ entry'[k] \in Live'
  <2>1. \A k \in Keys : entry'[k] = entry[k] \/ entry'[k] = h
    BY <1>1 DEF TypeOK
  <2>2. \A k \in Keys : entry[k] # NoHandle => entry[k] = Root \/ entry[k] \in Live'
    BY <1>4 DEF Bookkeeping, TypeOK
  <2>3. ASSUME NEW k \in Keys, entry'[k] # NoHandle, entry'[k] # Root PROVE entry'[k] \in Live'
    <3>1. CASE entry'[k] = h
      BY <1>1, <1>2, <3>1 DEF Live, TypeOK
    <3>2. CASE entry'[k] = entry[k]
      <4>1. entry[k] \in Handles /\ entry[k] \in Live
        BY <2>3, <3>2 DEF Bookkeeping, TypeOK
      <4> QED BY <1>1, <3>2, <4>1 DEF Live, TypeOK
    <3> QED BY <2>1, <3>1, <3>2
  <2> QED BY <2>3
<1>7. \A g \in Handles : status'[g] = "sending" <=> asking'[Root] = g
  BY <1>1, <1>3, HandleAssumption DEF TypeOK
<1>8. \A g \in Handles \ {Root} : status'[g] \in {"free", "sending"} => got'[g] = << >> /\ ~ended'[g]
  BY <1>1 DEF TypeOK, Bookkeeping
<1>9. ExecTypeOK' /\ status'[Root] = "open" /\ todo' = todo /\ todo \subseteq Handles
  <2>1. ExecTypeOK' /\ todo' = todo /\ todo \subseteq Handles
    BY <1>1 DEF Bookkeeping, ExecTypeOK
  <2>2. status'[Root] = "open"
    BY <1>1, <1>2, HandleAssumption DEF Bookkeeping, TypeOK
  <2> QED BY <2>1, <2>2
<1> QED BY <1>1, <1>4, <1>6, <1>7, <1>8, <1>9 DEF Bookkeeping

LEMMA BookSpawn ==
    ASSUME TypeOK, Bookkeeping, Spawn
    PROVE  Bookkeeping' /\ TaskOf[asking[Root]] \in woken' /\ asking[Root] \in Handles
<1> DEFINE h == asking[Root]
<1>1. /\ h \in Handles /\ Root \in Handles
      /\ status' = [status EXCEPT ![h] = "open"]
      /\ asking' = [asking EXCEPT ![Root] = NoHandle]
      /\ UNCHANGED <<entry, got, ended, running, todo, netWaker>> /\ running = NoTask
  BY HandleAssumption DEF Spawn, FinishRequest, TypeOK
<1>2. {TaskOf[h]} \in SUBSET Tasks
  BY <1>1, TaskAssumption
<1>3. /\ woken' \subseteq Tasks /\ queueWaker' \subseteq Handles /\ mode' = mode
      /\ TaskOf[h] \in woken'
  BY <1>2, WakeGrows DEF Bookkeeping, Spawn
<1>4. todo = {}
  <2>1. \A g \in Handles : TaskOf[g] # NoTask
    BY TaskAssumption
  <2> QED BY <1>1, <2>1 DEF Bookkeeping, ExecTypeOK
<1>5. h # Root /\ status[h] = "sending" /\ got[h] = << >> /\ ~ended[h]
  BY <1>1 DEF Bookkeeping
<1>6. /\ status'[h] = "open"
      /\ \A g \in Handles : g # h => status'[g] = status[g]
  BY <1>1 DEF TypeOK
<1> HIDE DEF h
<1>7. ASSUME NEW g \in Handles, Resolved(g)' PROVE FALSE
  <2>1. ~Resolved(g)
    BY <1>1, TaskAssumption DEF Bookkeeping
  <2> QED BY <1>1, <1>5, <1>6, <1>7, <2>1 DEF Resolved, Waiting
<1>8. \A k \in Keys : entry'[k] # NoHandle => entry'[k] = Root \/ entry'[k] \in Live'
  <2>1. ASSUME NEW k \in Keys, entry[k] # NoHandle, entry[k] # Root PROVE entry[k] \in Live'
    <3>1. entry[k] \in Handles /\ entry[k] \in Live
      BY <2>1 DEF Bookkeeping, TypeOK
    <3> QED BY <1>6, <3>1 DEF Live
  <2> QED BY <1>1, <2>1
<1>9. \A g \in Handles : status'[g] = "sending" <=> asking'[Root] = g
  <2>1. asking'[Root] = NoHandle
    BY <1>1 DEF TypeOK
  <2>2. \A g \in Handles : status'[g] # "sending"
    <3>1. \A g \in Handles : status[g] = "sending" <=> h = g
      BY DEF Bookkeeping, h
    <3> QED BY <1>6, <3>1
  <2> QED BY <2>1, <2>2, HandleAssumption
<1>10. /\ ExecTypeOK' /\ todo' = {} /\ status'[Root] = "open"
       /\ \A g \in Handles \ {Root} : status'[g] \in {"free", "sending"} => got'[g] = << >> /\ ~ended'[g]
  BY <1>1, <1>3, <1>4, <1>5, <1>6 DEF Bookkeeping, ExecTypeOK
<1> QED BY <1>1, <1>3, <1>7, <1>8, <1>9, <1>10 DEF Bookkeeping, h

LEMMA BookExpire == ASSUME Bookkeeping, NEW h \in Handles, ExecExpire(h) PROVE Bookkeeping'
<1>1. UNCHANGED <<entry, status, got, asking, ended, running, todo, woken, netWaker, queueWaker, mode>>
  BY DEF ExecExpire, Expire, chans, execVars
<1> QED BY <1>1 DEF Bookkeeping, ExecTypeOK, Waiting, Resolved, Live

\* What a poll of a Channel may do.
PollOf(h) ==
    /\ UNCHANGED <<status, cid, asking, running, mode>>
    /\ \A g \in Handles : g # h => got'[g] = got[g] /\ ended'[g] = ended[g]
    /\ \A k \in Keys : entry'[k] \in {entry[k], NoHandle}
    /\ woken \subseteq woken' /\ woken' \subseteq Tasks /\ queueWaker' \subseteq Handles
    /\ netWaker' \in {netWaker, running}
    /\ \/ todo' = todo /\ got' = got /\ ended' = ended
       \/ todo' = todo \ {h}

LEMMA PollsAre ==
    ASSUME TypeOK, Registry, Bookkeeping, NEW h \in Handles, ExecPollQueue(h) \/ ExecPollFrame(h)
    PROVE  PollOf(h) /\ h \in todo
<1>1. h \in todo /\ UNCHANGED running
  BY DEF ExecPollQueue, ExecPollFrame, Polls
<1>2. CASE ExecPollQueue(h)
  <2>1. /\ woken \subseteq woken' /\ woken' \subseteq Tasks /\ queueWaker' \subseteq Handles
        /\ mode' = mode
    BY <1>2, WakeGrows DEF ExecPollQueue, Bookkeeping
  <2>2. /\ UNCHANGED <<entry, status, cid, asking, netWaker>>
        /\ \A g \in Handles : g # h => got'[g] = got[g] /\ ended'[g] = ended[g]
        /\ \/ todo' = todo /\ got' = got /\ ended' = ended
           \/ todo' = todo \ {h}
    BY <1>2 DEF ExecPollQueue, PollQueueItem, PollQueueEnd, PollQueuePending, chans, TypeOK
  <2> QED BY <1>1, <2>1, <2>2 DEF PollOf
<1>3. CASE ExecPollFrame(h)
  <2>1. /\ woken \subseteq woken' /\ woken' \subseteq Tasks /\ queueWaker' \subseteq Handles
        /\ mode' = mode
    BY <1>3, WakeGrows DEF ExecPollFrame, Bookkeeping
  <2>2. UNCHANGED <<status, cid, asking>>
    BY <1>3 DEF ExecPollFrame, PollEmpty, PollSaturated, PollTransportEnd, HandleClose, HandleOwn,
       HandleOther, HandleDefault, Take, Locked, chans
  <2>3. \A g \in Handles : g # h => got'[g] = got[g] /\ ended'[g] = ended[g]
    BY <1>3 DEF ExecPollFrame, PollEmpty, PollSaturated, PollTransportEnd, HandleClose, HandleOwn,
       HandleOther, HandleDefault, Take, Locked, NotReady, Return, TypeOK
  <2>4. \A k \in Keys : entry'[k] \in {entry[k], NoHandle}
    <3>1. entry' = Retained \/ entry' = [Retained EXCEPT ![Rid] = NoHandle]
      BY <1>3 DEF ExecPollFrame, PollEmpty, PollSaturated, PollTransportEnd, HandleClose, HandleOwn,
         HandleOther, HandleDefault
    <3> QED BY <3>1 DEF Retained
  <2>5. netWaker' \in {netWaker, running} /\ todo' = todo \ {h}
    BY <1>3 DEF ExecPollFrame
  <2> QED BY <1>1, <2>1, <2>2, <2>3, <2>4, <2>5 DEF PollOf
<1> QED BY <1>1, <1>2, <1>3

LEMMA BookPoll ==
    ASSUME TypeOK, Bookkeeping, NEW h \in Handles, PollOf(h), h \in todo
    PROVE  Bookkeeping'
<1>1. TaskOf[h] = running /\ Waiting(h) /\ h # Root /\ status[h] = "open"
  BY DEF Bookkeeping, ExecTypeOK, Waiting
<1>2. ExecTypeOK'
  BY DEF Bookkeeping, ExecTypeOK, PollOf
<1>3. \A g \in Handles : g # h => (Waiting(g)' <=> Waiting(g)) /\ (Resolved(g)' <=> Resolved(g))
  BY DEF PollOf, Waiting, Resolved
<1>4. \A g \in todo' : Waiting(g)'
  <2>1. CASE todo' = todo /\ got' = got /\ ended' = ended
    BY <2>1 DEF PollOf, Bookkeeping, Waiting
  <2>2. CASE todo' = todo \ {h}
    BY <1>3, <2>2 DEF Bookkeeping, ExecTypeOK
  <2> QED BY <2>1, <2>2 DEF PollOf
<1>5. \A g \in Handles : Resolved(g)' => running' = TaskOf[g]
  BY <1>1, <1>3 DEF Bookkeeping, PollOf
<1>6. \A k \in Keys : entry'[k] # NoHandle => entry'[k] = Root \/ entry'[k] \in Live'
  BY DEF PollOf, Bookkeeping, Live
<1> QED BY <1>1, <1>2, <1>4, <1>5, <1>6 DEF Bookkeeping, PollOf

LEMMA BookFinish ==
    ASSUME TypeOK, Registry, Bookkeeping, NEW h \in Handles, Finish(h)
    PROVE  Bookkeeping' /\ woken \subseteq woken' /\ mode' = mode
<1>1. /\ running # NoTask /\ TaskOf[h] = running /\ Resolved(h)
      /\ status' = [status EXCEPT ![h] = "dropped"]
      /\ entry' = [entry EXCEPT ![cid[h]] = NoHandle]
      /\ UNCHANGED <<cid, got, ended, asking, running, netWaker>> /\ todo' = todo \ {h}
  BY DEF Finish, DropChannel, Release
<1>2. h # Root /\ status[h] = "open" /\ h \notin todo
  BY <1>1 DEF Resolved, Waiting, Bookkeeping
<1>3. woken \subseteq woken' /\ woken' \subseteq Tasks /\ queueWaker' \subseteq Handles /\ mode' = mode
  BY WakeGrows DEF Finish, Bookkeeping
<1>4. ExecTypeOK'
  BY <1>1, <1>3 DEF Bookkeeping, ExecTypeOK
<1>5. /\ status'[h] = "dropped" /\ \A g \in Handles : g # h => status'[g] = status[g]
  BY <1>1 DEF TypeOK
<1>6. \A g \in Handles : g # h => (Waiting(g)' <=> Waiting(g)) /\ (Resolved(g)' <=> Resolved(g))
  BY <1>1, <1>5 DEF Waiting, Resolved
<1>7. \A g \in todo' : Waiting(g)'
  BY <1>1, <1>6 DEF Bookkeeping, ExecTypeOK
<1>8. \A g \in Handles : Resolved(g)' => running' = TaskOf[g]
  BY <1>1, <1>6 DEF Bookkeeping
<1>9. ASSUME NEW k \in Keys, entry'[k] # NoHandle, entry'[k] # Root PROVE entry'[k] \in Live'
  <2>1. entry'[k] = entry[k] /\ k # cid[h]
    BY <1>1, <1>9 DEF TypeOK
  <2>2. entry[k] \in Handles /\ entry[k] \in Live /\ cid[entry[k]] = k
    BY <1>9, <2>1 DEF Bookkeeping, TypeOK, Registry
  <2> QED BY <1>5, <2>1, <2>2 DEF Live
<1>10. \A g \in Handles : status'[g] = "sending" <=> asking'[Root] = g
  BY <1>1, <1>2, <1>5 DEF Bookkeeping
<1>11. /\ status'[Root] = "open"
       /\ \A g \in Handles \ {Root} : status'[g] \in {"free", "sending"} => got'[g] = << >> /\ ~ended'[g]
  BY <1>1, <1>2, <1>5, HandleAssumption DEF Bookkeeping
<1> QED BY <1>3, <1>4, <1>7, <1>8, <1>9, <1>10, <1>11 DEF Bookkeeping

LEMMA BookNext == TypeOK /\ Registry /\ Bookkeeping /\ [ExecNext]_allVars => Bookkeeping'
<1> SUFFICES ASSUME TypeOK, Registry, Bookkeeping, [ExecNext]_allVars PROVE Bookkeeping'
  OBVIOUS
<1>1. CASE UNCHANGED allVars
  BY <1>1 DEF allVars, vars, execVars, Bookkeeping, ExecTypeOK, Waiting, Resolved, Live
<1> QED BY <1>1, BookScheduled, BookPeer, BookRequest, BookSpawn, BookExpire, PollsAre, BookPoll,
     BookFinish DEF ExecNext, Work

\* The executor's bookkeeping is right for every number of Channels and tasks,
\* and no task ever polls a Channel of another (LocalPool, join_all).
THEOREM ExecTypeCorrect == ExecSpec => []ExecTypeOK
<1>1. Bookkeeping => ExecTypeOK
  BY DEF Bookkeeping
<1>2. ExecSpec => []Bookkeeping
  BY BookInit, BookNext, Underneath, PTL DEF ExecSpec
<1> QED BY <1>1, <1>2, PTL

-----------------------------------------------------------------------------
(***************************************************************************)
(* One request at a time                                                   *)
(***************************************************************************)
\* One Channel at most is registered beside the default one, so that its queue
\* is never used and every frame that arrives is its own: when a poll returns
\* Pending it has just found the transport empty, and registered.
Alone ==
    /\ \A g, h \in Live : g = h
    /\ \A h \in Live : Subscribed(h)
    /\ \A h \in Handles : ~used[h] /\ ~late[h]
    /\ \A h \in Handles \ {Root} : queue[h] = << >>
    /\ \A n \in 1 .. Len(sent) : IsData(n)
    /\ \A n, m \in 1 .. Len(sent) : sent[n].id = sent[m].id => n = m
    /\ \A n \in read + 1 .. Len(sent) : \E h \in Handles : Waiting(h) /\ cid[h] = sent[n].id
    /\ \A h \in Handles : Waiting(h) => Scheduled(h) \/ (netWaker = TaskOf[h] /\ Empty /\ peer)

LEMMA AloneInit == ExecInit => Alone
BY HandleAssumption DEF ExecInit, Init, Alone, Waiting, Live

LEMMA WaitingLives == \A h \in Handles : Waiting(h) => h \in Live
BY DEF Waiting, Live

\* Two Channels never saturate the multiplexer.
LEMMA NotSaturated ==
    ASSUME TypeOK, Registry, Bookkeeping, Alone, MaxFlying >= 3
    PROVE  ~Saturated /\ Retained = entry
<1>1. Retained = entry
  BY DEF Retained, IsClosed, Alone, TypeOK
<1>2. PICK a \in Keys : \A g \in Live : cid[g] = a
  <2>1. CASE Live = {}
    BY <2>1 DEF Keys
  <2>2. ASSUME NEW g \in Live PROVE cid[g] \in Keys /\ \A f \in Live : cid[f] = cid[g]
    BY DEF Live, Alone, TypeOK
  <2> QED BY <2>1, <2>2
<1>3. {k \in Keys : entry[k] # NoHandle} \subseteq {a, cid[Root]}
  BY <1>2 DEF Bookkeeping, Registry, TypeOK
<1>4. Cardinality({a, cid[Root]}) <= 2 /\ IsFiniteSet({a, cid[Root]})
  <2>1. IsFiniteSet({a}) /\ Cardinality({a}) = 1
    BY FS_Singleton
  <2>2. {a, cid[Root]} = {a} \cup {cid[Root]}
    OBVIOUS
  <2> QED BY <2>1, <2>2, FS_AddElement
<1>5. Cardinality({k \in Keys : entry[k] # NoHandle}) <= 2
  <2>1. /\ IsFiniteSet({k \in Keys : entry[k] # NoHandle})
        /\ Cardinality({k \in Keys : entry[k] # NoHandle}) <= Cardinality({a, cid[Root]})
    BY <1>3, <1>4, FS_Subset
  <2> QED BY <1>4, <2>1, FS_CardinalityType
<1>6. Cardinality({k \in Keys : entry[k] # NoHandle}) \in Nat
  BY <1>3, <1>4, FS_Subset, FS_CardinalityType
<1>7. Count(entry) <= 2 /\ Count(entry) \in Nat
  BY <1>5, <1>6 DEF Count
<1> QED BY <1>1, <1>7, BoundAssumption DEF Saturated

\* What a poll of the only Channel does.
Kept == UNCHANGED <<sent, peer, entry, status, cid, used, queue, late, asking, running, mode>>

Locks(h) == UNCHANGED <<read, got, ended, todo, netWaker>>

Pends(h) ==
    /\ Empty /\ peer /\ UNCHANGED <<read, got, ended>>
    /\ todo' = todo \ {h} /\ netWaker' = running

Ends(h) ==
    /\ Empty /\ UNCHANGED <<read, got, netWaker>>
    /\ ended' = [ended EXCEPT ![h] = TRUE] /\ todo' = todo \ {h}

Obtains(h) ==
    /\ ~Empty /\ sent[read + 1].id = cid[h] /\ read' = read + 1
    /\ got' = [got EXCEPT ![h] = Append(@, read + 1)]
    /\ ended' = [ended EXCEPT ![h] = FALSE]
    /\ UNCHANGED netWaker /\ todo' = todo \ {h}

LEMMA AlonePoll ==
    ASSUME TypeOK, Registry, Bookkeeping, Alone, MaxFlying >= 3, NEW h \in Handles,
           ExecPollQueue(h) \/ ExecPollFrame(h)
    PROVE  /\ h \in todo /\ woken \subseteq woken' /\ Kept
           /\ Locks(h) \/ Pends(h) \/ Ends(h) \/ Obtains(h)
<1>1. PollOf(h) /\ h \in todo
  BY PollsAre
<1>2. /\ TaskOf[h] = running /\ h # Root /\ h \in Live /\ Waiting(h) /\ queue[h] = << >>
      /\ Subscribed(h) /\ ~used[h] /\ ~late[h] /\ ~ended[h]
  BY <1>1, WaitingLives DEF Bookkeeping, ExecTypeOK, Alone, Waiting
<1>3. ~Saturated /\ Retained = entry
  BY NotSaturated
<1>4. CASE ExecPollQueue(h)
  <2>1. PollQueuePending(h) /\ UNCHANGED todo
    BY <1>2, <1>4 DEF ExecPollQueue, PollQueueItem, PollQueueEnd, SenderAlive, IsClosed
  <2> QED BY <1>1, <1>4, <2>1 DEF ExecPollQueue, PollQueuePending, Kept, Locks, PollOf, chans, wire
<1>5. CASE ExecPollFrame(h)
  <2>1. ~Empty => sent[read + 1].payload = "Data" /\ Rid = cid[h] /\ Owner = h
    <3> HAVE ~Empty
    <3>1. read + 1 \in 1 .. Len(sent) /\ read + 1 \in read + 1 .. Len(sent)
      BY FrameRead DEF Empty, TypeOK
    <3>2. PICK g \in Handles : Waiting(g) /\ cid[g] = sent[read + 1].id
      BY <3>1 DEF Alone
    <3>3. g = h
      BY <1>2, <3>2, WaitingLives DEF Alone
    <3> QED BY <1>2, <1>3, <3>1, <3>2, <3>3 DEF Alone, IsData, Rid, Owner, Subscribed
  <2>2. \/ PollEmpty(h) /\ netWaker' = running
        \/ PollTransportEnd(h) /\ UNCHANGED netWaker
        \/ HandleOwn(h) /\ UNCHANGED netWaker
    <3>1. ~PollSaturated(h)
      BY <1>3 DEF PollSaturated
    <3>2. ~HandleClose(h)
      BY <2>1 DEF HandleClose, Take
    <3>3. ~HandleOther(h)
      BY <2>1 DEF HandleOther, Take
    <3>4. ~HandleDefault(h)
      BY <2>1, HandleAssumption DEF HandleDefault, Take
    <3> QED BY <1>5, <3>1, <3>2, <3>3, <3>4 DEF ExecPollFrame
  <2>3. todo' = todo \ {h}
    BY <1>5 DEF ExecPollFrame
  <2>4. UNCHANGED <<sent, peer, cid, entry, late, used, queue>>
    BY <1>3, <2>2 DEF PollEmpty, PollTransportEnd, HandleOwn, Take, Locked, Return, chans
  <2>5. CASE PollEmpty(h) /\ netWaker' = running
    <3>1. Empty /\ peer /\ UNCHANGED <<read, got>> /\ ended' = [ended EXCEPT ![h] = late[h]]
      BY <2>5 DEF PollEmpty, NotReady
    <3>2. ended' = ended
      BY <1>2, <3>1 DEF TypeOK
    <3> QED BY <1>1, <2>3, <2>4, <2>5, <3>1, <3>2 DEF Kept, Pends, PollOf
  <2>6. CASE PollTransportEnd(h) /\ UNCHANGED netWaker
    BY <1>1, <2>3, <2>4, <2>6 DEF Kept, Ends, PollOf, PollTransportEnd
  <2>7. CASE HandleOwn(h) /\ UNCHANGED netWaker
    BY <1>1, <2>1, <2>3, <2>4, <2>7 DEF Kept, Obtains, PollOf, HandleOwn, Take, Return, Rid
  <2> QED BY <2>2, <2>5, <2>6, <2>7
<1> QED BY <1>4, <1>5

LEMMA AlonePollNext ==
    ASSUME TypeOK, Registry, Bookkeeping, Alone, MaxFlying >= 3, NEW h \in Handles,
           ExecPollQueue(h) \/ ExecPollFrame(h)
    PROVE  Alone'
<1>1. /\ h \in todo /\ woken \subseteq woken' /\ Kept
      /\ Locks(h) \/ Pends(h) \/ Ends(h) \/ Obtains(h)
  BY AlonePoll
<1>2. Waiting(h) /\ h \in Live /\ TaskOf[h] = running
  BY <1>1, WaitingLives DEF Bookkeeping, ExecTypeOK
<1>3. Live' = Live
  BY <1>1 DEF Kept, Live
<1>4. /\ \A g, f \in Live' : g = f
      /\ \A g \in Live' : Subscribed(g)'
      /\ \A g \in Handles : ~used'[g] /\ ~late'[g]
      /\ \A g \in Handles \ {Root} : queue'[g] = << >>
      /\ \A n \in 1 .. Len(sent') : IsData(n)'
      /\ \A n, m \in 1 .. Len(sent') : sent'[n].id = sent'[m].id => n = m
  BY <1>1, <1>3 DEF Alone, Kept, Subscribed, IsData
<1>5. \A g \in Handles : Waiting(g) => g = h
  BY <1>2, WaitingLives DEF Alone
<1>6. \A g \in Handles : Waiting(g)' => g = h
  BY <1>2, <1>3, <1>4 DEF Waiting, Live
<1>7. CASE Locks(h)
  <2>1. \A g \in Handles : Waiting(g)' <=> Waiting(g)
    BY <1>1, <1>7 DEF Locks, Kept, Waiting
  <2> QED BY <1>1, <1>4, <1>7, <2>1 DEF Alone, Locks, Kept, Scheduled, Empty
<1>8. CASE Pends(h)
  <2>1. \A g \in Handles : Waiting(g)' <=> Waiting(g)
    BY <1>1, <1>8 DEF Pends, Kept, Waiting
  <2>2. \A g \in Handles : Waiting(g)' => (netWaker = TaskOf[g] /\ Empty /\ peer)'
    BY <1>1, <1>2, <1>6, <1>8 DEF Pends, Kept, Empty
  <2>3. \A n \in read' + 1 .. Len(sent') : \E g \in Handles : Waiting(g)' /\ cid'[g] = sent'[n].id
    BY <1>1, <1>8, <2>1 DEF Alone, Pends, Kept
  <2> QED BY <1>4, <2>2, <2>3 DEF Alone
<1>9. CASE Ends(h)
  <2>1. ended'[h]
    BY <1>9 DEF Ends, TypeOK
  <2>2. \A g \in Handles : ~Waiting(g)'
    BY <1>6, <2>1 DEF Waiting
  <2>3. read' + 1 .. Len(sent') = {}
    BY <1>1, <1>9 DEF Ends, Empty, Kept, TypeOK
  <2> QED BY <1>4, <2>2, <2>3 DEF Alone
<1>10. CASE Obtains(h)
  <2>1. got'[h] # << >>
    <3>1. got \in [Handles -> Seq(Nat)] /\ got' = [got EXCEPT ![h] = Append(got[h], read + 1)]
      BY <1>10 DEF Obtains, TypeOK
    <3>2. got[h] \in Seq(Nat) /\ got'[h] = Append(got[h], read + 1)
      BY <3>1
    <3> QED BY <3>2
  <2>2. \A g \in Handles : ~Waiting(g)'
    BY <1>6, <2>1 DEF Waiting
  <2>3. ASSUME NEW n \in read' + 1 .. Len(sent') PROVE FALSE
    <3>1. /\ n \in read + 1 .. Len(sent) /\ n \in 1 .. Len(sent)
          /\ read + 1 \in 1 .. Len(sent) /\ n # read + 1
      BY <1>1, <1>10 DEF Obtains, Empty, Kept, TypeOK
    <3>2. sent[n].id = cid[h]
      BY <1>5, <3>1 DEF Alone
    <3> QED BY <1>10, <3>1, <3>2 DEF Alone, Obtains
  <2> QED BY <1>4, <2>2, <2>3 DEF Alone
<1> QED BY <1>1, <1>7, <1>8, <1>9, <1>10

LEMMA AloneScheduled ==
    ASSUME Bookkeeping, Alone, Yield \/ \E t \in Tasks : Run(t)
    PROVE  Alone'
<1>1. UNCHANGED vars
  BY DEF Yield, Run
<1>2. Live' = Live /\ \A h \in Handles : Waiting(h)' <=> Waiting(h)
  BY <1>1 DEF vars, Waiting, Live
<1>3. \A h \in Handles : Waiting(h)' => Scheduled(h)' \/ (netWaker = TaskOf[h] /\ Empty /\ peer)'
  <2>1. CASE Yield
    BY <1>1, <1>2, <2>1 DEF Yield, Alone, Scheduled, Empty, vars
  <2>2. ASSUME NEW t \in Tasks, Run(t), NEW h \in Handles, Waiting(h)
        PROVE  Scheduled(h)' \/ (netWaker = TaskOf[h] /\ Empty /\ peer)'
    <3>1. h \notin todo
      BY <2>2, TaskAssumption DEF Run, Bookkeeping, ExecTypeOK
    <3> QED BY <1>1, <2>2, <3>1 DEF Run, Alone, Scheduled, Empty, vars
  <2> QED BY <1>2, <2>1, <2>2
<1> QED BY <1>1, <1>2, <1>3 DEF Alone, vars, Subscribed, IsData

LEMMA AlonePeer ==
    ASSUME TypeOK, Bookkeeping, Alone, OneAtATime, ExecPeerSend \/ ExecPeerLeave
    PROVE  Alone'
<1>1. UNCHANGED <<read, entry, status, cid, used, queue, got, ended, late, running, todo>>
  BY DEF ExecPeerSend, ExecPeerLeave, PeerSend, PeerLeave, WakeNet, chans
<1>2. woken \cup {netWaker} \subseteq woken' \cup {NoTask}
  <2>1. {netWaker} \ {NoTask} \in SUBSET Tasks
    BY DEF Bookkeeping, ExecTypeOK
  <2> QED BY <2>1, WakeGrows DEF Bookkeeping, ExecPeerSend, ExecPeerLeave, WakeNet
<1>3. Live' = Live /\ \A h \in Handles : Waiting(h)' <=> Waiting(h)
  BY <1>1 DEF Waiting, Live
<1>4. \A h \in Handles : Waiting(h)' => Scheduled(h)'
  BY <1>1, <1>2, <1>3, TaskAssumption DEF Alone, Scheduled
<1>5. /\ \A n \in 1 .. Len(sent') : IsData(n)'
      /\ \A n, m \in 1 .. Len(sent') : sent'[n].id = sent'[m].id => n = m
      /\ \A n \in read + 1 .. Len(sent') : \E h \in Handles : Waiting(h) /\ cid[h] = sent'[n].id
  <2>1. CASE sent' = sent
    BY <2>1 DEF Alone, IsData
  <2>2. CASE ExecPeerSend
    <3>1. PICK f \in Frame : sent' = Append(sent, f)
      BY <2>2 DEF ExecPeerSend, PeerSend
    <3>2. /\ Len(sent') = Len(sent) + 1 /\ sent'[Len(sent')] = f
          /\ \A n \in 1 .. Len(sent) : sent'[n] = sent[n]
      BY <3>1 DEF TypeOK
    <3>3. Answers(f)
      BY <2>2, <3>2 DEF ExecPeerSend, OneAtATime
    <3>4. \A n \in 1 .. Len(sent') : n \in 1 .. Len(sent) \/ n = Len(sent')
      BY <3>2 DEF TypeOK
    <3>5. \A n \in 1 .. Len(sent') : IsData(n)'
      BY <3>2, <3>3, <3>4 DEF Answers, Alone, IsData
    <3>6. \A n, m \in 1 .. Len(sent') : sent'[n].id = sent'[m].id => n = m
      BY <3>2, <3>3, <3>4 DEF Answers, Alone
    <3>7. \A n \in read + 1 .. Len(sent') : \E h \in Handles : Waiting(h) /\ cid[h] = sent'[n].id
      <4> TAKE n \in read + 1 .. Len(sent')
      <4>1. CASE n = Len(sent')
        BY <3>2, <3>3, <4>1 DEF Answers
      <4>2. CASE n # Len(sent')
        <5>1. read \in Nat /\ Len(sent) \in Nat
          BY DEF TypeOK
        <5>2. n \in read + 1 .. Len(sent) /\ n \in 1 .. Len(sent)
          BY <3>2, <4>2, <5>1
        <5> QED BY <3>2, <5>2 DEF Alone
      <4> QED BY <4>1, <4>2
    <3> QED BY <3>5, <3>6, <3>7
  <2>3. CASE ExecPeerLeave
    BY <2>1, <2>3 DEF ExecPeerLeave, PeerLeave
  <2> QED BY <2>2, <2>3
<1> QED BY <1>1, <1>3, <1>4, <1>5 DEF Alone, Subscribed

LEMMA AloneRequest ==
    ASSUME TypeOK, Registry, Bookkeeping, Alone, OneAtATime, NEW h \in Handles, Request(h)
    PROVE  Alone'
<1>1. PICK i \in Ids :
         /\ status[h] = "free" /\ entry' = [entry EXCEPT ![i] = h]
         /\ status' = [status EXCEPT ![h] = "sending"] /\ cid' = [cid EXCEPT ![h] = i]
         /\ asking[Root] = NoHandle /\ running = NoTask
         /\ \A g \in Handles : ~Waiting(g)
         /\ UNCHANGED <<sent, read, used, queue, late, got, ended, todo, woken, netWaker>>
  BY DEF Request, BeginRequest, Subscribe, Callable, execVars, wire, OneAtATime
<1>2. Live = {}
  <2> SUFFICES ASSUME NEW g \in Live PROVE FALSE
    OBVIOUS
  <2>1. g \in Handles \ {Root} /\ status[g] # "sending" /\ ~Waiting(g)
    BY <1>1, HandleAssumption DEF Live, Bookkeeping
  <2>2. status[g] = "open"
    BY <2>1 DEF Live
  <2>3. Resolved(g)
    BY <2>1, <2>2 DEF Resolved
  <2> QED BY <1>1, <2>1, <2>3, TaskAssumption DEF Bookkeeping
<1>3. Live' \subseteq {h} /\ cid'[h] = i /\ entry'[i] = h
  BY <1>1, <1>2 DEF Live, TypeOK, Keys
<1>4. \A g \in Handles : ~Waiting(g)'
  BY <1>1 DEF Waiting, TypeOK
<1>5. read + 1 .. Len(sent) = {}
  BY <1>1 DEF Alone
<1> QED BY <1>1, <1>3, <1>4, <1>5 DEF Alone, Subscribed, IsData

LEMMA AloneSpawn ==
    ASSUME TypeOK, Bookkeeping, Alone, Spawn
    PROVE  Alone'
<1>1. PICK h \in Handles :
         /\ h = asking[Root] /\ status' = [status EXCEPT ![h] = "open"]
         /\ late' = [late EXCEPT ![Root] = FALSE] /\ TaskOf[h] \in woken'
         /\ UNCHANGED <<sent, read, entry, cid, used, queue, got, ended, todo, netWaker>>
  BY BookSpawn, HandleAssumption DEF Spawn, FinishRequest, wire
<1>2. status[h] = "sending" /\ h # Root
  BY <1>1 DEF Bookkeeping
<1>3. Live' = Live /\ h \in Live
  BY <1>1, <1>2 DEF Live, TypeOK
<1>4. \A g \in Handles : ~Waiting(g)
  BY <1>2, <1>3, WaitingLives DEF Alone, Waiting
<1>5. \A g \in Handles : Waiting(g)' => g = h
  BY <1>1, <1>4 DEF Waiting, TypeOK
<1>6. read + 1 .. Len(sent) = {}
  BY <1>4 DEF Alone
<1>7. \A g \in Handles : Waiting(g)' => Scheduled(g)'
  BY <1>1, <1>5 DEF Scheduled
<1>8. /\ \A g \in Live' : Subscribed(g)'
      /\ \A g \in Handles : ~used'[g] /\ ~late'[g]
  BY <1>1, <1>3, HandleAssumption DEF Alone, Subscribed, TypeOK
<1> QED BY <1>1, <1>3, <1>6, <1>7, <1>8 DEF Alone, IsData

LEMMA AloneFinish ==
    ASSUME TypeOK, Registry, Bookkeeping, Alone, NEW h \in Handles, Finish(h)
    PROVE  Alone'
<1>1. /\ Resolved(h) /\ status' = [status EXCEPT ![h] = "dropped"]
      /\ queue' = [queue EXCEPT ![h] = << >>]
      /\ UNCHANGED <<sent, read, used, cid, got, ended, late>>
  BY DEF Finish, DropChannel, Release, wire
<1>2. h \in Live /\ ~Waiting(h)
  BY <1>1 DEF Resolved, Live
<1>3. Live' = {}
  BY <1>1, <1>2 DEF Live, TypeOK, Alone
<1>4. \A g \in Handles : ~Waiting(g)
  BY <1>2, WaitingLives DEF Alone
<1>5. \A g \in Handles : ~Waiting(g)'
  BY <1>3, HandleAssumption DEF Waiting, Live
<1>6. read + 1 .. Len(sent) = {}
  BY <1>4 DEF Alone
<1> QED BY <1>1, <1>3, <1>5, <1>6 DEF Alone, IsData, TypeOK

LEMMA AloneNext ==
    ASSUME MaxFlying >= 3, TypeOK, Registry, Bookkeeping, OneAtATime => Alone, [ExecNext]_allVars
    PROVE  (OneAtATime => Alone)'
<1>1. mode' = mode
  BY DEF ExecNext, Work, ExecPeerSend, ExecPeerLeave, WakeNet, Wake, Spawn, Yield, Run, Request,
     ExecExpire, ExecPollQueue, ExecPollFrame, Finish, execVars, allVars
<1> SUFFICES ASSUME OneAtATime, Alone PROVE Alone'
  BY <1>1 DEF OneAtATime
<1>2. ASSUME NEW h \in Handles, ExecExpire(h) PROVE Alone'
  BY <1>2 DEF ExecExpire, OneAtATime
<1>3. CASE UNCHANGED allVars
  BY <1>3 DEF allVars, vars, execVars, Alone, Live, Waiting, Subscribed, IsData, Scheduled, Empty
<1> QED
  BY <1>2, <1>3, AloneScheduled, AlonePeer, AloneRequest, AloneSpawn, AloneFinish, AlonePollNext
     DEF ExecNext, Work

\* When requests are made one at a time a Channel that waits is always about to
\* be polled or woken by what the transport receives next, provided that the multiplexer has room for more
\* than the default Channel and one other (poll_frame, max_flying).
THEOREM AlwaysReachable ==
    ASSUME MaxFlying >= 3
    PROVE  ExecSpec => []Reachable
<1>1. ExecInit => (OneAtATime => Alone)
  BY AloneInit
<1>2. TypeOK /\ Registry /\ Bookkeeping /\ (OneAtATime => Alone) /\ [ExecNext]_allVars
         => (OneAtATime => Alone)'
  BY AloneNext
<1>3. (OneAtATime => Alone) => Reachable
  BY DEF Alone, Reachable
<1>4. ExecSpec => []Bookkeeping
  BY BookInit, BookNext, Underneath, PTL DEF ExecSpec
<1> QED BY <1>1, <1>2, <1>3, <1>4, Underneath, PTL DEF ExecSpec

-----------------------------------------------------------------------------
(***************************************************************************)
(* What a poll may leave behind                                            *)
(***************************************************************************)
\* A Channel leaves the run of its task only by its own poll.
LEMMA LeavesPolled ==
    ASSUME Bookkeeping, [ExecNext]_allVars, NEW h \in todo, h \notin todo'
    PROVE  h \in Handles /\ (ExecPollQueue(h) \/ ExecPollFrame(h))
<1>1. h \in Handles /\ TaskOf[h] = running /\ TaskOf[h] # NoTask /\ Waiting(h)
  BY TaskAssumption DEF Bookkeeping, ExecTypeOK
<1>2. ~ UNCHANGED todo
  OBVIOUS
<1>3. ~ (UNCHANGED allVars \/ ExecPeerSend \/ ExecPeerLeave \/ Spawn \/ Yield)
  BY <1>2 DEF allVars, execVars, ExecPeerSend, ExecPeerLeave, WakeNet, Spawn, Yield
<1>4. \A g \in Handles : ~ (Request(g) \/ ExecExpire(g))
  BY <1>2 DEF Request, ExecExpire, execVars
<1>5. \A t \in Tasks : ~ Run(t)
  BY <1>1 DEF Run
<1>6. PICK g \in Handles : ExecPollQueue(g) \/ ExecPollFrame(g) \/ Finish(g)
  BY <1>3, <1>4, <1>5 DEF ExecNext, Work
<1>7. todo' \in {todo, todo \ {g}}
  BY <1>6 DEF ExecPollQueue, ExecPollFrame, Finish
<1>8. g = h
  BY <1>7
<1>9. ~ Finish(h)
  BY <1>1 DEF Finish, Resolved
<1> QED BY <1>1, <1>6, <1>8, <1>9

\* A poll that ends when the expiration time is over never leaves its Channel
\* waiting, whichever way it went through the queue, the transport and the frame
\* read, that of another Channel included; nor does, on one thread, the poll of a
\* Channel with a frame in its queue (poll_next, is_timed_out).
THEOREM PollResolves ==
    ExecSpec => [][\A h \in todo \ todo' :
                      late[h] \/ (~Parallel /\ queue[h] # << >>) => ~Waiting(h)']_allVars
<1>1. ASSUME IInv, Bookkeeping, [ExecNext]_allVars,
             NEW h \in todo \ todo', late[h] \/ (~Parallel /\ queue[h] # << >>)
      PROVE  ~Waiting(h)'
  <2>1. TypeOK /\ (~Parallel => OneLock)
    BY <1>1 DEF IInv
  <2>2. h \in Handles /\ (ExecPollQueue(h) \/ ExecPollFrame(h))
    BY <1>1, LeavesPolled
  <2>3. got[h] \in Seq(Nat) /\ got \in [Handles -> Seq(Nat)] /\ ended \in [Handles -> BOOLEAN]
    BY <2>1, <2>2 DEF TypeOK
  <2>4. \/ \E n \in Nat : got' = [got EXCEPT ![h] = Append(got[h], n)]
        \/ ended' = [ended EXCEPT ![h] = TRUE]
    <3>1. CASE ExecPollQueue(h)
      <4>1. ~ UNCHANGED todo
        BY <1>1
      <4>2. PollQueueItem(h) => Head(queue[h]) \in Nat
        <5>1. queue[h] \in Seq(Nat)
          BY <2>1, <2>2 DEF TypeOK
        <5> QED BY <5>1 DEF PollQueueItem
      <4> QED BY <3>1, <4>1, <4>2 DEF ExecPollQueue, PollQueueItem, PollQueueEnd
    <3>2. CASE ExecPollFrame(h)
      <4>1. pc[h] = "lock"
        BY <3>2 DEF ExecPollFrame, PollEmpty, PollSaturated, PollTransportEnd,
           HandleClose, HandleOwn, HandleOther, HandleDefault, Take, Locked
      <4>2. late[h] = TRUE
        BY <1>1, <2>1, <2>2, <4>1 DEF OneLock, TypeOK
      <4>3. NotReady(h) => ended' = [ended EXCEPT ![h] = TRUE]
        BY <4>2 DEF NotReady
      <4>4. Return(h) => \E n \in Nat : got' = [got EXCEPT ![h] = Append(got[h], n)]
        <5>1. sent \in Seq(Frame) /\ read \in 0 .. Len(sent)
          BY <2>1 DEF TypeOK
        <5>2. read + 1 \in Nat
          BY <5>1
        <5> QED BY <5>2 DEF Return
      <4> QED BY <3>2, <4>3, <4>4 DEF ExecPollFrame, PollEmpty, PollSaturated, PollTransportEnd,
            HandleClose, HandleOwn, HandleOther, HandleDefault
    <3> QED BY <2>2, <3>1, <3>2
  <2>5. CASE ended' = [ended EXCEPT ![h] = TRUE]
    BY <2>2, <2>3, <2>5 DEF Waiting
  <2>6. ASSUME NEW n \in Nat, got' = [got EXCEPT ![h] = Append(got[h], n)] PROVE ~Waiting(h)'
    <3>1. got'[h] = Append(got[h], n)
      BY <2>2, <2>3, <2>6
    <3>2. Append(got[h], n) # << >>
      BY <2>3, AppendProperties
    <3> QED BY <3>1, <3>2 DEF Waiting
  <2> QED BY <2>4, <2>5, <2>6
<1>2. IInv /\ Bookkeeping /\ [ExecNext]_allVars
         => [\A h \in todo \ todo' :
                late[h] \/ (~Parallel /\ queue[h] # << >>) => ~Waiting(h)']_allVars
  BY <1>1
<1>3. ExecSpec => []Bookkeeping
  BY BookInit, BookNext, Underneath, PTL DEF ExecSpec
<1> QED BY <1>2, <1>3, Implements, Invariance, PTL DEF ExecSpec

\* When requests are made one at a time, a poll leaves its Channel waiting only
\* if it found the transport empty and the peer there: it never passes over the
\* response, nor over the end of the transport (poll_frame, handle_frame).
THEOREM AnswerTaken ==
    ASSUME MaxFlying >= 3
    PROVE  ExecSpec =>
              [][OneAtATime => \A h \in todo \ todo' : Waiting(h)' => Empty /\ peer]_allVars
<1>1. ASSUME TypeOK, Registry, Bookkeeping, OneAtATime => Alone, [ExecNext]_allVars,
             OneAtATime, NEW h \in todo \ todo', Waiting(h)'
      PROVE  Empty /\ peer
  <2>1. h \in Handles /\ (ExecPollQueue(h) \/ ExecPollFrame(h))
    BY <1>1, LeavesPolled
  <2>2. Locks(h) \/ Pends(h) \/ Ends(h) \/ Obtains(h)
    BY <1>1, <2>1, AlonePoll
  <2>3. ~ Locks(h)
    BY <1>1 DEF Locks
  <2>4. ~ Ends(h)
    BY <1>1, <2>1 DEF Ends, Waiting, TypeOK
  <2>5. ~ Obtains(h)
    <3>1. got[h] \in Seq(Nat) /\ got \in [Handles -> Seq(Nat)]
      BY <1>1, <2>1 DEF TypeOK
    <3>2. Append(got[h], read + 1) # << >>
      BY <3>1
    <3> QED BY <1>1, <2>1, <3>1, <3>2 DEF Obtains, Waiting
  <2> QED BY <2>2, <2>3, <2>4, <2>5 DEF Pends
<1>2. TypeOK /\ Registry /\ Bookkeeping /\ (OneAtATime => Alone) /\ [ExecNext]_allVars
         => [OneAtATime => \A h \in todo \ todo' : Waiting(h)' => Empty /\ peer]_allVars
  BY <1>1
<1>3. ExecInit => (OneAtATime => Alone)
  BY AloneInit
<1>4. TypeOK /\ Registry /\ Bookkeeping /\ (OneAtATime => Alone) /\ [ExecNext]_allVars
         => (OneAtATime => Alone)'
  BY AloneNext
<1>5. ExecSpec => []Bookkeeping
  BY BookInit, BookNext, Underneath, PTL DEF ExecSpec
<1> QED BY <1>2, <1>3, <1>4, <1>5, Underneath, PTL DEF ExecSpec

-----------------------------------------------------------------------------
(***************************************************************************)
(* Queues, however many requests are pending                               *)
(***************************************************************************)
\* The receiver of the queue will wake the owner for whatever happens to it.
Registered(h) == h \in queueWaker /\ queue[h] = << >> /\ SenderAlive(h)

\* A Channel registers with its queue before it goes on to the multiplexer, and
\* leaves the run it is polled in only after that.
Watch ==
    /\ \A h \in Handles : pc[h] = "lock" => h \in todo
    /\ \A h \in Handles :
          Waiting(h) => \/ Registered(h)
                        \/ TaskOf[h] \in woken
                        \/ h \in todo /\ pc[h] # "lock"

LEMMA WatchInit == ExecInit => Watch
BY DEF ExecInit, Init, Watch, Waiting

\* Whoever puts a frame into the queue, or drops its sender, wakes the owner.
LEMMA StaysRegistered ==
    ASSUME TypeOK, TypeOK', NEW h \in Handles, Registered(h) \/ TaskOf[h] \in woken,
           NEW registering, NEW others, Wake(registering, others)
    PROVE  Registered(h)' \/ TaskOf[h] \in woken'
<1>1. CASE TaskOf[h] \in woken
  BY <1>1 DEF Wake
<1>2. CASE Registered(h) /\ h \in Notified
  BY <1>2 DEF Wake
<1>3. CASE Registered(h) /\ h \notin Notified
  <2>1. h \in queueWaker' /\ SenderAlive(h)' /\ ~(Len(queue'[h]) > Len(queue[h]))
    BY <1>3 DEF Wake, Notified, Registered
  <2>2. queue[h] = << >> /\ queue'[h] \in Seq(Nat)
    BY <1>3 DEF Registered, TypeOK
  <2>3. queue'[h] = << >>
    BY <2>1, <2>2
  <2> QED BY <2>1, <2>3 DEF Registered
<1> QED BY <1>1, <1>2, <1>3

\* What is left of the invariant to prove when the step wakes as it must.
LEMMA WatchStep ==
    ASSUME TypeOK, TypeOK', Watch, NEW registering, NEW others, Wake(registering, others),
           \A h \in Handles : pc'[h] = "lock" => h \in todo',
           \A h \in Handles : Waiting(h)' =>
              \/ Registered(h)' \/ TaskOf[h] \in woken' \/ Registered(h) \/ TaskOf[h] \in woken
              \/ h \in todo' /\ pc'[h] # "lock"
    PROVE  Watch'
<1>1. ASSUME NEW h \in Handles, Waiting(h)'
      PROVE  Registered(h)' \/ TaskOf[h] \in woken' \/ (h \in todo' /\ pc'[h] # "lock")
  <2>1. CASE Registered(h) \/ TaskOf[h] \in woken
    BY <2>1, StaysRegistered
  <2> QED BY <1>1, <2>1
<1> QED BY <1>1 DEF Watch

LEMMA WatchScheduled ==
    ASSUME Bookkeeping, Watch, Yield \/ \E t \in Tasks : Run(t)
    PROVE  Watch'
<1>1. UNCHANGED <<vars, queueWaker>>
  BY DEF Yield, Run
<1>2. \A h \in Handles : (Waiting(h)' <=> Waiting(h)) /\ (Registered(h)' <=> Registered(h))
  BY <1>1 DEF vars, Waiting, Registered, SenderAlive, Subscribed, IsClosed
<1>3. CASE Yield
  BY <1>1, <1>2, <1>3 DEF Yield, Watch, vars
<1>4. ASSUME NEW t \in Tasks, Run(t) PROVE Watch'
  <2>1. \A h \in Handles : h \notin todo
    BY <1>4, TaskAssumption DEF Run, Bookkeeping, ExecTypeOK
  <2>2. \A h \in Handles : pc'[h] # "lock"
    BY <1>1, <2>1 DEF Watch, vars
  <2> QED BY <1>2, <1>4, <2>1, <2>2 DEF Run, Watch
<1> QED BY <1>3, <1>4

LEMMA WatchPeer ==
    ASSUME TypeOK, TypeOK', Watch, ExecPeerSend \/ ExecPeerLeave
    PROVE  Watch'
<1>1. UNCHANGED <<status, got, ended, pc, todo>> /\ Wake({}, {netWaker} \ {NoTask})
  BY DEF ExecPeerSend, ExecPeerLeave, PeerSend, PeerLeave, WakeNet, chans
<1> QED BY <1>1, WatchStep DEF Watch, Waiting

LEMMA WatchRequest ==
    ASSUME TypeOK, Watch, Bookkeeping, NEW h \in Handles, Request(h)
    PROVE  Watch'
<1>1. PICK i \in Ids : /\ status[h] = "free" /\ entry' = [entry EXCEPT ![i] = h]
                       /\ status' = [status EXCEPT ![h] = "sending"]
                       /\ cid' = [cid EXCEPT ![h] = i] /\ MaySubscribe(i)
                       /\ UNCHANGED <<used, queue, pc, got, ended, execVars>>
  BY DEF Request, BeginRequest, Subscribe, Callable
<1>2. \A g \in Handles : Waiting(g)' => Waiting(g) /\ g # h
  BY <1>1 DEF Waiting, TypeOK
<1>3. ASSUME NEW g \in Handles, g # h, Registered(g) PROVE Registered(g)'
  <2>1. cid'[g] = cid[g] /\ entry[cid[g]] = g /\ ~used[g] /\ cid[g] \in Keys
    BY <1>1, <1>3 DEF Registered, SenderAlive, Subscribed, IsClosed, TypeOK
  <2>2. cid[g] # i
    BY <1>3, <2>1, HandleAssumption, <1>1 DEF MaySubscribe, IsClosed
  <2>3. entry'[cid[g]] = g
    BY <1>1, <2>1, <2>2 DEF TypeOK
  <2> QED BY <1>1, <1>3, <2>1, <2>3 DEF Registered, SenderAlive, Subscribed, IsClosed, execVars
<1> QED BY <1>1, <1>2, <1>3 DEF Watch, execVars

LEMMA WatchSpawn ==
    ASSUME TypeOK, TypeOK', Watch, Bookkeeping, Spawn
    PROVE  Watch'
<1> DEFINE s == asking[Root]
<1>1. /\ status' = [status EXCEPT ![s] = "open"]
      /\ UNCHANGED <<got, ended, pc, todo>> /\ Wake({}, {TaskOf[s]})
  BY DEF Spawn, FinishRequest
<1>2. TaskOf[s] \in woken'
  BY BookSpawn
<1> HIDE DEF s
<1>3. \A h \in Handles : Waiting(h)' => Waiting(h) \/ h = s
  BY <1>1 DEF Waiting, TypeOK
<1> QED BY <1>1, <1>2, <1>3, WatchStep DEF Watch

LEMMA WatchExpire == ASSUME Watch, NEW h \in Handles, ExecExpire(h) PROVE Watch'
<1>1. UNCHANGED <<entry, status, cid, used, queue, got, ended, pc, execVars>>
  BY DEF ExecExpire, Expire, chans
<1> QED BY <1>1 DEF Watch, Waiting, Registered, SenderAlive, Subscribed, IsClosed, execVars

LEMMA WatchQueue ==
    ASSUME TypeOK, TypeOK', Watch, Bookkeeping, NEW h \in Handles, ExecPollQueue(h)
    PROVE  Watch'
<1>1. h \in todo /\ pc[h] = "idle" /\ UNCHANGED status
  BY DEF ExecPollQueue, Polls, PollQueueItem, PollQueueEnd, PollQueuePending, Callable, chans
<1>2. CASE (PollQueueItem(h) \/ PollQueueEnd(h)) /\ Wake({}, {}) /\ todo' = todo \ {h}
  <2>1. UNCHANGED pc /\ todo' = todo \ {h} /\ Wake({}, {})
    BY <1>2 DEF PollQueueItem, PollQueueEnd
  <2>2. /\ \A g \in Handles : g # h => got'[g] = got[g] /\ ended'[g] = ended[g]
        /\ got'[h] # << >> \/ ended'[h]
    <3>1. got \in [Handles -> Seq(Nat)] /\ ended \in [Handles -> BOOLEAN]
      BY DEF TypeOK
    <3>2. CASE PollQueueItem(h)
      <4>1. /\ got' = [got EXCEPT ![h] = Append(got[h], Head(queue[h]))]
            /\ ended' = [ended EXCEPT ![h] = FALSE]
        BY <3>2 DEF PollQueueItem
      <4>2. got[h] \in Seq(Nat) /\ got'[h] = Append(got[h], Head(queue[h]))
        BY <3>1, <4>1
      <4>3. got'[h] # << >>
        BY <4>2
      <4> QED BY <3>1, <4>1, <4>3
    <3>3. CASE PollQueueEnd(h)
      <4>1. got' = got /\ ended' = [ended EXCEPT ![h] = TRUE]
        BY <3>3 DEF PollQueueEnd
      <4> QED BY <3>1, <4>1
    <3> QED BY <1>2, <3>2, <3>3
  <2>3. \A g \in Handles : Waiting(g)' => Waiting(g) /\ g # h
    BY <1>1, <2>2 DEF Waiting
  <2>4. \A g \in Handles : pc'[g] = "lock" => g \in todo'
    BY <1>1, <2>1 DEF Watch
  <2> QED BY <2>1, <2>3, <2>4, WatchStep DEF Watch
<1>3. CASE PollQueuePending(h) /\ Wake({h}, {}) /\ UNCHANGED todo
  <2>1. /\ pc' = [pc EXCEPT ![h] = "lock"] /\ queue[h] = << >> /\ SenderAlive(h)
        /\ UNCHANGED <<entry, cid, used, queue, got, ended>>
    BY <1>3 DEF PollQueuePending, chans
  <2>2. Registered(h)'
    BY <1>3, <2>1 DEF Wake, Registered, SenderAlive, Subscribed, IsClosed
  <2>3. \A g \in Handles : Waiting(g)' => Waiting(g)
    BY <1>1, <2>1 DEF Waiting
  <2>4. \A g \in Handles : g # h => pc'[g] = pc[g]
    BY <2>1 DEF TypeOK
  <2>5. \A g \in Handles : pc'[g] = "lock" => g \in todo'
    BY <1>1, <1>3, <2>4 DEF Watch
  <2> QED BY <1>3, <2>2, <2>3, <2>4, <2>5, WatchStep DEF Watch
<1> QED BY <1>2, <1>3 DEF ExecPollQueue

LEMMA WatchFrame ==
    ASSUME TypeOK, TypeOK', Registry, Watch, Bookkeeping, NEW h \in Handles, ExecPollFrame(h)
    PROVE  Watch'
<1>1. PollOf(h) /\ h \in todo
  BY PollsAre
<1>2. Waiting(h) /\ UNCHANGED status
  BY <1>1 DEF Bookkeeping, PollOf
<1>3. pc[h] = "lock" /\ pc' = [pc EXCEPT ![h] = "idle"] /\ todo' = todo \ {h} /\ Wake({}, {})
  BY DEF ExecPollFrame, PollEmpty, PollSaturated, PollTransportEnd, HandleClose, HandleOwn,
     HandleOther, HandleDefault, Take, Locked
<1>4. \A g \in Handles : Waiting(g)' => Waiting(g)
  BY <1>1, <1>2 DEF PollOf, Waiting
<1>5. \A g \in Handles : g # h => pc'[g] = pc[g]
  BY <1>3 DEF TypeOK
<1>6. pc'[h] = "idle"
  BY <1>3 DEF TypeOK
<1>7. \A g \in Handles : pc'[g] = "lock" => g \in todo'
  BY <1>3, <1>5, <1>6 DEF Watch
<1>8. ASSUME NEW g \in Handles, Waiting(g)'
      PROVE  Registered(g) \/ TaskOf[g] \in woken \/ (g \in todo' /\ pc'[g] # "lock")
  <2>1. CASE g = h
    BY <1>2, <1>3, <2>1 DEF Watch
  <2>2. CASE g # h
    BY <1>3, <1>4, <1>5, <1>8, <2>2 DEF Watch
  <2> QED BY <2>1, <2>2
<1> QED BY <1>3, <1>7, <1>8, WatchStep

LEMMA WatchFinish ==
    ASSUME TypeOK, TypeOK', Watch, Bookkeeping, NEW h \in Handles, Finish(h)
    PROVE  Watch'
<1>1. /\ status' = [status EXCEPT ![h] = "dropped"] /\ pc[h] = "idle"
      /\ UNCHANGED <<got, ended, pc>> /\ todo' = todo \ {h} /\ Wake({}, {})
  BY DEF Finish, DropChannel, Release, Callable
<1>2. \A g \in Handles : Waiting(g)' => Waiting(g) /\ g # h
  BY <1>1 DEF Waiting, TypeOK
<1> QED BY <1>1, <1>2, WatchStep DEF Watch

LEMMA WatchNext ==
    TypeOK /\ TypeOK' /\ Registry /\ Bookkeeping /\ Watch /\ [ExecNext]_allVars => Watch'
<1> SUFFICES ASSUME TypeOK, TypeOK', Registry, Bookkeeping, Watch, [ExecNext]_allVars PROVE Watch'
  OBVIOUS
<1>1. CASE UNCHANGED allVars
  BY <1>1 DEF allVars, vars, execVars, Watch, Waiting, Registered, SenderAlive, Subscribed, IsClosed
<1> QED BY <1>1, WatchScheduled, WatchPeer, WatchRequest, WatchSpawn, WatchExpire, WatchQueue,
     WatchFrame, WatchFinish DEF ExecNext, Work

\* However many requests are pending and whoever reads the transport, no
\* Channel sleeps over a frame dispatched to its queue or over the loss of its
\* subscription (poll_next, handle_frame, Drop for Channel).
THEOREM NeverAsleep == ExecSpec => []QueueWatched
<1>1. Watch => QueueWatched
  BY DEF Watch, QueueWatched, Registered, Scheduled
<1>2. ExecSpec => []Bookkeeping
  BY BookInit, BookNext, Underneath, PTL DEF ExecSpec
<1>3. ExecSpec => []Watch
  BY <1>2, WatchInit, WatchNext, Underneath, PTL DEF ExecSpec
<1> QED BY <1>1, <1>3, PTL

\* The abstract demultiplexer describes the multiplexer under its executor too.
THEOREM ExecDemultiplexes == ExecSpec => Demultiplexes
BY Implements, Refinement, PTL
=============================================================================
