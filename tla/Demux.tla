------------------------------- MODULE Demux -------------------------------
(***************************************************************************)
(* What a multiplexed transport promises, without queues, registrations or *)
(* polling: the peer's frames form one log, a Channel is given an id once, *)
(* and every data frame of the log is delivered at most once, to a Channel *)
(* of its id or to the default Channel.  With InOrder each Channel also    *)
(* receives its frames in the order of the log.                            *)
(***************************************************************************)
EXTENDS Naturals, Sequences

CONSTANTS Ids, NoId, Handles, Root, InOrder

VARIABLES
    sent,  \* the log of the frames the peer sent
    addr,  \* the id of each Channel, NoId as long as it has none
    got    \* the positions each Channel received, in the order of receipt

vars == <<sent, addr, got>>

Init ==
    /\ sent = << >>
    /\ addr = [h \in Handles |-> NoId]
    /\ got = [h \in Handles |-> << >>]

Send ==
    /\ \E f \in [id : Ids, payload : {"Data", "Close"}] : sent' = Append(sent, f)
    /\ UNCHANGED <<addr, got>>

Open(h) ==
    /\ h # Root /\ addr[h] = NoId
    /\ \E i \in Ids : addr' = [addr EXCEPT ![h] = i]
    /\ UNCHANGED <<sent, got>>

Received(h) == {got[h][i] : i \in DOMAIN got[h]}

Deliver(h, n) ==
    /\ sent[n].payload = "Data"
    /\ h = Root \/ sent[n].id = addr[h]
    /\ \A g \in Handles : n \notin Received(g)
    /\ InOrder => \A m \in Received(h) : m < n
    /\ got' = [got EXCEPT ![h] = Append(@, n)]
    /\ UNCHANGED <<sent, addr>>

Next ==
    \/ Send
    \/ \E h \in Handles : Open(h)
    \/ \E h \in Handles, n \in DOMAIN sent : Deliver(h, n)

Spec == Init /\ [][Next]_vars
=============================================================================
