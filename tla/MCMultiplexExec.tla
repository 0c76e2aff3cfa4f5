-------------------------- MODULE MCMultiplexExec --------------------------
(***************************************************************************)
(* Instances of MultiplexExec for TLC.                                     *)
(***************************************************************************)
EXTENDS MultiplexExec

CONSTANTS h1, h2, i1, i2, t1, t2

MCHandles == {Root, h1, h2}
TwoHandles == {Root, h1}
MCIds == {i1, i2}
OneId == {i1}
MCTasks == {t1, t2}

\* One task joins every request, as in the unit test.
Joined == [h \in Handles |-> t1]

\* Every request is awaited by a task of its own.
Separate == [h \in Handles |-> IF h = h2 THEN t2 ELSE t1]

Single == [pipelined |-> FALSE, solicited |-> TRUE, timeouts |-> FALSE, frames |-> 2]
Free == [pipelined |-> TRUE, solicited |-> FALSE, timeouts |-> TRUE, frames |-> 1]
Answering == [pipelined |-> TRUE, solicited |-> TRUE, timeouts |-> FALSE, frames |-> 2]

MCModes == {Single, Free}
TestModes == {Answering}
=============================================================================
