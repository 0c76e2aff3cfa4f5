----------------------------- MODULE MCObjects -----------------------------
(***************************************************************************)
(* Instances of Objects for TLC.                                           *)
(***************************************************************************)
EXTENDS Objects

\* The members of MediaView: an amplitude that is assigned, a position with a
\* setter; each may be without attributes too.
MCMembers ==
    <<[type |-> "F32", setter |-> FALSE], [type |-> "Duration", setter |-> TRUE]>>
MCNumbers == {0, 1}
=============================================================================
