---------------------------- MODULE MCMultiplex ----------------------------
(***************************************************************************)
(* Instances of Multiplex for TLC.                                         *)
(***************************************************************************)
EXTENDS Multiplex, TLC

CONSTANTS h1, h2, i1, i2

MCHandles == {Root, h1, h2}
TwoHandles == {Root, h1}
MCIds == {i1, i2}
OneId == {i1}

\* The handles but the default one, and the ids, are interchangeable.
IdSymmetry == Permutations({i1, i2})
MCSymmetry == Permutations({h1, h2}) \cup Permutations({i1, i2})
=============================================================================
