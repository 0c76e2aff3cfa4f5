------------------------------ MODULE MCGraph ------------------------------
(***************************************************************************)
(* Instances of Graph for TLC.                                             *)
(***************************************************************************)
EXTENDS Graph, TLC

CONSTANTS a, b, c, e1, e2, e3

\* Indices are interchangeable, and so are those of edges.
MCSymmetry == Permutations(Indices) \cup Permutations(EdgeIndices)
=============================================================================
