---------------------------- MODULE MCTaskGraph ----------------------------
(***************************************************************************)
(* Small instances of TaskGraph for TLC: two children, which are           *)
(* interchangeable, and two replacements, which are too.                   *)
(***************************************************************************)
EXTENDS TaskGraph, TLC

CONSTANTS g0, g1, g2, g3, g4, r1, c1, c2

OneRoot == [t \in {g0, g1, g2, g3, g4} |-> g0]
GraphSymmetry ==
  Permutations({c1, c2}) \union Permutations({g1, g2}) \union Permutations({g3, g4})
=============================================================================
