---------------------------- MODULE MCSpeGroups ----------------------------
(***************************************************************************)
(* Constants and symmetry for the TLC runs of SpeGroups.                   *)
(***************************************************************************)
EXTENDS SpeGroups, TLC

CONSTANTS c1, c2, g1, g2, g3, t1, t2, t3

Symmetric == Permutations(Callers) \cup Permutations(SpeThreads) \cup Permutations(OwnGroups)
=============================================================================
