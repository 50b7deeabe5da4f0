---------------------------- MODULE MCSpeThread ----------------------------
(***************************************************************************)
(* Constants and symmetry for the TLC runs of SpeThread.                   *)
(***************************************************************************)
EXTENDS SpeThread, TLC

CONSTANTS c1, c2

Symmetric == Permutations(Senders)
=============================================================================
