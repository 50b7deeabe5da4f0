----------------------------- MODULE MCSpeEvent -----------------------------
(***************************************************************************)
(* Constants and symmetry for the TLC runs of SpeEvent.                    *)
(***************************************************************************)
EXTENDS SpeEvent, TLC

CONSTANTS t1, t2, t3, h1, h2

StopOnly == {{STOPPED}}
StopWithMbox == {{"IN_MBOX", STOPPED}}

Symmetric == Permutations(Handlers) \cup Permutations(Runners)
=============================================================================
