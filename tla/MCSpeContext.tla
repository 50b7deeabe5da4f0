---------------------------- MODULE MCSpeContext ----------------------------
(***************************************************************************)
(* Constants for the TLC runs of SpeContext.                               *)
(***************************************************************************)
EXTENDS SpeContext, TLC

CONSTANTS c1, c2, p1, p2

Symmetric == Permutations(Contexts) \cup Permutations(Programs)

\* One set for each way through creation and load.
FewFlagSets ==
  {{"CFG_SIGNOTIFY1_OR"}, {"MAP_PS", "CFG_SIGNOTIFY2_OR"}, {"ISOLATE", "EVENTS_ENABLE"},
   {"ISOLATE_EMULATE"}}
=============================================================================
