------------------------------ MODULE MCSpeRun ------------------------------
(***************************************************************************)
(* Constants for the TLC runs of SpeRun.                                   *)
(***************************************************************************)
EXTENDS SpeRun, TLC

CONSTANTS t1, t2, isolated, emulated, user

Stop(bits, code, exception, num) ==
  [bits |-> bits, code |-> code, exception |-> exception, num |-> num]

\* Every branch of the loop, and some stops with several bits set.
AllStops ==
  {Stop({"STOPPED_BY_STOP"}, "LIBRARY_CALL", FALSE, n) : n \in CallNums}
    \cup {Stop({"STOPPED_BY_STOP"}, code, FALSE, 0) :
            code \in {"NORMAL_END", "ISO_LOAD_COMPLETE", "ISOLATED_STOP", "USER"}}
    \cup {Stop({bit}, "USER", FALSE, 0) : bit \in Bits}
    \cup {Stop({}, "USER", FALSE, 0),
          Stop({"STOPPED_BY_STOP"}, "LIBRARY_CALL", TRUE, 0),
          Stop({"STOPPED_BY_STOP", "INVALID_INSTR"}, "LIBRARY_CALL", FALSE, 0)}

Symmetric == Permutations(Threads)
=============================================================================
