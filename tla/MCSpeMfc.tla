------------------------------ MODULE MCSpeMfc ------------------------------
(***************************************************************************)
(* Constants for the TLC runs of SpeMfc.                                   *)
(***************************************************************************)
EXTENDS SpeMfc, TLC

CONSTANTS t1, t2

\* A mask that no command has set.
Garbage == {{1}}
=============================================================================
