------------------------------ MODULE MCSpeFds ------------------------------
(***************************************************************************)
(* Constants and symmetry for the TLC runs of SpeFds.                      *)
(***************************************************************************)
EXTENDS SpeFds, TLC

CONSTANTS t1, t2, t3

\* What an uninitialised int may hold: it matters whether it is negative,
\* zero or positive.
Garbage == {-1, 0, 1}
Zeroed == {0}

Symmetric == Permutations(Threads)
=============================================================================
