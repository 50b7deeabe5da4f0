----------------------------- MODULE MCC99Files -----------------------------
(***************************************************************************)
(* Constants for the TLC runs of C99Files.                                 *)
(***************************************************************************)
EXTENDS C99Files, TLC

CONSTANTS c1, c2, f1, f2

Symmetric == Permutations(Contexts) \cup Permutations(Files)

\* Behaviours are followed up to the first race of tmpfile(), after which
\* nothing is claimed of the table.
NotRaced == ~raced
=============================================================================
