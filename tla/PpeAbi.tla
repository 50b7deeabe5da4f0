------------------------------- MODULE PpeAbi -------------------------------
(***************************************************************************)
(* The ABI the library was compiled for, with or without __powerpc64__:    *)
(* the width of a long and of an effective address (EA) on the PPE.  The   *)
(* handlers of library calls differ in it.                                 *)
(***************************************************************************)
CONSTANT Abis   \* 32 and 64

ASSUME AbiAssumption == Abis \subseteq {32, 64}

VARIABLE abi
=============================================================================
