------------------------------- MODULE LsCall -------------------------------
(***************************************************************************)
(* What the handlers of library calls have in common                       *)
(* (src/spebase/handler_utils.h): the SPE program leaves its arguments in  *)
(* the local store, one in each 16-byte register image, the PPE makes the  *)
(* call and stores result and errno over the first argument.               *)
(*                                                                         *)
(* A word has Base values (2^32 in the program).  A pointer into the local *)
(* store is one word, a pointer of the PPE two, whatever its ABI.  Address *)
(* 0 of the local store exists: it is the text of the SPE program, so a    *)
(* null pointer must be tested for before it is converted.                 *)
(*                                                                         *)
(* One step is one call.  The program is a legal one: it frees, unmaps and *)
(* closes what it was given, once.                                         *)
(***************************************************************************)
EXTENDS Integers, FiniteSets, PpeAbi

CONSTANTS
  Base,        \* number of values of a word
  Addresses,   \* where the C library finds room, of either ABI
  Sizes,       \* sizes an SPE program asks for, of two words
  MaxBlocks    \* bound: blocks, mappings and directory streams at a time

ASSUME CallAssumption ==
  /\ Base \in Nat /\ Base >= 4 /\ Base % 2 = 0
  /\ Addresses \subseteq 1 .. Base * Base - 2
  /\ Sizes \subseteq 1 .. Base * Base - 1
  /\ MaxBlocks \in Nat

VARIABLES
  errno,    \* of the PPE thread
  live,     \* of the process: [ea, kind, size, asked], asked by the SPE program
  pointers, \* of the SPE program: [words, kind]
  astray,   \* history: a call went astray on the pointer it was given or gave
  last      \* the last call: what the library did, what the SPE program got

lsVars == <<errno, live, pointers, astray, last>>

-----------------------------------------------------------------------------
(* Words and pointers *)

\* The int in a word.
Signed(w) == IF w >= Base \div 2 THEN w - Base ELSE w
IntMax == Base \div 2 - 1

Width == IF abi = 64 THEN Base * Base ELSE Base

\* Mutation: the first word is taken for the low one.
FromWords_Swapped(w) == (w[2] * Base + w[1]) % Width

\* addr64 to a pointer or a size_t: (unsigned long) all64.
FromWords(w) == (w[1] * Base + w[2]) % Width
ToWords(ea) == <<ea \div Base, ea % Base>>

NullWords == <<0, 0>>
AllOnes == <<Base - 1, Base - 1>>

-----------------------------------------------------------------------------
(* The C library and the memory of the process *)

Done(value) == [ok |-> TRUE, value |-> value, code |-> "0"]
Failed(code) == [ok |-> FALSE, value |-> 0, code |-> code]

Codes == {"EINVAL", "ENOMEM"}

\* A call that fails sets errno, one that does not leaves it.
Sets(outcome) == errno' = IF outcome.ok THEN errno ELSE outcome.code

Room == {a \in Addresses : a < Width /\ \A b \in live : b.ea # a}
MoreRoom == Cardinality(live) < MaxBlocks

Block(ea, kind, size, asked) == [ea |-> ea, kind |-> kind, size |-> size, asked |-> asked]
At(ea, kind) == {b \in live : b.ea = ea /\ b.kind = kind}
Held(words, kind) == [words |-> words, kind |-> kind]

-----------------------------------------------------------------------------
(* The result *)

\* nulls, wrote: the arguments that were null pointers, and that were written
\* through; of a vector, the entries converted
Returned(name, outcome, words, err, nulls, wrote) ==
  last' = [call |-> name, outcome |-> outcome, words |-> words, err |-> err,
           nulls |-> nulls, wrote |-> wrote]

PUT_LS_RC(name, outcome, words) ==
  Returned(name, outcome, words, errno', {}, {})

\* An int of the library, -1 if it failed.
IntWord(outcome) == IF outcome.ok THEN outcome.value % Base ELSE Base - 1

MemoryKept == UNCHANGED <<live, pointers, astray>>

CallInit ==
  /\ abi \in Abis
  /\ errno = "0" /\ live = {} /\ pointers = {} /\ astray = FALSE
  /\ last = [call |-> "none", outcome |-> Done(0), words |-> NullWords, err |-> "0",
             nulls |-> {}, wrote |-> {}]
=============================================================================
