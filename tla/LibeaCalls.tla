----------------------------- MODULE LibeaCalls -----------------------------
(***************************************************************************)
(* The calls of SPE programs on the heap of the process                    *)
(* (src/spebase/default_libea_handler.c).  Sizes are of two words, also    *)
(* where a size_t has only one: a handler refuses what does not fit, and   *)
(* gives the C library the low word of the rest.                           *)
(***************************************************************************)
EXTENDS LsCall

-----------------------------------------------------------------------------
(* The C library *)

\* Its allocators find room for the size they are given, or fail.
Allocations(size) ==
  {Failed("ENOMEM")} \cup (IF size < Width /\ MoreRoom THEN {Done(a) : a \in Room} ELSE {})

Allocated(outcome, size, asked) ==
  IF outcome.ok THEN {Block(outcome.value, "block", size, asked)} ELSE {}

PointerWords(outcome) == IF outcome.ok THEN ToWords(outcome.value) ELSE NullWords

Given(words) == IF words = NullWords THEN {} ELSE {Held(words, "block")}

\* The size_t of a size, and whether it fits.
arg64_to_size_t(size) == FromWords(ToWords(size))
Fits(size) == abi = 64 \/ ToWords(size)[1] = 0

Refused == Failed("ENOMEM")

-----------------------------------------------------------------------------
(* The calls *)

Malloc(size) ==
  \E outcome \in IF Fits(size) THEN Allocations(arg64_to_size_t(size)) ELSE {Refused} :
    /\ Sets(outcome)
    /\ live' = live \cup Allocated(outcome, arg64_to_size_t(size), size)
    /\ pointers' = pointers \cup Given(PointerWords(outcome))
    /\ PUT_LS_RC("malloc", outcome, PointerWords(outcome))
    /\ UNCHANGED astray

\* Mutation: only the size of a member is checked.
CallocFits_Size(nmemb, size) == Fits(size)

CallocFits(nmemb, size) == Fits(nmemb) /\ Fits(size)

Calloc(nmemb, size) ==
  LET taken == arg64_to_size_t(nmemb) * arg64_to_size_t(size)
  IN \E outcome \in IF CallocFits(nmemb, size) THEN Allocations(taken) ELSE {Refused} :
       /\ Sets(outcome)
       /\ live' = live \cup Allocated(outcome, taken, nmemb * size)
       /\ pointers' = pointers \cup Given(PointerWords(outcome))
       /\ PUT_LS_RC("calloc", outcome, PointerWords(outcome))
       /\ UNCHANGED astray

\* free puts no result: the words are still those of its argument.
Free ==
  \E h \in pointers :
    /\ h.kind = "block"
    /\ live' = live \ At(FromWords(h.words), "block")
    /\ pointers' = pointers \ {h}
    /\ Returned("free", Done(0), h.words, "0", {}, {})
    /\ UNCHANGED <<errno, astray>>

\* The second word of its argument is stored over the first, the low word of
\* the pointer is whatever the stack held.
ReallocPointers(words) == {FromWords(<<words[2], garbage>>) : garbage \in 0 .. Base - 1}

\* The pointer the library got is the one that was passed: null, or a block.
ReallocRight(words, size) ==
  LET ea == FromWords(words)
      old == At(ea, "block")
      taken == arg64_to_size_t(size)
      stays == IF ea # 0 /\ taken < Width THEN {Done(ea)} ELSE {}
  IN /\ ea \in ReallocPointers(words)
     /\ Fits(size)
     /\ \E outcome \in stays \cup Allocations(taken) :
          /\ Sets(outcome)
          /\ live' = IF outcome.ok THEN (live \ old) \cup Allocated(outcome, taken, size) ELSE live
          /\ pointers' = IF outcome.ok THEN (pointers \ Given(words)) \cup Given(PointerWords(outcome)) ELSE pointers
          /\ PUT_LS_RC("realloc", outcome, PointerWords(outcome))
          /\ UNCHANGED astray

\* It is another one: another block is resized, one more is made, or the heap
\* is handed an address it never gave.
ReallocAstray(words, size) ==
  /\ \E ea \in ReallocPointers(words) : ea # FromWords(words)
  /\ Fits(size)
  /\ astray' = TRUE
  /\ UNCHANGED <<errno, live, pointers, last>>

\* A size that does not fit is refused, and the address returned was never set.
ReallocRefused(words, size) ==
  /\ ~Fits(size)
  /\ \E ea \in 0 .. Width - 1 :
       /\ astray' = (ea # 0)
       /\ errno' = "ENOMEM"
       /\ PUT_LS_RC("realloc", Refused, ToWords(ea))
  /\ UNCHANGED <<live, pointers>>

Realloc(size) ==
  \E words \in {NullWords} \cup {h.words : h \in {k \in pointers : k.kind = "block"}} :
    ReallocRight(words, size) \/ ReallocAstray(words, size) \/ ReallocRefused(words, size)

\* The library stores the pointer to the local store itself, as long as a
\* pointer of the PPE is, and returns the code, not errno.  (Alignments are
\* abstracted.)
PosixMemalign(size) ==
  \E outcome \in IF Fits(size) THEN Allocations(arg64_to_size_t(size)) ELSE {Refused} :
    /\ live' = live \cup Allocated(outcome, arg64_to_size_t(size), size)
    /\ pointers' = pointers \cup Given(PointerWords(outcome))
    /\ Returned("posix_memalign", outcome, <<IF outcome.ok THEN 0 ELSE 1, 0>>, outcome.code, {},
                IF outcome.ok THEN {1} ELSE {})
    /\ UNCHANGED <<errno, astray>>

LibeaCall ==
  \/ \E size \in Sizes : Malloc(size) \/ Realloc(size) \/ PosixMemalign(size)
  \/ \E nmemb, size \in Sizes : Calloc(nmemb, size)
  \/ Free
=============================================================================
