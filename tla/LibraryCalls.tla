---------------------------- MODULE LibraryCalls ----------------------------
(***************************************************************************)
(* The library calls of an SPE program: either one call of the printf or   *)
(* scanf family, whose handler is modelled step by step (C99Format), or    *)
(* POSIX.1 and LIBEA calls one after another, each a step.                 *)
(***************************************************************************)
EXTENDS C99Format, Posix1Calls, LibeaCalls

VARIABLE calling   \* what the SPE program is about: "c99" or "calls"

libVars == <<format_vars, lsVars, calling>>

NoFormat ==
  /\ op = "printf" /\ format = <<>> /\ phase = "done"
  /\ stored = 0 /\ pos = 0 /\ nr_vargs = 0 /\ allocated = 0
  /\ args = [next_arg |-> 0, vlist |-> <<>>, vtemps |-> <<>>]
  /\ object = [k \in 1 .. MaxArgs |-> "old"]

LibInit ==
  /\ CallInit
  /\ \/ calling = "c99" /\ FormatInit
     \/ calling = "calls" /\ NoFormat

\* What follows a call that went astray is not modelled.
LibNext ==
  \/ calling = "c99" /\ FormatNext /\ UNCHANGED <<lsVars, calling>>
  \/ calling = "calls" /\ ~astray /\ (Posix1Call \/ LibeaCall) /\ UNCHANGED <<format_vars, calling>>

LibSpec == LibInit /\ [][LibNext]_libVars

-----------------------------------------------------------------------------
(* Properties *)

Words == (0 .. Base - 1) \X (0 .. Base - 1)
Kinds == {"map", "dir", "block"}

\* Every variable has its type.
CallTypeOK ==
  /\ calling \in {"c99", "calls"}
  /\ errno \in Codes \cup {"0"} /\ astray \in BOOLEAN
  /\ live \subseteq [ea : Addresses, kind : Kinds, size : Nat, asked : Nat]
  /\ pointers \subseteq [words : Words, kind : Kinds]
  /\ last.words \in Words /\ last.err \in Codes \cup {"0", "ENOSYS"}

\* A result is not stored through a null pointer, which is converted to the
\* text of the SPE program, nor a vector past IOV_MAX.  The pointers of time,
\* wait, waitpid and getcwd are converted untested.
WritesInside ==
  CASE last.call \in {"readv", "writev"}                   -> last.wrote \subseteq 1 .. IovMax
    [] last.call \in {"time", "wait", "waitpid", "getcwd"} -> TRUE
    [] OTHER                                               -> last.wrote \cap last.nulls = {}

\* Whatever mix of calls it made, on either ABI, the SPE program holds exactly
\* the blocks, mappings and directory streams the process has for it: each
\* pointer went to it in two words and came back as the one it was.
PointersComeBack ==
  ~astray => pointers = {Held(ToWords(b.ea), b.kind) : b \in live}

PointerCalls == {"malloc", "calloc", "realloc", "posix_memalign",
                 "opendir", "mmap", "mremap", "getcwd", "readdir"}

\* How an SPE program sees from the words of the result that its call failed.
SeesFailure ==
  CASE last.call \in {"malloc", "calloc", "realloc", "opendir"} -> last.words = NullWords
    [] last.call \in {"mmap", "mremap"}                         -> last.words = AllOnes
    [] last.call \in {"getcwd", "readdir"}                      -> last.words[1] = 0
    [] last.call = "posix_memalign"                             -> last.words[1] # 0
    [] OTHER                                                    -> last.words[1] = Base - 1

\* An SPE program sees a call fail if and only if it failed, with the errno of
\* this failure and not of an earlier one, and reads the int that the C library
\* returned.  Excepted: results that are longer than an int, of lseek and time,
\* the end of a directory, and getcwd with a null buffer.
ResultsSeen ==
  \/ astray
  \/ last.call \in {"none", "free"}
  \/ last.call \in WideCalls /\ last.outcome.value > IntMax
  \/ last.call = "readdir" /\ last.outcome.ok /\ last.outcome.value = 0
  \/ last.call = "getcwd" /\ last.nulls # {}
  \/ /\ SeesFailure <=> ~last.outcome.ok
     /\ ~last.outcome.ok => last.err = last.outcome.code
     /\ last.outcome.ok /\ last.call \notin PointerCalls => Signed(last.words[1]) = last.outcome.value

\* A block is never shorter than the size the SPE program asked for: on the
\* 32-bit ABI a size of two words is refused rather than cut.
BlocksBigEnough == \A b \in live : b.size >= b.asked

\* "Do not support a NULL buf, since any allocations need to take place on the
\* SPU" (getcwd, default_posix1_handler.c:1597).
GetcwdRefusesNull == last.call = "getcwd" /\ last.nulls # {} => last.wrote = {}

\* "'ptr' and 'ret' (returned) are treated as 64b EA pointers" (realloc,
\* default_libea_handler.c:140).
ReallocFollows == [][(\E size \in Sizes : Realloc(size)) => ~astray']_libVars
=============================================================================
