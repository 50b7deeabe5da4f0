---------------------------- MODULE Posix1Calls ----------------------------
(***************************************************************************)
(* The POSIX.1 calls of SPE programs                                       *)
(* (src/spebase/default_posix1_handler.c).  Files, processes and clocks    *)
(* are the kernel's and any outcome is possible; what the handlers add is  *)
(* modelled: which pointers they convert, test and write through, the      *)
(* width of results, errno, vectors, and pointers of the PPE.              *)
(***************************************************************************)
EXTENDS LsCall, Sequences, SequencesExt

CONSTANTS
  Calls,    \* the calls of the SPE program, by name
  IovMax    \* IOV_MAX

ASSUME VectorAssumption == IovMax \in Nat

-----------------------------------------------------------------------------
(* The calls that return an int, in the order of their handlers.  Each of  *)
(* these converts its arguments, makes the call, copies what it returns in *)
(* a structure, and stores result and errno: IntCall.                      *)

StatCalls == {"stat", "fstat", "lstat"}
OpenCalls == {"open", "access", "creat", "close", "dup"}
TransferCalls == {"time", "read", "write", "lseek", "ftruncate", "unlink"}
ShmCalls == {"shm_open", "shm_unlink", "shmat", "shmdt", "shmctl", "shmget"}
ProcessCalls == {"ftok", "wait", "waitpid", "kill"}
ClockCalls == {"adjtimex", "gettimeofday", "nanosleep"}
DirectoryCalls == {"chdir", "fchdir", "mkdir", "mknod", "rmdir"}
OwnerCalls == {"chmod", "fchmod", "chown", "fchown", "lchown"}
LinkCalls == {"link", "symlink", "readlink"}
SyncCalls == {"fsync", "fdatasync", "dup2", "lockf", "truncate"}
TempCalls == {"mkstemp", "mktemp"}
MaskCalls == {"umask", "utime", "utimes"}
OffsetCalls == {"pread", "pwrite"}

IntCalls ==
  UNION {StatCalls, OpenCalls, TransferCalls, ProcessCalls, ClockCalls, DirectoryCalls,
         OwnerCalls, LinkCalls, SyncCalls, TempCalls, MaskCalls, OffsetCalls}

\* off_t and time_t, put into one word.
WideCalls == {"lseek", "time"}
SureCalls == {"time", "umask", "mktemp"}

-----------------------------------------------------------------------------
(* What is done with their arguments *)

\* The arguments the results are stored through.
Out(name) ==
  CASE name \in StatCalls \cup {"read", "pread", "readlink", "waitpid", "nanosleep"} -> {2}
    [] name \in TempCalls \cup {"time", "wait", "adjtimex"}                           -> {1}
    [] name = "gettimeofday"                                                          -> {1, 2}
    [] OTHER                                                                          -> {}

\* Those of them that POSIX.1 lets be null, and those the handler tests for it.
Optional(name) ==
  CASE name \in {"time", "wait"}           -> {1}
    [] name \in {"waitpid", "nanosleep"}   -> {2}
    [] name = "gettimeofday"               -> {1, 2}
    [] OTHER                               -> {}

\* Mutation: no pointer of gettimeofday is tested.
Tested_OnlyNanosleep(name) == IF name = "nanosleep" THEN {2} ELSE {}

Tested(name) ==
  CASE name = "gettimeofday" -> {1, 2}
    [] name = "nanosleep"    -> {2}
    [] OTHER                 -> {}

Outcomes(name) ==
  {Done(v) : v \in {0, IntMax}}
    \cup (IF name \in WideCalls THEN {Done(v) : v \in {Base - 1, Base + 1}} ELSE {})
    \cup (IF name \in SureCalls THEN {} ELSE {Failed(c) : c \in Codes})

\* nanosleep copies the remaining time, assigned or not, however it ended;
\* adjtimex its result only if the state of the clock is 0.  (utime and utimes
\* read the times from what may be a null pointer.)
Writes(name, outcome, nulls) ==
  IF name = "nanosleep" \/ (outcome.ok /\ (name = "adjtimex" => outcome.value = 0))
    THEN Out(name) \ (nulls \cap Tested(name)) ELSE {}

IntCall(name) ==
  /\ name \in IntCalls
  /\ \E outcome \in Outcomes(name), nulls \in SUBSET Optional(name) :
       /\ Sets(outcome)
       /\ Returned(name, outcome, <<IntWord(outcome), 0>>, errno', nulls,
                   Writes(name, outcome, nulls))
  /\ MemoryKept

\* The errno of the thread is not passed on.  (sync puts no result at all and
\* changes nothing that is modelled.)
QuietCall(name) ==
  /\ name \in {"getpagesize", "sched_yield"}
  /\ LET outcome == Done(IF name = "getpagesize" THEN IntMax ELSE 0)
     IN Returned(name, outcome, <<IntWord(outcome), 0>>, "0", {}, {})
  /\ UNCHANGED errno /\ MemoryKept

\* Compiled without SPE_POSIX1_SHM_CALLS.
ShmCall(name) ==
  /\ name \in ShmCalls
  /\ LET outcome == Failed("ENOSYS") IN Returned(name, outcome, <<Base - 1, 0>>, "ENOSYS", {}, {})
  /\ UNCHANGED errno /\ MemoryKept

\* The test for a null buffer looks at the size.
Getcwd ==
  \E size \in {0, 1}, nulls \in SUBSET {1}, outcome \in {Done(1)} \cup {Failed(c) : c \in Codes} :
    /\ "getcwd" \in Calls /\ MemoryKept
    /\ IF size = 0
         THEN /\ UNCHANGED errno
              /\ Returned("getcwd", Failed("EINVAL"), NullWords, "EINVAL", nulls, {})
         ELSE /\ Sets(outcome)
              /\ Returned("getcwd", outcome,
                          <<IF outcome.ok /\ nulls = {} THEN outcome.value ELSE 0, 0>>, errno', nulls,
                          IF outcome.ok THEN {1} ELSE {})

-----------------------------------------------------------------------------
(* Vectors *)

SPU_SSIZE_MAX == IntMax
SSIZE_MAX == Width \div 2 - 1

\* The length of the first i entries.
Totals(lens) ==
  LET sum[i \in 0 .. Len(lens)] == IF i = 0 THEN 0 ELSE sum[i - 1] + lens[i]
  IN sum

Total(lens) == Totals(lens)[Len(lens)]

\* Mutation: only the number of entries is checked.
check_conv_spuvec_NoSum(count, lens) == Signed(count) <= IovMax

\* What the int sees of the count; and entry by entry the total so far, which on
\* the 32-bit ABI may have wrapped around in its size_t.
check_conv_spuvec(count, lens) ==
  /\ Signed(count) <= IovMax
  /\ \A i \in 1 .. Len(lens) : Totals(lens)[i] % Width <= SPU_SSIZE_MAX

\* A count that is negative as an int has no entries to convert, and those of a
\* count beyond IOV_MAX are not looked at.
Vectors(count) ==
  CASE Signed(count) < 0      -> {<<>>}
    [] Signed(count) > IovMax -> [1 .. count -> {0}]
    [] OTHER                  -> [1 .. count -> 0 .. Base - 1]

\* The entries written to vec, on the stack of the handler: all of them, or fewer
\* if the total gets too long on the way.
Converted(lens) == IF Len(lens) <= IovMax THEN lens ELSE <<>>

\* The library refuses a negative count and a total that no ssize_t can hold.
VectorOutcomes(count, lens) ==
  IF ~check_conv_spuvec(count, lens) \/ Signed(count) < 0 \/ Total(lens) > SSIZE_MAX
    THEN {Failed("EINVAL")}
    ELSE {Done(v) : v \in 0 .. Total(lens)} \cup {Failed(c) : c \in Codes}

VectorCall(name) ==
  /\ name \in {"readv", "writev"}
  /\ \E count \in 0 .. Base - 1 : \E lens \in Vectors(count) :
       \E outcome \in VectorOutcomes(count, lens) :
         /\ Sets(outcome)
         /\ Returned(name, outcome, <<IntWord(outcome), 0>>, errno', {}, DOMAIN Converted(lens))
  /\ MemoryKept

-----------------------------------------------------------------------------
(* Calls with pointers of the PPE *)

\* (unsigned long) MAP_FAILED, or that of a null pointer.
PointerTo(outcome, failed) == IF outcome.ok THEN outcome.value ELSE failed

\* The SPE program keeps what it was given, unless it sees that the call failed.
Keeps(words, kind, failed) == IF words = failed THEN {} ELSE {Held(words, kind)}

NewBlocks == IF MoreRoom THEN {Done(a) : a \in Room} ELSE {}

\* Mutation: no check for MAP_FAILED.
mmapWords_Unchecked(outcome) == ToWords(PointerTo(outcome, Width - 1))

mmapWords(outcome) == IF outcome.ok THEN ToWords(outcome.value) ELSE AllOnes

Mmap ==
  \E outcome \in NewBlocks \cup {Failed(c) : c \in Codes} :
    /\ "mmap" \in Calls /\ Sets(outcome)
    /\ live' = live \cup (IF outcome.ok THEN {Block(outcome.value, "map", 1, 1)} ELSE {})
    /\ pointers' = pointers \cup Keeps(mmapWords(outcome), "map", AllOnes)
    /\ PUT_LS_RC("mmap", outcome, mmapWords(outcome))
    /\ UNCHANGED astray

\* mremap has no check for MAP_FAILED: on the 32-bit ABI its high word is 0.
Mremap ==
  \E h \in pointers : \E outcome \in {Done(FromWords(h.words))} \cup {Done(a) : a \in Room}
                                   \cup {Failed(c) : c \in Codes} :
    LET old == At(FromWords(h.words), "map")
        words == ToWords(PointerTo(outcome, Width - 1))
    IN /\ "mremap" \in Calls /\ h.kind = "map" /\ old # {} /\ Sets(outcome)
       /\ live' = IF outcome.ok THEN (live \ old) \cup {Block(outcome.value, "map", 1, 1)} ELSE live
       /\ pointers' = IF words = AllOnes THEN pointers ELSE (pointers \ {h}) \cup {Held(words, "map")}
       /\ astray' = (astray \/ (~outcome.ok /\ words # AllOnes))
       /\ PUT_LS_RC("mremap", outcome, words)

\* Where nothing is, nothing is released.  A mapping that could not be removed
\* stays; a stream is gone even if closing its descriptor failed.
Release(name, kind) ==
  \E h \in pointers, outcome \in {Done(0)} \cup {Failed(c) : c \in Codes} :
    /\ name \in Calls /\ h.kind = kind /\ Sets(outcome) /\ UNCHANGED astray
    /\ IF outcome.ok \/ name = "closedir"
         THEN live' = live \ At(FromWords(h.words), kind) /\ pointers' = pointers \ {h}
         ELSE UNCHANGED <<live, pointers>>
    /\ PUT_LS_RC(name, outcome, <<IntWord(outcome), 0>>)

Munmap == Release("munmap", "map")
Closedir == Release("closedir", "dir")

\* msync, telldir (of one word) and, without errno, rewinddir and seekdir.
UseCall(name, kind) ==
  LET void == name \in {"rewinddir", "seekdir"}
      failures == IF void THEN {} ELSE {Failed(c) : c \in Codes}
  IN \E h \in pointers :
       /\ name \in Calls /\ h.kind = kind
       /\ \E outcome \in failures \cup (IF At(FromWords(h.words), kind) = {} THEN {} ELSE {Done(0)}) :
            /\ Sets(outcome)
            /\ Returned(name, outcome, <<IntWord(outcome), 0>>, IF void THEN "0" ELSE errno', {}, {})
       /\ MemoryKept

UseCalls ==
  UseCall("msync", "map") \/ \E name \in {"telldir", "rewinddir", "seekdir"} : UseCall(name, "dir")

Opendir ==
  \E outcome \in NewBlocks \cup {Failed(c) : c \in Codes} :
    LET words == ToWords(PointerTo(outcome, 0))
    IN /\ "opendir" \in Calls /\ Sets(outcome)
       /\ live' = live \cup (IF outcome.ok THEN {Block(outcome.value, "dir", 1, 1)} ELSE {})
       /\ pointers' = pointers \cup Keeps(words, "dir", NullWords)
       /\ PUT_LS_RC("opendir", outcome, words)
       /\ UNCHANGED astray

\* An entry, copied to the second argument, whose address is the result; the end
\* of the directory, which does not set errno; or an error.
Readdir ==
  \E h \in pointers :
    \E outcome \in IF At(FromWords(h.words), "dir") = {} THEN {Failed("EINVAL")}
                   ELSE {Done(1), Done(0), Failed("EINVAL")} :
      /\ "readdir" \in Calls /\ h.kind = "dir" /\ Sets(outcome)
      /\ Returned("readdir", outcome, <<outcome.value, 0>>, errno', {},
                  IF outcome.value = 1 THEN {2} ELSE {})
      /\ MemoryKept

\* Dispatch of the calls in the table; others are not served (SpeRun).
Posix1Call ==
  \/ \E name \in Calls : IntCall(name) \/ QuietCall(name) \/ ShmCall(name) \/ VectorCall(name)
  \/ Getcwd \/ Mmap \/ Mremap \/ Munmap \/ Closedir \/ UseCalls \/ Opendir \/ Readdir
=============================================================================
