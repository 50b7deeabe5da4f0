----------------------------- MODULE SpeInMbox -----------------------------
(***************************************************************************)
(* The inbound mailbox of a context: _base_spe_in_mbox_write called by     *)
(* several threads (src/spebase/mbox.c), while the SPE program reads.      *)
(*                                                                         *)
(* With SPE_MAP_PS the library writes the mailbox register itself: it      *)
(* reads the number of free entries under the lock of FD_WBOX and then     *)
(* writes that many words, one store each; a store to a full mailbox would *)
(* overwrite its last entry.  Without it the words go through the wbox     *)
(* file of spufs, whose write() blocks until one word fits and then takes  *)
(* as many as fit.                                                         *)
(*                                                                         *)
(* A word is <<writer, number>>.  A writer sends its words in order and    *)
(* continues after the number of words the last call returned.             *)
(***************************************************************************)
EXTENDS Integers, Sequences, SequencesExt

CONSTANTS
  Writers,
  Depth,      \* entries of the mailbox
  MaxCount,   \* bound: words of one call
  MaxCalls,   \* bound: calls of one writer
  MayFail,    \* poll(), open() and write() may fail or be interrupted
  None

ASSUME MboxAssumption ==
  /\ Depth \in Nat \ {0} /\ MaxCount \in Nat \ {0} /\ MaxCalls \in Nat
  /\ MayFail \in BOOLEAN /\ None \notin Writers

Flags == {"ALL_BLOCKING", "ANY_BLOCKING", "ANY_NONBLOCKING"}

VARIABLES
  mapped,       \* flags & SPE_MAP_PS
  wbox, taken,  \* the mailbox, and what the SPE program has read from it
  lock,         \* fd_lock[FD_WBOX]
  pc, behavior_flag, count, total, space,  \* of each writer's call
  next,         \* the number of words each writer knows to be written
  calls,        \* calls of each writer so far
  failed        \* one of them returned -1

call == <<behavior_flag, count, calls>>
vars == <<mapped, wbox, taken, lock, pc, call, total, space, next, failed>>

Init ==
  /\ mapped \in BOOLEAN
  /\ wbox = <<>> /\ taken = <<>>
  /\ lock = None
  /\ pc = [w \in Writers |-> "idle"]
  /\ behavior_flag = [w \in Writers |-> "ALL_BLOCKING"]
  /\ count = [w \in Writers |-> 0]
  /\ total = [w \in Writers |-> 0]
  /\ space = [w \in Writers |-> 0]
  /\ next = [w \in Writers |-> 0]
  /\ calls = [w \in Writers |-> 0]
  /\ failed = [w \in Writers |-> FALSE]

-----------------------------------------------------------------------------
Goto(w, label) == pc' = [pc EXCEPT ![w] = label]

Return(w, written) ==
  /\ Goto(w, "idle")
  /\ next' = [next EXCEPT ![w] = @ + written]
  /\ UNCHANGED failed

\* "return -1": the caller learns of no word that was written.
Fail(w) ==
  /\ Goto(w, "idle")
  /\ failed' = [failed EXCEPT ![w] = TRUE]
  /\ UNCHANGED next

\* The words that follow what the call has written.
Word(w, i) == <<w, next[w] + total[w] + i>>

Smaller(m, n) == IF m < n THEN m ELSE n

Write(w, flag, n) ==
  /\ pc[w] = "idle" /\ calls[w] < MaxCalls
  /\ calls' = [calls EXCEPT ![w] = @ + 1]
  /\ behavior_flag' = [behavior_flag EXCEPT ![w] = flag]
  /\ count' = [count EXCEPT ![w] = n]
  /\ total' = [total EXCEPT ![w] = 0]
  /\ Goto(w, IF mapped THEN "lock" ELSE "file")
  /\ UNCHANGED <<mapped, wbox, taken, lock, space, next, failed>>

\* _base_spe_in_mbox_write_ps

\* Mutation: the writers do not exclude each other.
Lock_Never(w) ==
  /\ pc[w] = "lock"
  /\ Goto(w, "space")
  /\ UNCHANGED <<mapped, wbox, taken, lock, call, total, space, next, failed>>

Lock(w) ==
  /\ pc[w] = "lock" /\ lock = None
  /\ lock' = w
  /\ Goto(w, "space")
  /\ UNCHANGED <<mapped, wbox, taken, call, total, space, next, failed>>

Space(w) ==
  LET free == Depth - Len(wbox) IN
  /\ pc[w] = "space"
  /\ \/ /\ total[w] = count[w] \/ free = 0
        /\ Goto(w, "unlock") /\ UNCHANGED space
     \/ /\ total[w] < count[w] /\ free > 0
        /\ space' = [space EXCEPT ![w] = Smaller(free, count[w] - total[w])]
        /\ Goto(w, "put")
  /\ UNCHANGED <<mapped, wbox, taken, lock, call, total, next, failed>>

\* SPU_In_Mbox = *aux++
PutWord(w) ==
  /\ pc[w] = "put"
  /\ wbox' = IF Len(wbox) < Depth THEN Append(wbox, Word(w, 1))
                                  ELSE [wbox EXCEPT ![Depth] = Word(w, 1)]
  /\ total' = [total EXCEPT ![w] = @ + 1]
  /\ space' = [space EXCEPT ![w] = @ - 1]
  /\ Goto(w, IF space[w] = 1 THEN "space" ELSE "put")
  /\ UNCHANGED <<mapped, taken, lock, call, next, failed>>

Blocks(w) == \/ behavior_flag[w] = "ALL_BLOCKING" /\ total[w] < count[w]
             \/ behavior_flag[w] = "ANY_BLOCKING" /\ total[w] = 0

\* Mutations: a writer that could not write all never waits, or waits with the
\* lock.
Unlock_NeverBlocks(w) ==
  /\ pc[w] = "unlock"
  /\ lock' = None
  /\ Return(w, total[w])
  /\ UNCHANGED <<mapped, wbox, taken, call, total, space>>

Unlock_AfterPoll(w) ==
  /\ pc[w] = "unlock"
  /\ IF Blocks(w) THEN Goto(w, "open") /\ UNCHANGED <<lock, next, failed>>
                  ELSE lock' = None /\ Return(w, total[w])
  /\ UNCHANGED <<mapped, wbox, taken, call, total, space>>

Unlock(w) ==
  /\ pc[w] = "unlock"
  /\ lock' = None
  /\ IF Blocks(w) THEN Goto(w, "open") /\ UNCHANGED <<next, failed>> ELSE Return(w, total[w])
  /\ UNCHANGED <<mapped, wbox, taken, call, total, space>>

\* _base_spe_open_if_closed, which takes the lock for itself.  Nobody looks at its
\* result: when the wbox file cannot be opened the descriptor is -1.
PollOpen(w) ==
  /\ pc[w] = "open" /\ lock = None
  /\ Goto(w, "poll") \/ (MayFail /\ Goto(w, "deaf"))
  /\ UNCHANGED <<mapped, wbox, taken, lock, call, total, space, next, failed>>

\* poll() on the wbox file, without the lock
Poll(w) ==
  /\ pc[w] = "poll"
  /\ \/ Len(wbox) < Depth /\ Goto(w, "lock") /\ UNCHANGED <<next, failed>>
     \/ MayFail /\ Fail(w)
  /\ UNCHANGED <<mapped, wbox, taken, lock, call, total, space>>

\* poll() passes over the descriptor -1 and has no time-out: only a signal ends it.
PollInterrupted(w) ==
  /\ pc[w] = "deaf" /\ MayFail
  /\ Fail(w)
  /\ UNCHANGED <<mapped, wbox, taken, lock, call, total, space>>

\* Mutation: a partial write counts as a whole one.
FileWrite_ReportsAll(w) ==
  LET n == Smaller(Depth - Len(wbox), count[w] - total[w]) IN
  /\ pc[w] = "file" /\ n > 0
  /\ wbox' = wbox \o [i \in 1 .. n |-> Word(w, i)]
  /\ total' = [total EXCEPT ![w] = count[w]]
  /\ Return(w, count[w])
  /\ UNCHANGED <<mapped, taken, lock, call, space>>

\* write() on the wbox file; only ALL_BLOCKING repeats it.
FileWrite(w) ==
  LET n == Smaller(Depth - Len(wbox), count[w] - total[w]) IN
  /\ pc[w] = "file" /\ n > 0
  /\ wbox' = wbox \o [i \in 1 .. n |-> Word(w, i)]
  /\ total' = [total EXCEPT ![w] = @ + n]
  /\ IF behavior_flag[w] = "ALL_BLOCKING" /\ total[w] + n < count[w]
       THEN UNCHANGED <<pc, next, failed>> ELSE Return(w, total[w] + n)
  /\ UNCHANGED <<mapped, taken, lock, call, space>>

\* EAGAIN of the file opened with O_NONBLOCK: no word was written.
FileAgain(w) ==
  /\ pc[w] = "file" /\ behavior_flag[w] = "ANY_NONBLOCKING" /\ Len(wbox) = Depth
  /\ Return(w, 0)
  /\ UNCHANGED <<mapped, wbox, taken, lock, call, total, space>>

FileFails(w) ==
  /\ pc[w] = "file" /\ MayFail
  /\ Fail(w)
  /\ UNCHANGED <<mapped, wbox, taken, lock, call, total, space>>

\* The SPE program reads a word.
Read ==
  /\ wbox # <<>>
  /\ taken' = Append(taken, Head(wbox))
  /\ wbox' = Tail(wbox)
  /\ UNCHANGED <<mapped, lock, pc, call, total, space, next, failed>>

Step(w) ==
  \/ Lock(w) \/ Space(w) \/ PutWord(w) \/ Unlock(w)
  \/ PollOpen(w) \/ Poll(w) \/ PollInterrupted(w)
  \/ FileWrite(w) \/ FileAgain(w) \/ FileFails(w)

Next ==
  \/ \E w \in Writers :
       (\E flag \in Flags, n \in 1 .. MaxCount : Write(w, flag, n)) \/ Step(w)
  \/ Read

Spec == Init /\ [][Next]_vars

\* Threads are scheduled, and a lock or free entry that comes up again and
\* again is granted to each.  Nothing is said of the SPE program, and no system
\* call need fail.
Progress(w) ==
  \/ Lock(w) \/ Space(w) \/ PutWord(w) \/ Unlock(w)
  \/ (PollOpen(w) /\ pc'[w] = "poll") \/ (Poll(w) /\ pc'[w] = "lock")
  \/ FileWrite(w) \/ FileAgain(w)

InFairness == \A w \in Writers : SF_vars(Progress(w))

FairSpec == Spec /\ InFairness

-----------------------------------------------------------------------------
(* Properties *)

\* Every variable has its type; the mailbox holds no more than its entries.
TypeOK ==
  /\ mapped \in BOOLEAN
  /\ wbox \in Seq(Writers \X Nat) /\ Len(wbox) <= Depth
  /\ taken \in Seq(Writers \X Nat)
  /\ lock \in Writers \cup {None}
  /\ pc \in [Writers -> {"idle", "lock", "space", "put", "unlock", "open", "poll", "deaf", "file"}]
  /\ behavior_flag \in [Writers -> Flags]
  /\ count \in [Writers -> 0 .. MaxCount] /\ total \in [Writers -> 0 .. MaxCount]
  /\ space \in [Writers -> 0 .. Depth]
  /\ next \in [Writers -> Nat] /\ calls \in [Writers -> 0 .. MaxCalls]
  /\ failed \in [Writers -> BOOLEAN]

\* The mailbox is a bounded buffer: the free entries that were counted under
\* the lock are still free when they are written to, so no store overwrites a
\* word, for any number of writers and any failure in between.
Buffer == INSTANCE BoundedBuffer WITH buf <- wbox, out <- taken
ImplementsBuffer == Buffer!Spec

\* The words that were written, in the order the SPE program reads them, and
\* the one of a writer that comes before his k-th word (0: none does).
Words == taken \o wbox
Number(k) == IF k = 0 THEN 0 ELSE Words[k][2]
Precedes(w, j, k) == /\ j < k /\ (j = 0 \/ Words[j][1] = w) /\ Words[k][1] = w
                     /\ \A i \in j + 1 .. k - 1 : Words[i][1] # w

\* Although the calls of several writers are cut into parts, the words of each
\* arrive in order and none is skipped, and every word that was reported as
\* written arrives; each arrives once, unless a call failed after part of its
\* words was written: that reports none, and the writer sends them again.
WordsArrive ==
  \A w \in Writers :
    /\ \A i \in 1 .. next[w] : \E k \in 1 .. Len(Words) : Words[k] = <<w, i>>
    /\ \A j \in 0 .. Len(Words), k \in 1 .. Len(Words) : Precedes(w, j, k) =>
         /\ Number(k) <= Number(j) + 1
         /\ ~ failed[w] => Number(k) = Number(j) + 1

\* "exactly count mailbox entries have been written", or "at least 1".
BlockingWrites ==
  [][\A w \in Writers :
       pc[w] # "idle" /\ pc'[w] = "idle" /\ ~ failed'[w] =>
         LET n == next'[w] - next[w] IN
         /\ behavior_flag[w] = "ALL_BLOCKING" => n = count[w]
         /\ behavior_flag[w] = "ANY_BLOCKING" => n \in 1 .. count[w]
         /\ n = total'[w]]_vars

\* "will not block until the write request is satisfied": a call with
\* ANY_NONBLOCKING returns even if the SPE program never reads and other writers
\* wait for it; and while the SPE program goes on reading every call returns,
\* except one that could not open the file it is to wait on.
WritesReturn ==
  /\ \A w \in Writers :
       pc[w] # "idle" /\ behavior_flag[w] = "ANY_NONBLOCKING" ~> pc[w] = "idle"
  /\ WF_vars(Read) => \A w \in Writers : pc[w] # "idle" ~> pc[w] \in {"idle", "deaf"}

\* "block until the write request is satisfied": the promise makes no exception
\* for that one, which waits for ever while the mailbox is empty.
AllWritesReturn == WF_vars(Read) => \A w \in Writers : pc[w] # "idle" ~> pc[w] = "idle"
=============================================================================
