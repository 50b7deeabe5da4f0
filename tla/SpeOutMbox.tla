----------------------------- MODULE SpeOutMbox -----------------------------
(***************************************************************************)
(* The outbound mailboxes of a context (src/spebase/mbox.c): several       *)
(* threads call _base_spe_out_mbox_read, or _base_spe_out_intr_mbox_read   *)
(* for the interrupting mailbox, while the SPE program writes.             *)
(*                                                                         *)
(* With SPE_MAP_PS a read of the plain mailbox loads the mapped register,  *)
(* as often as the count it read before under the lock of FD_MBOX says; a  *)
(* load from an empty mailbox yields no word.  Every other read is a       *)
(* read() of a file of spufs, which takes word after word until the caller *)
(* has enough or the mailbox is empty, and if there was none waits for the *)
(* first, except in the mbox file and with O_NONBLOCK (EAGAIN).            *)
(*                                                                         *)
(* The SPE program writes the words 1, 2, 3 ... and stalls when the        *)
(* mailbox is full.                                                        *)
(***************************************************************************)
EXTENDS Integers, Sequences, SequencesExt

CONSTANTS
  Readers,
  OutDepth,   \* entries of the mailbox
  OutCount,   \* bound: words of one call
  OutCalls,   \* bound: calls of all readers
  OutFails,   \* open() and read() may fail or be interrupted
  OutNone

ASSUME OutMboxAssumption ==
  /\ OutDepth \in Nat \ {0} /\ OutCount \in Nat \ {0} /\ OutCalls \in Nat
  /\ OutFails \in BOOLEAN /\ OutNone \notin Readers

Behaviors == {"ALL_BLOCKING", "ANY_BLOCKING", "ANY_NONBLOCKING"}

\* bound: the words of the SPE program, enough for every call
OutWords == OutCalls * OutCount

VARIABLES
  psmap,          \* flags & SPE_MAP_PS
  intr,           \* the mailbox is the interrupting one
  obox, sent,     \* the words in the mailbox, and how many the program wrote
  olock,          \* fd_lock[FD_MBOX]
  rpc, rflag, want, entries,  \* of each reader's call
  mbox_data,      \* the words the call has stored for its caller
  got,            \* all words reported to each reader
  lost,           \* words taken by calls that returned -1
  known,          \* words a status call showed each reader, which nobody took
  reads           \* calls so far

rcall == <<rflag, want, reads>>
outvars == <<psmap, intr, obox, sent, olock, rpc, rcall, entries, mbox_data, got, lost, known>>

OutInit ==
  /\ psmap \in BOOLEAN /\ intr \in BOOLEAN
  /\ obox = <<>> /\ sent = 0
  /\ olock = OutNone
  /\ rpc = [r \in Readers |-> "idle"]
  /\ rflag = [r \in Readers |-> "ANY_NONBLOCKING"]
  /\ want = [r \in Readers |-> 0]
  /\ entries = [r \in Readers |-> 0]
  /\ mbox_data = [r \in Readers |-> <<>>]
  /\ got = [r \in Readers |-> <<>>]
  /\ lost = {}
  /\ known = [r \in Readers |-> 0]
  /\ reads = 0

-----------------------------------------------------------------------------
NoWord == 0

OutGoto(r, label) == rpc' = [rpc EXCEPT ![r] = label]

\* The caller gets the number of words that were stored ...
OutReturn(r) ==
  /\ OutGoto(r, "idle")
  /\ got' = [got EXCEPT ![r] = @ \o mbox_data[r]]
  /\ mbox_data' = [mbox_data EXCEPT ![r] = <<>>]
  /\ known' = [known EXCEPT ![r] = 0]
  /\ UNCHANGED lost

\* ... or -1, whatever was stored.
OutFail(r) ==
  /\ OutGoto(r, "idle")
  /\ lost' = lost \cup ToSet(mbox_data[r])
  /\ mbox_data' = [mbox_data EXCEPT ![r] = <<>>]
  /\ known' = [known EXCEPT ![r] = 0]
  /\ UNCHANGED got

Enough(r) == Len(mbox_data[r]) = want[r]

TakeWord(r) ==
  /\ mbox_data' = [mbox_data EXCEPT ![r] = Append(@, IF obox = <<>> THEN NoWord ELSE Head(obox))]
  /\ obox' = IF obox = <<>> THEN obox ELSE Tail(obox)
  /\ known' = [s \in Readers |-> IF s = r THEN known[s] ELSE 0]

\* _base_spe_out_mbox_status, _base_spe_out_intr_mbox_status: SPU_Mbox_Stat, or
\* a read of the file mbox_stat or ibox_stat, which may fail (-1).
OutStatus(r) ==
  /\ rpc[r] = "idle"
  /\ known' = [known EXCEPT ![r] = Len(obox)]
  /\ UNCHANGED <<psmap, intr, obox, sent, olock, rpc, rcall, entries, mbox_data, got, lost>>

\* _base_spe_out_mbox_read has no flag: it never waits.
OutRead(r, f, n) ==
  /\ rpc[r] = "idle" /\ reads < OutCalls
  /\ ~ intr => f = "ANY_NONBLOCKING"
  /\ reads' = reads + 1
  /\ rflag' = [rflag EXCEPT ![r] = f]
  /\ want' = [want EXCEPT ![r] = n]
  /\ OutGoto(r, IF psmap /\ ~ intr THEN "lock" ELSE "file")
  /\ UNCHANGED <<psmap, intr, obox, sent, olock, entries, mbox_data, got, lost, known>>

\* _base_spe_out_mbox_read_ps

\* Mutation: the readers do not exclude each other.
OutLock_Never(r) ==
  /\ rpc[r] = "lock"
  /\ OutGoto(r, "entries")
  /\ UNCHANGED <<psmap, intr, obox, sent, olock, rcall, entries, mbox_data, got, lost, known>>

OutLock(r) ==
  /\ rpc[r] = "lock" /\ olock = OutNone
  /\ olock' = r
  /\ OutGoto(r, "entries")
  /\ UNCHANGED <<psmap, intr, obox, sent, rcall, entries, mbox_data, got, lost, known>>

\* SPU_Mbox_Stat & 0xFF
Entries(r) ==
  /\ rpc[r] = "entries"
  /\ \/ /\ Enough(r) \/ obox = <<>>
        /\ OutGoto(r, "unlock") /\ UNCHANGED entries
     \/ /\ ~ Enough(r) /\ obox # <<>>
        /\ \E n \in 1 .. OutDepth :
             /\ n <= Len(obox) /\ n <= want[r] - Len(mbox_data[r])
             /\ n = Len(obox) \/ n = want[r] - Len(mbox_data[r])
             /\ entries' = [entries EXCEPT ![r] = n]
        /\ OutGoto(r, "get")
  /\ UNCHANGED <<psmap, intr, obox, sent, olock, rcall, mbox_data, got, lost, known>>

\* mbox_data[total] = SPU_Out_Mbox
GetWord(r) ==
  /\ rpc[r] = "get"
  /\ TakeWord(r)
  /\ entries' = [entries EXCEPT ![r] = @ - 1]
  /\ OutGoto(r, IF entries[r] = 1 THEN "entries" ELSE "get")
  /\ UNCHANGED <<psmap, intr, sent, olock, rcall, got, lost>>

\* Mutation: a call that finds no entry returns at once.
OutUnlock_NotIfEmpty(r) ==
  /\ rpc[r] = "unlock"
  /\ olock' = IF mbox_data[r] = <<>> THEN olock ELSE OutNone
  /\ OutReturn(r)
  /\ UNCHANGED <<psmap, intr, obox, sent, rcall, entries>>

OutUnlock(r) ==
  /\ rpc[r] = "unlock"
  /\ olock' = OutNone
  /\ OutReturn(r)
  /\ UNCHANGED <<psmap, intr, obox, sent, rcall, entries>>

\* read() on mbox or ibox: the first word, and those that follow.
FileWord(r) ==
  /\ rpc[r] \in {"file", "more"} /\ obox # <<>> /\ ~ Enough(r)
  /\ TakeWord(r)
  /\ OutGoto(r, "more")
  /\ UNCHANGED <<psmap, intr, sent, olock, rcall, entries, got, lost>>

\* Mutation: one read() is all there is, whatever it returned.
FileDone_NeverRepeats(r) ==
  /\ rpc[r] = "more"
  /\ obox = <<>> \/ Enough(r)
  /\ OutReturn(r)
  /\ UNCHANGED <<psmap, intr, obox, sent, olock, rcall, entries>>

\* read() returns; only ALL_BLOCKING calls it again.
FileDone(r) ==
  /\ rpc[r] = "more"
  /\ obox = <<>> \/ Enough(r)
  /\ IF rflag[r] = "ALL_BLOCKING" /\ ~ Enough(r)
       THEN OutGoto(r, "file") /\ UNCHANGED <<mbox_data, got, lost, known>> ELSE OutReturn(r)
  /\ UNCHANGED <<psmap, intr, obox, sent, olock, rcall, entries>>

\* EAGAIN: there is no word.
OutAgain(r) ==
  /\ rpc[r] = "file" /\ rflag[r] = "ANY_NONBLOCKING" /\ obox = <<>>
  /\ OutReturn(r)
  /\ UNCHANGED <<psmap, intr, obox, sent, olock, rcall, entries>>

\* A read() that fails takes no word, but earlier ones of the call may have.
OutFileFails(r) ==
  /\ rpc[r] = "file" /\ OutFails
  /\ OutFail(r)
  /\ UNCHANGED <<psmap, intr, obox, sent, olock, rcall, entries>>

\* The SPE program writes a word.
SpeWrites ==
  /\ Len(obox) < OutDepth /\ sent < OutWords
  /\ sent' = sent + 1
  /\ obox' = Append(obox, sent')
  /\ UNCHANGED <<psmap, intr, olock, rpc, rcall, entries, mbox_data, got, lost, known>>

OutProgress(r) ==
  \/ OutLock(r) \/ Entries(r) \/ GetWord(r) \/ OutUnlock(r)
  \/ FileWord(r) \/ FileDone(r) \/ OutAgain(r)

OutNext ==
  \/ \E r \in Readers :
       \/ \E f \in Behaviors, n \in 1 .. OutCount : OutRead(r, f, n)
       \/ OutStatus(r) \/ OutProgress(r) \/ OutFileFails(r)
  \/ SpeWrites

\* Threads are scheduled, and a lock or a word that comes again and again is
\* given to each that waits for it.  Nothing is said of the SPE program.
OutFairness == \A r \in Readers : SF_outvars(OutProgress(r))

OutSpec == OutInit /\ [][OutNext]_outvars /\ OutFairness

-----------------------------------------------------------------------------
(* Properties *)

\* Every variable has its type, and the lock its owner.
OutTypeOK ==
  /\ psmap \in BOOLEAN /\ intr \in BOOLEAN
  /\ obox \in Seq(Nat) /\ Len(obox) <= OutDepth /\ sent \in Nat
  /\ olock \in Readers \cup {OutNone}
  /\ rpc \in [Readers -> {"idle", "lock", "entries", "get", "unlock", "file", "more"}]
  /\ rflag \in [Readers -> Behaviors] /\ want \in [Readers -> 0 .. OutCount]
  /\ entries \in [Readers -> 0 .. OutDepth]
  /\ mbox_data \in [Readers -> Seq(Nat)] /\ got \in [Readers -> Seq(Nat)]
  /\ lost \subseteq Nat /\ known \in [Readers -> 0 .. OutDepth] /\ reads \in Nat

Increasing(s) == \A i \in 1 .. Len(s) - 1 : s[i] < s[i + 1]

\* The entries that were counted are there when they are read, although other
\* readers and the program go on: every word the program wrote is in the
\* mailbox, or with exactly one reader, who has his words in order, or it was
\* taken by a call that failed.  No reader is given a word nobody wrote.
WordsTakenOnce ==
  LET words(r) == got[r] \o mbox_data[r] IN
  /\ \A r \in Readers : Increasing(words(r))
  /\ \A k \in 1 .. Len(obox) : obox[k] = sent - Len(obox) + k
  /\ (UNION {ToSet(words(r)) : r \in Readers}) \cup lost = 1 .. sent - Len(obox)
  /\ \A r, s \in Readers : r # s => ToSet(words(r)) \cap ToSet(words(s)) = {}
  /\ \A r \in Readers : ToSet(words(r)) \cap lost = {}

\* A call returns what its way of reading promises: all words, or at least one,
\* and no fewer than a status call has shown to a reader alone.  Words are lost
\* only by a call with ALL_BLOCKING that fails between two of its reads.
ReadsEnough ==
  [][/\ \A r \in Readers :
          rpc[r] # "idle" /\ rpc'[r] = "idle" /\ ~ OutFileFails(r) =>
            LET n == Len(got'[r]) - Len(got[r]) IN
            /\ n <= want[r]
            /\ rflag[r] = "ALL_BLOCKING" => n = want[r]
            /\ rflag[r] = "ANY_BLOCKING" => n > 0
            /\ n >= known[r] \/ n = want[r]
     /\ lost' # lost => \E r \in Readers : OutFileFails(r) /\ rflag[r] = "ALL_BLOCKING"]_outvars

\* A call that may not wait returns even if the SPE program never writes, and
\* every call returns if the program goes on writing.
ReadsReturn ==
  /\ \A r \in Readers : rpc[r] # "idle" /\ rflag[r] = "ANY_NONBLOCKING" ~> rpc[r] = "idle"
  /\ WF_outvars(SpeWrites) => \A r \in Readers : rpc[r] # "idle" ~> rpc[r] = "idle"
=============================================================================
