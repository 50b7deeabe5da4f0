------------------------------- MODULE SpeFds -------------------------------
(***************************************************************************)
(* The table of SPUFS files of one SPE context (src/spebase/create.c):     *)
(* spe_fds_array, spe_fds_refcount and one mutex per entry.  Files are     *)
(* opened on first use by _base_spe_open_if_closed.  Only                  *)
(* _base_spe_signal_write gives its file back (_base_spe_close_if_open);   *)
(* the mailbox, MFC and event users keep theirs open until the context is  *)
(* destroyed.                                                              *)
(*                                                                         *)
(* A descriptor is a number of the process: once closed, the number may    *)
(* be given to the next file that is opened.  `file' is what the kernel    *)
(* has behind each number.                                                 *)
(***************************************************************************)
EXTENDS Integers, FiniteSets

CONSTANTS
  Threads,          \* threads of the application
  Entries,          \* entries of the table (enum fd_name)
  SignalEntries,    \* FD_SIG1 and FD_SIG2
  Numbers,          \* descriptor numbers openat() may return
  OpenMayFail,      \* openat() may fail
  InitialRefcounts, \* what malloc() leaves in spe_fds_refcount
  MaxRefcount,      \* bound: uses of a file that is never given back
  None              \* no thread, no entry

Closed == -1

ASSUME FdsAssumption ==
  /\ IsFiniteSet(Threads) /\ None \notin Threads
  /\ SignalEntries \subseteq Entries /\ None \notin Entries
  /\ Numbers \subseteq Nat
  /\ OpenMayFail \in BOOLEAN
  /\ InitialRefcounts \subseteq Int
  /\ MaxRefcount \in Int

VARIABLES
  fd_lock,   \* owner of fd_lock[]
  fds,       \* spe_fds_array[]
  refcount,  \* spe_fds_refcount[]
  file,      \* the entry whose file a number names, None when it is free
  alive,     \* the context exists
  sane,      \* its counters were 0, and every open gave it a positive number
  pc,        \* where each thread is
  entry,     \* the entry it works on
  fd         \* the descriptor it got from _base_spe_open_if_closed

table == <<fd_lock, fds, refcount>>
context == <<alive, sane>>
vars == <<table, file, context, pc, entry, fd>>

Init ==
  /\ fd_lock = [e \in Entries |-> None]
  /\ fds = [e \in Entries |-> Closed]
  /\ refcount \in [Entries -> InitialRefcounts]
  /\ file = [n \in Numbers |-> None]
  /\ alive = TRUE
  /\ sane = (\A e \in Entries : refcount[e] = 0)
  /\ pc = [t \in Threads |-> "idle"]
  /\ entry = [t \in Threads |-> None]
  /\ fd = [t \in Threads |-> Closed]

-----------------------------------------------------------------------------
Goto(t, label) == pc' = [pc EXCEPT ![t] = label]

Return(t) ==
  /\ Goto(t, "idle")
  /\ entry' = [entry EXCEPT ![t] = None]
  /\ fd' = [fd EXCEPT ![t] = Closed]

Unlock(t) == fd_lock' = [fd_lock EXCEPT ![entry[t]] = None]

\* A call that needs the file of an entry: signal_write, or a mailbox, MFC or
\* event call, which is not given back.
Call(t, e) ==
  /\ pc[t] = "idle" /\ alive
  /\ e \in SignalEntries \/ refcount[e] < MaxRefcount
  /\ Goto(t, "open_lock")
  /\ entry' = [entry EXCEPT ![t] = e]
  /\ UNCHANGED <<table, file, context, fd>>

Lock(t, from, to) ==
  /\ pc[t] = from /\ fd_lock[entry[t]] = None
  /\ fd_lock' = [fd_lock EXCEPT ![entry[t]] = t]
  /\ Goto(t, to)
  /\ UNCHANGED <<fds, refcount, file, context, entry, fd>>

OpenLock(t) == Lock(t, "open_lock", "open")

\* Mutation: only the call that opens the file is counted.
Open_CountsOpenerOnly(t) ==
  LET e == entry[t] IN
  /\ pc[t] = "open"
  /\ \/ fds[e] # Closed /\ UNCHANGED <<fds, refcount, file, sane>>
     \/ /\ fds[e] = Closed
        /\ \E n \in Numbers :
             /\ file[n] = None
             /\ file' = [file EXCEPT ![n] = e]
             /\ fds' = [fds EXCEPT ![e] = n]
             /\ refcount' = [refcount EXCEPT ![e] = IF n > 0 THEN @ + 1 ELSE @]
             /\ sane' = (sane /\ n > 0)
  /\ Unlock(t)
  /\ Goto(t, "return")
  /\ UNCHANGED <<alive, entry, fd>>

\* _base_spe_open_if_closed up to the unlock.  A failed openat() leaves -1.
Open(t) ==
  LET e == entry[t] IN
  /\ pc[t] = "open"
  /\ \/ /\ fds[e] # Closed
        /\ refcount' = [refcount EXCEPT ![e] = @ + 1]
        /\ UNCHANGED <<fds, file, sane>>
     \/ /\ fds[e] = Closed
        /\ \E n \in Numbers :
             /\ file[n] = None
             /\ file' = [file EXCEPT ![n] = e]
             /\ fds' = [fds EXCEPT ![e] = n]
             /\ refcount' = [refcount EXCEPT ![e] = IF n > 0 THEN @ + 1 ELSE @]
             /\ sane' = (sane /\ n > 0)
     \/ /\ fds[e] = Closed /\ OpenMayFail
        /\ sane' = FALSE
        /\ UNCHANGED <<fds, refcount, file>>
  /\ Unlock(t)
  /\ Goto(t, "return")
  /\ UNCHANGED <<alive, entry, fd>>

\* "return spe->base_private->spe_fds_array[]", after the unlock
OpenReturn(t) ==
  /\ pc[t] = "return"
  /\ fd' = [fd EXCEPT ![t] = fds[entry[t]]]
  /\ Goto(t, "use")
  /\ UNCHANGED <<table, file, context, entry>>

\* read(), write() or poll() on the descriptor; only a signal is closed again.
Use(t) ==
  /\ pc[t] = "use"
  /\ \/ /\ entry[t] \in SignalEntries
        /\ Goto(t, "close_lock")
        /\ UNCHANGED <<entry, fd>>
     \/ entry[t] \notin SignalEntries /\ Return(t)
  /\ UNCHANGED <<table, file, context>>

CloseLock(t) == Lock(t, "close_lock", "close")

\* _base_spe_close_if_open: the last user closes the file, and clears the
\* entry in a step of its own.
Close(t) ==
  LET e == entry[t] IN
  /\ pc[t] = "close"
  /\ \/ /\ fds[e] # Closed /\ refcount[e] = 1
        /\ refcount' = [refcount EXCEPT ![e] = 0]
        /\ file' = [file EXCEPT ![fds[e]] = None]
        /\ Goto(t, "clear")
        /\ UNCHANGED <<fd_lock, entry, fd>>
     \/ /\ fds[e] = Closed \/ refcount[e] # 1
        /\ refcount' = [refcount EXCEPT ![e] = IF @ > 0 THEN @ - 1 ELSE @]
        /\ Unlock(t) /\ Return(t)
        /\ UNCHANGED file
  /\ UNCHANGED <<fds, context>>

\* Mutation: the closed number stays in the table.
CloseClear_KeepsNumber(t) ==
  /\ pc[t] = "clear"
  /\ Unlock(t) /\ Return(t)
  /\ UNCHANGED <<fds, refcount, file, context>>

CloseClear(t) ==
  /\ pc[t] = "clear"
  /\ fds' = [fds EXCEPT ![entry[t]] = Closed]
  /\ Unlock(t) /\ Return(t)
  /\ UNCHANGED <<refcount, file, context>>

\* Mutation: free_spe_context forgets the files.
Destroy_KeepsFiles ==
  /\ alive /\ \A t \in Threads : pc[t] = "idle"
  /\ alive' = FALSE /\ UNCHANGED sane
  /\ UNCHANGED <<table, file, pc, entry, fd>>

\* free_spe_context; no call may be pending.
Destroy ==
  /\ alive /\ \A t \in Threads : pc[t] = "idle"
  /\ alive' = FALSE /\ UNCHANGED sane
  /\ file' = [n \in Numbers |-> IF \E e \in Entries : fds[e] = n THEN None ELSE file[n]]
  /\ UNCHANGED <<table, pc, entry, fd>>

\* _base_spe_context_create: spe_fds_array is set, spe_fds_refcount is not.
Create ==
  /\ ~alive
  /\ alive' = TRUE
  /\ fds' = [e \in Entries |-> Closed]
  /\ fd_lock' = [e \in Entries |-> None]
  /\ refcount' \in [Entries -> InitialRefcounts]
  /\ sane' = (\A e \in Entries : refcount'[e] = 0)
  /\ UNCHANGED <<file, pc, entry, fd>>

Next ==
  \/ \E t \in Threads :
       \/ \E e \in Entries : Call(t, e)
       \/ OpenLock(t) \/ Open(t) \/ OpenReturn(t) \/ Use(t)
       \/ CloseLock(t) \/ Close(t) \/ CloseClear(t)
  \/ Destroy \/ Create

Spec == Init /\ [][Next]_vars

-----------------------------------------------------------------------------
(* Properties *)

\* Every variable has its type; a cleared entry is -1 and not a number.
TypeOK ==
  /\ fd_lock \in [Entries -> Threads \cup {None}]
  /\ fds \in [Entries -> Numbers \cup {Closed}]
  /\ refcount \in [Entries -> Int]
  /\ file \in [Numbers -> Entries \cup {None}]
  /\ alive \in BOOLEAN /\ sane \in BOOLEAN
  /\ pc \in [Threads -> {"idle", "open_lock", "open", "return", "use",
                         "close_lock", "close", "clear"}]
  /\ entry \in [Threads -> Entries \cup {None}]
  /\ fd \in [Threads -> Numbers \cup {Closed}]

\* The descriptor a call uses, outside the mutex, names the file of its entry:
\* no other signal_write of the same register closed it meanwhile, and the
\* number was not given to another file.
UsesOwnFile ==
  \A t \in Threads : pc[t] = "use" /\ fd[t] # Closed => file[fd[t]] = entry[t]

\* The code does not see to it for every context, but for a sane one.
SaneUsesOwnFile == sane => UsesOwnFile

\* The calls of signal_write between their open and their close.
Holders(e) ==
  {t \in Threads : entry[t] = e /\ pc[t] \in {"return", "use", "close_lock", "close"}}

\* spe_fds_refcount of a signal register counts exactly its users, once it
\* started at zero.
RefcountIsHolders ==
  sane /\ alive => \A e \in SignalEntries : refcount[e] = Cardinality(Holders(e))

\* Without a user a signal register's file is closed.
ClosedWhenUnused ==
  sane => \A e \in SignalEntries :
            (Holders(e) = {} /\ fd_lock[e] = None) => fds[e] = Closed

\* Every open file of the context is in the table, so the destruction of the
\* context closes it: no order of calls, failed opens or initial contents of
\* the counters loses a descriptor.
NoLostFile == \A n \in Numbers : file[n] # None => alive /\ fds[file[n]] = n

\* close() is never applied to a number that the kernel gave to another file
\* meanwhile: whatever the counter says, an entry is closed at most once.
ClosesOwnFile ==
  [][\A t \in Threads :
       pc[t] = "close" /\ pc'[t] = "clear" => file[fds[entry[t]]] = entry[t]]_vars
=============================================================================
