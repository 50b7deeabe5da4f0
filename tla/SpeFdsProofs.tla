---------------------------- MODULE SpeFdsProofs ----------------------------
(***************************************************************************)
(* Proofs about the table of SPUFS files.                                  *)
(*                                                                         *)
(* Unconditionally: the mutexes exclude each other, every open file is in  *)
(* the table, and an entry is closed at most once (TableInv).              *)
(*                                                                         *)
(* Of a sane context: the counter of a signal register is the number of    *)
(* its users, so nobody's descriptor is closed while it is used (UseInv).  *)
(***************************************************************************)
EXTENDS SpeFds, FiniteSetTheorems, TLAPS

CS == {"open", "close", "clear"}

\* A thread that works on an entry, and who owns the mutexes.
LockInv ==
  /\ \A t \in Threads : pc[t] # "idle" => entry[t] \in Entries /\ alive
  /\ \A t \in Threads : pc[t] \in CS => fd_lock[entry[t]] = t
  /\ \A e \in Entries : fd_lock[e] # None => pc[fd_lock[e]] \in CS /\ entry[fd_lock[e]] = e
  /\ \A t \in Threads :
       pc[t] \in {"close_lock", "close", "clear"} => entry[t] \in SignalEntries

\* The entry is being closed: its number is free, or another entry's already.
Clearing(e) == fd_lock[e] # None /\ pc[fd_lock[e]] = "clear"

\* The table and the kernel agree, except for an entry just being closed.
FileInv ==
  \A e \in Entries :
    /\ alive /\ fds[e] # Closed => file[fds[e]] = e \/ Clearing(e)
    /\ Clearing(e) => fds[e] # Closed /\ file[fds[e]] # e

TableInv == TypeOK /\ LockInv /\ NoLostFile /\ FileInv

Steps(t) ==
  \/ \E e \in Entries : Call(t, e)
  \/ OpenLock(t) \/ Open(t) \/ OpenReturn(t) \/ Use(t)
  \/ CloseLock(t) \/ Close(t) \/ CloseClear(t)

LEMMA TypeStep ==
  ASSUME TypeOK, LockInv, [Next]_vars
  PROVE  TypeOK'
<1> USE FdsAssumption DEF TypeOK, table, context
<1>1. CASE UNCHANGED vars
  BY <1>1 DEF vars
<1>2. ASSUME NEW t \in Threads, Steps(t) PROVE TypeOK'
  <2>1. CASE \E e \in Entries : Call(t, e)
    BY <2>1 DEF Call, Goto
  <2>2. CASE OpenLock(t) \/ CloseLock(t)
    BY <2>2 DEF OpenLock, CloseLock, Lock, Goto
  <2>3. CASE Open(t)
    <3>1. entry[t] \in Entries BY <2>3 DEF Open, LockInv
    <3>2. fds' \in [Entries -> Numbers \cup {Closed}] /\ file' \in [Numbers -> Entries \cup {None}]
      BY <2>3, <3>1 DEF Open
    <3>3. refcount' \in [Entries -> Int] BY <2>3, <3>1 DEF Open
    <3>4. sane' \in BOOLEAN BY <2>3 DEF Open
    <3> QED BY <2>3, <3>1, <3>2, <3>3, <3>4 DEF Open, Goto, Unlock
  <2>4. CASE OpenReturn(t)
    <3>1. entry[t] \in Entries BY <2>4 DEF OpenReturn, LockInv
    <3> QED BY <2>4, <3>1 DEF OpenReturn, Goto
  <2>5. CASE Use(t)
    BY <2>5 DEF Use, Goto, Return
  <2>6. CASE Close(t)
    <3>1. entry[t] \in Entries BY <2>6 DEF Close, LockInv
    <3> QED BY <2>6, <3>1 DEF Close, Goto, Unlock, Return
  <2>7. CASE CloseClear(t)
    <3>1. entry[t] \in Entries BY <2>7 DEF CloseClear, LockInv
    <3> QED BY <2>7, <3>1 DEF CloseClear, Goto, Unlock, Return
  <2> QED BY <1>2, <2>1, <2>2, <2>3, <2>4, <2>5, <2>6, <2>7 DEF Steps
<1>3. CASE Destroy
  BY <1>3 DEF Destroy
<1>4. CASE Create
  BY <1>4 DEF Create
<1> QED BY <1>1, <1>2, <1>3, <1>4 DEF Next, Steps

LEMMA LockStep ==
  ASSUME TypeOK, LockInv, [Next]_vars
  PROVE  LockInv'
<1> USE FdsAssumption DEF TypeOK, LockInv, CS, table, context
<1>1. CASE UNCHANGED vars
  BY <1>1 DEF vars
<1>2. ASSUME NEW t \in Threads, Steps(t) PROVE LockInv'
  <2>1. CASE \E e \in Entries : Call(t, e)
    BY <2>1 DEF Call, Goto
  <2>2. CASE OpenLock(t) \/ CloseLock(t)
    BY <2>2 DEF OpenLock, CloseLock, Lock, Goto
  <2>3. CASE Open(t)
    BY <2>3 DEF Open, Goto, Unlock
  <2>4. CASE OpenReturn(t)
    BY <2>4 DEF OpenReturn, Goto
  <2>5. CASE Use(t)
    BY <2>5 DEF Use, Goto, Return
  <2>6. CASE Close(t)
    BY <2>6 DEF Close, Goto, Unlock, Return
  <2>7. CASE CloseClear(t)
    BY <2>7 DEF CloseClear, Goto, Unlock, Return
  <2> QED BY <1>2, <2>1, <2>2, <2>3, <2>4, <2>5, <2>6, <2>7 DEF Steps
<1>3. CASE Destroy
  BY <1>3 DEF Destroy
<1>4. CASE Create
  BY <1>4 DEF Create
<1> QED BY <1>1, <1>2, <1>3, <1>4 DEF Next, Steps

LEMMA FileStep ==
  ASSUME TableInv, [Next]_vars
  PROVE  (NoLostFile /\ FileInv)'
<1> USE FdsAssumption DEF TableInv, TypeOK, LockInv, CS, NoLostFile, FileInv, Clearing, table, context
<1>1. CASE UNCHANGED vars
  BY <1>1 DEF vars
<1>2. ASSUME NEW t \in Threads, Steps(t) PROVE (NoLostFile /\ FileInv)'
  <2>1. CASE \E e \in Entries : Call(t, e)
    BY <2>1 DEF Call, Goto
  <2>2. CASE OpenLock(t) \/ CloseLock(t)
    BY <2>2 DEF OpenLock, CloseLock, Lock, Goto
  <2>3. CASE Open(t)
    <3>1. CASE UNCHANGED <<fds, file>>
      BY <2>3, <3>1 DEF Open, Goto, Unlock
    <3>2. ASSUME NEW n \in Numbers, file[n] = None, fds[entry[t]] = Closed,
                 file' = [file EXCEPT ![n] = entry[t]],
                 fds' = [fds EXCEPT ![entry[t]] = n]
          PROVE  (NoLostFile /\ FileInv)'
      <4>1. NoLostFile'
        BY <2>3, <3>2 DEF Open, Closed
      <4>2. FileInv'
        BY <2>3, <3>2 DEF Open, Goto, Unlock, Closed
      <4> QED BY <4>1, <4>2
    <3> QED BY <2>3, <3>1, <3>2 DEF Open
  <2>4. CASE OpenReturn(t)
    BY <2>4 DEF OpenReturn, Goto
  <2>5. CASE Use(t)
    BY <2>5 DEF Use, Goto, Return
  <2>6. CASE Close(t)
    <3>1. NoLostFile'
      BY <2>6 DEF Close
    <3>2. CASE pc'[t] = "clear"
      <4>1. /\ entry[t] \in Entries /\ fds[entry[t]] \in Numbers
            /\ file' = [file EXCEPT ![fds[entry[t]]] = None]
            /\ pc' = [pc EXCEPT ![t] = "clear"]
            /\ fd_lock[entry[t]] = t
            /\ UNCHANGED <<fd_lock, fds, alive>>
        BY <2>6, <3>2 DEF Close, Goto, Return
      <4>2. file[fds[entry[t]]] = entry[t]
        <5>1. alive /\ pc[t] = "close" /\ t # None BY <2>6 DEF Close
        <5>2. fds[entry[t]] # Closed BY <4>1, <2>6, <3>2 DEF Close, Goto, Return
        <5>3. ~Clearing(entry[t]) BY <4>1, <5>1
        <5> QED BY <4>1, <5>1, <5>2, <5>3
      <4>3. ASSUME NEW e \in Entries, e # entry[t]
            PROVE  /\ Clearing(e)' <=> Clearing(e)
                   /\ fds[e] \in Numbers /\ file[fds[e]] = e => file'[fds[e]] = e
                   /\ fds[e] \in Numbers /\ file[fds[e]] # e => file'[fds[e]] # e
        BY <4>1, <4>2, <4>3
      <4>4. /\ fds'[entry[t]] # Closed /\ file'[fds'[entry[t]]] = None
            /\ None # entry[t]
        BY <4>1 DEF Closed
      <4>5. ASSUME NEW e \in Entries
            PROVE  /\ alive' /\ fds'[e] # Closed => file'[fds'[e]] = e \/ Clearing(e)'
                   /\ Clearing(e)' => fds'[e] # Closed /\ file'[fds'[e]] # e
        <5>1. CASE e = entry[t]
          <6>1. Clearing(e)' BY <4>1, <5>1
          <6> QED BY <4>4, <5>1, <6>1
        <5>2. CASE e # entry[t]
          <6>1. fds'[e] = fds[e] /\ alive' = alive /\ fds[e] \in Numbers \cup {Closed}
            BY <4>1
          <6> QED BY <4>3, <5>2, <6>1
        <5> QED BY <5>1, <5>2
      <4> QED BY <3>1, <4>5
    <3>3. CASE pc'[t] # "clear"
      BY <2>6, <3>3 DEF Close, Goto, Unlock, Return
    <3> QED BY <3>1, <3>2, <3>3
  <2>7. CASE CloseClear(t)
    <3>1. NoLostFile'
      BY <2>7 DEF CloseClear
    <3>2. FileInv'
      BY <2>7 DEF CloseClear, Goto, Unlock, Return
    <3> QED BY <3>1, <3>2
  <2> QED BY <1>2, <2>1, <2>2, <2>3, <2>4, <2>5, <2>6, <2>7 DEF Steps
<1>3. CASE Destroy
  BY <1>3 DEF Destroy
<1>4. CASE Create
  BY <1>4 DEF Create
<1> QED BY <1>1, <1>2, <1>3, <1>4 DEF Next, Steps

\* The unconditional part: types, mutual exclusion, table and kernel.
THEOREM TableCorrect == Spec => []TableInv
<1>1. Init => TableInv
  <2> SUFFICES ASSUME Init PROVE TableInv
    OBVIOUS
  <2> USE FdsAssumption DEF Init
  <2>1. TypeOK BY DEF TypeOK
  <2>2. LockInv BY DEF LockInv, CS
  <2>3. NoLostFile BY DEF NoLostFile
  <2>4. FileInv BY DEF FileInv, Clearing
  <2> QED BY <2>1, <2>2, <2>3, <2>4 DEF TableInv
<1>2. TableInv /\ [Next]_vars => TableInv'
  BY TypeStep, LockStep, FileStep DEF TableInv
<1> QED BY <1>1, <1>2, PTL DEF Spec

\* Every variable keeps its type.
THEOREM FdsTypeCorrect == Spec => []TypeOK
<1>1. TableInv => TypeOK BY DEF TableInv
<1> QED BY <1>1, TableCorrect, PTL

\* No file is lost from the table, whatever fails and wherever the counters
\* start, so the destruction of the context closes all of them.
THEOREM NoLostFileHolds == Spec => []NoLostFile
<1>1. TableInv => NoLostFile BY DEF TableInv
<1> QED BY <1>1, TableCorrect, PTL

\* close() is applied to the entry's own file only.
THEOREM ClosesOwnFileHolds == Spec => ClosesOwnFile
<1>1. TableInv /\ [Next]_vars =>
        [\A t \in Threads :
           pc[t] = "close" /\ pc'[t] = "clear" => file[fds[entry[t]]] = entry[t]]_vars
  <2> SUFFICES ASSUME TableInv, Next, NEW t \in Threads, pc[t] = "close", pc'[t] = "clear"
               PROVE  file[fds[entry[t]]] = entry[t]
    OBVIOUS
  <2> USE FdsAssumption DEF TableInv, TypeOK, LockInv, CS, FileInv, Clearing
  <2>1. fds[entry[t]] # Closed
    <3>1. PICK u \in Threads : Steps(u)
      BY DEF Next, Steps, Destroy, Create
    <3>2. u = t /\ Close(t)
      BY <3>1 DEF Steps, Call, OpenLock, CloseLock, Lock, Open, OpenReturn, Use, Close,
                  CloseClear, Goto, Return
    <3> QED BY <3>2 DEF Close, Return, Goto
  <2> QED BY <2>1
<1> QED BY <1>1, TableCorrect, PTL DEF Spec, ClosesOwnFile

-----------------------------------------------------------------------------
(* The counters of a sane context *)

Counts == alive => \A e \in SignalEntries : refcount[e] = Cardinality(Holders(e))

\* Users of an entry have its file; without users it is closed, or being closed.
UseInv ==
  /\ Counts
  /\ \A e \in Entries : Holders(e) # {} => fds[e] # Closed /\ ~Clearing(e)
  /\ \A e \in SignalEntries : Holders(e) = {} => fds[e] = Closed \/ Clearing(e)
  /\ \A t \in Threads : pc[t] = "use" => fd[t] = fds[entry[t]]

LEMMA HoldersFinite ==
  ASSUME NEW e \in Entries
  PROVE  /\ IsFiniteSet(Holders(e))
         /\ Cardinality(Holders(e)) \in Nat
         /\ Cardinality(Holders(e)) = 0 <=> Holders(e) = {}
<1>1. IsFiniteSet(Holders(e)) BY FdsAssumption, FS_Subset DEF Holders
<1> QED BY <1>1, FS_CardinalityType, FS_EmptySet

\* A step that opens and closes nothing, and at most ends the use of a file
\* that is not given back.
LEMMA UseFrame ==
  ASSUME UseInv, UNCHANGED <<fds, refcount>>, alive' => alive,
         \A e \in Entries : /\ Holders(e)' \subseteq Holders(e)
                            /\ e \in SignalEntries => Holders(e)' = Holders(e)
                            /\ Clearing(e)' <=> Clearing(e),
         \A t \in Threads : pc'[t] = "use" => fd'[t] = fds[entry'[t]]
  PROVE  UseInv'
<1> USE FdsAssumption DEF UseInv
<1>1. Counts'
  BY DEF Counts
<1>2. \A e \in Entries : Holders(e)' # {} => fds'[e] # Closed /\ ~Clearing(e)'
  OBVIOUS
<1>3. \A e \in SignalEntries : Holders(e)' = {} => fds'[e] = Closed \/ Clearing(e)'
  OBVIOUS
<1> QED BY <1>1, <1>2, <1>3

LEMMA UseOpen ==
  ASSUME sane', TableInv, UseInv, NEW t \in Threads, Open(t),
         NEW en \in Entries, en = entry[t]
  PROVE  UseInv'
<1> USE FdsAssumption DEF TableInv, TypeOK, Closed
<1>1. en \in Entries /\ alive /\ alive' /\ fd_lock[en] = t /\ pc[t] = "open"
  BY DEF LockInv, CS, Open
<1>2. /\ pc' = [pc EXCEPT ![t] = "return"]
      /\ fd_lock' = [fd_lock EXCEPT ![en] = None]
      /\ UNCHANGED <<entry, fd>>
  BY DEF Open, Goto, Unlock
<1>3. /\ refcount' = [refcount EXCEPT ![en] = @ + 1]
      /\ fds'[en] # Closed
      /\ fds[en] # Closed => fds'[en] = fds[en]
      /\ \A e \in Entries : e # en => fds'[e] = fds[e]
  <2>1. CASE fds[en] # Closed
    BY <1>1, <2>1 DEF Open
  <2>2. CASE fds[en] = Closed
    <3>1. PICK n \in Numbers :
            /\ fds' = [fds EXCEPT ![en] = n]
            /\ refcount' = [refcount EXCEPT ![en] = IF n > 0 THEN @ + 1 ELSE @]
            /\ sane' = (sane /\ n > 0)
      BY <2>2 DEF Open
    <3>2. n > 0 BY <3>1
    <3> QED BY <1>1, <2>2, <3>1, <3>2
  <2> QED BY <2>1, <2>2
<1>4. /\ Holders(en)' = Holders(en) \cup {t}
      /\ t \notin Holders(en)
      /\ \A e \in Entries : e # en => Holders(e)' = Holders(e)
  <2>1. t \notin Holders(en)
    BY <1>1 DEF Holders
  <2>2. \A e \in Entries :
          Holders(e)' = IF e = en THEN Holders(e) \cup {t} ELSE Holders(e)
    BY <1>1, <1>2 DEF Holders
  <2> QED BY <1>1, <2>1, <2>2
<1>5. \A e \in Entries : Clearing(e)' <=> (e # en /\ Clearing(e))
  BY <1>1, <1>2 DEF Clearing, LockInv, CS
<1>6. Counts'
  <2> SUFFICES ASSUME NEW e \in SignalEntries
               PROVE  refcount'[e] = Cardinality(Holders(e)')
    BY DEF Counts
  <2>1. e \in Entries /\ refcount[e] = Cardinality(Holders(e))
    BY <1>1 DEF UseInv, Counts
  <2>2. CASE e = en
    <3>1. Cardinality(Holders(e) \cup {t}) = Cardinality(Holders(e)) + 1
      BY <1>4, <2>1, <2>2, HoldersFinite, FS_AddElement
    <3>2. Holders(e)' = Holders(e) \cup {t}
      BY <1>4, <2>2
    <3>3. refcount'[e] = refcount[e] + 1
      BY <1>3, <2>1, <2>2
    <3> QED BY <2>1, <3>1, <3>2, <3>3
  <2>3. CASE e # en
    BY <1>3, <1>4, <2>1, <2>3
  <2> QED BY <2>2, <2>3
<1>7. \A e \in Entries : Holders(e)' # {} => fds'[e] # Closed /\ ~Clearing(e)'
  BY <1>3, <1>4, <1>5 DEF UseInv
<1>8. \A e \in SignalEntries : Holders(e)' = {} => fds'[e] = Closed \/ Clearing(e)'
  BY <1>3, <1>4, <1>5 DEF UseInv
<1>9. \A u \in Threads : pc'[u] = "use" => fd'[u] = fds'[entry'[u]]
  <2> SUFFICES ASSUME NEW u \in Threads, pc'[u] = "use"
               PROVE  fd[u] = fds'[entry[u]]
    BY <1>2
  <2>1. pc[u] = "use" /\ u # t BY <1>2
  <2>2. entry[u] \in Entries /\ fd[u] = fds[entry[u]]
    BY <2>1 DEF UseInv, LockInv
  <2>3. fds[entry[u]] # Closed
    <3>1. u \in Holders(entry[u]) BY <2>1 DEF Holders
    <3> QED BY <2>2, <3>1 DEF UseInv
  <2> QED BY <1>3, <2>2, <2>3
<1> QED BY <1>6, <1>7, <1>8, <1>9 DEF UseInv

LEMMA UseClose ==
  ASSUME TableInv, UseInv, NEW t \in Threads, Close(t),
         NEW en \in Entries, en = entry[t]
  PROVE  UseInv'
<1> USE FdsAssumption DEF TableInv, TypeOK
<1>1. /\ en \in SignalEntries /\ en \in Entries
      /\ alive /\ fd_lock[en] = t /\ pc[t] = "close"
      /\ UNCHANGED <<fds, alive>>
  BY DEF LockInv, CS, Close, context
<1>2. /\ t \in Holders(en) /\ ~Clearing(en) /\ fds[en] # Closed
      /\ refcount[en] = Cardinality(Holders(en))
  <2>1. t \in Holders(en) BY <1>1 DEF Holders
  <2> QED BY <1>1, <2>1 DEF UseInv, Counts
<1>3. refcount[en] \in Nat /\ refcount[en] > 0
  BY <1>1, <1>2, HoldersFinite
<1>4. /\ refcount' = [refcount EXCEPT ![en] = @ - 1]
      /\ pc'[t] \in {"clear", "idle"}
      /\ refcount[en] = 1 => pc'[t] = "clear" /\ fd_lock' = fd_lock
      /\ refcount[en] # 1 => pc'[t] = "idle" /\ fd_lock' = [fd_lock EXCEPT ![en] = None]
      /\ \A u \in Threads : u # t => pc'[u] = pc[u] /\ entry'[u] = entry[u] /\ fd'[u] = fd[u]
      /\ pc'[t] = "clear" => entry' = entry
      /\ pc'[t] = "idle" => entry'[t] = None
  <2>1. CASE refcount[en] = 1
    BY <1>1, <1>2, <2>1 DEF Close, Goto
  <2>2. CASE refcount[en] # 1
    BY <1>1, <1>2, <1>3, <2>2 DEF Close, Goto, Return, Unlock
  <2> QED BY <2>1, <2>2
<1>5. \A e \in Entries : Holders(e)' = Holders(e) \ {t}
  BY <1>4 DEF Holders
<1>6. \A e \in Entries : e # en => Holders(e)' = Holders(e) /\ (Clearing(e)' <=> Clearing(e))
  <2>1. \A e \in Entries : e # en => t \notin Holders(e) BY DEF Holders
  <2>2. \A e \in Entries : e # en => fd_lock'[e] = fd_lock[e] /\ fd_lock[e] # t
    BY <1>1, <1>4 DEF LockInv
  <2>3. \A e \in Entries : e # en => (Clearing(e)' <=> Clearing(e))
    BY <1>4, <2>2 DEF Clearing
  <2>4. \A e \in Entries : e # en => Holders(e)' = Holders(e)
    <3> HIDE DEF TableInv, TypeOK
    <3> QED BY <1>5, <2>1
  <2> QED BY <2>3, <2>4
<1>7. Cardinality(Holders(en)') = Cardinality(Holders(en)) - 1
  BY <1>1, <1>2, <1>5, HoldersFinite, FS_RemoveElement
<1>8. Clearing(en)' <=> Holders(en)' = {}
  <2>1. Holders(en)' = Holders(en) \ {t} BY <1>1, <1>5
  <2>2. IsFiniteSet(Holders(en)')
    <3>1. IsFiniteSet(Holders(en)) BY HoldersFinite
    <3> QED BY <2>1, <3>1, FS_Subset
  <2>3. Cardinality(Holders(en)') = 0 <=> Holders(en)' = {} BY <2>2, FS_EmptySet
  <2>4. CASE refcount[en] = 1
    BY <1>1, <1>2, <1>4, <1>7, <2>3, <2>4 DEF Clearing
  <2>5. CASE refcount[en] # 1
    <3>1. Cardinality(Holders(en)') # 0 BY <1>2, <1>3, <1>7, <2>5
    <3> QED BY <1>1, <1>4, <2>3, <2>5, <3>1 DEF Clearing
  <2> QED BY <2>4, <2>5
<1>9. Counts'
  <2> SUFFICES ASSUME NEW e \in SignalEntries
               PROVE  refcount'[e] = Cardinality(Holders(e)')
    BY DEF Counts
  <2>1. refcount[e] = Cardinality(Holders(e)) /\ e \in Entries
    BY <1>1 DEF UseInv, Counts
  <2> QED BY <1>4, <1>6, <1>7, <2>1
<1>10. \A e \in Entries : Holders(e)' # {} => fds'[e] # Closed /\ ~Clearing(e)'
  BY <1>1, <1>2, <1>6, <1>8 DEF UseInv
<1>11. \A e \in SignalEntries : Holders(e)' = {} => fds'[e] = Closed \/ Clearing(e)'
  BY <1>1, <1>6, <1>8 DEF UseInv
<1>12. \A u \in Threads : pc'[u] = "use" => fd'[u] = fds'[entry'[u]]
  BY <1>1, <1>4 DEF UseInv
<1> QED BY <1>9, <1>10, <1>11, <1>12 DEF UseInv

LEMMA UseClear ==
  ASSUME TableInv, UseInv, NEW t \in Threads, CloseClear(t),
         NEW en \in Entries, en = entry[t]
  PROVE  UseInv'
<1> USE FdsAssumption DEF TableInv, TypeOK
<1>1. /\ en \in SignalEntries /\ en \in Entries
      /\ fd_lock[en] = t /\ pc[t] = "clear"
      /\ UNCHANGED <<refcount, alive>>
      /\ fds' = [fds EXCEPT ![en] = Closed]
      /\ fd_lock' = [fd_lock EXCEPT ![en] = None]
      /\ \A u \in Threads : u # t => pc'[u] = pc[u] /\ entry'[u] = entry[u] /\ fd'[u] = fd[u]
      /\ pc'[t] = "idle"
  BY DEF LockInv, CS, CloseClear, Goto, Return, Unlock, context
<1>2. Clearing(en) /\ Holders(en) = {}
  BY <1>1 DEF Clearing, UseInv
<1>3. \A e \in Entries : Holders(e)' = Holders(e)
  BY <1>1 DEF Holders
<1>4. \A e \in Entries : Clearing(e)' <=> e # en /\ Clearing(e)
  BY <1>1 DEF Clearing, LockInv
<1>5. Counts'
  BY <1>1, <1>3 DEF UseInv, Counts
<1>6. \A e \in Entries : Holders(e)' # {} => fds'[e] # Closed /\ ~Clearing(e)'
  BY <1>1, <1>2, <1>3, <1>4 DEF UseInv
<1>7. \A e \in SignalEntries : Holders(e)' = {} => fds'[e] = Closed \/ Clearing(e)'
  BY <1>1, <1>3, <1>4 DEF UseInv
<1>8. \A u \in Threads : pc'[u] = "use" => fd'[u] = fds'[entry'[u]]
  <2> SUFFICES ASSUME NEW u \in Threads, pc'[u] = "use"
               PROVE  fd'[u] = fds'[entry'[u]]
    OBVIOUS
  <2>1. u # t /\ pc[u] = "use" /\ entry'[u] = entry[u] /\ fd'[u] = fd[u] BY <1>1
  <2>2. u \in Holders(entry[u]) BY <2>1 DEF Holders
  <2>3. entry[u] # en BY <1>2, <2>2
  <2> QED BY <1>1, <2>1, <2>3 DEF UseInv, LockInv
<1> QED BY <1>5, <1>6, <1>7, <1>8 DEF UseInv

LEMMA UseStep ==
  ASSUME sane', sane => UseInv, TableInv, [Next]_vars
  PROVE  UseInv'
<1>0. ASSUME ~ Create PROVE sane
  BY <1>0 DEF vars, context, Next, Call, OpenLock, CloseLock, Lock, Open, OpenReturn,
              Use, Close, CloseClear, Destroy
<1> USE FdsAssumption DEF TableInv, TypeOK, table, context
<1>1. CASE UNCHANGED vars /\ ~ Create
  BY <1>0, <1>1 DEF vars, UseInv, Counts, Holders, Clearing
<1>2. ASSUME NEW t \in Threads, Steps(t), ~ Create PROVE UseInv'
  <2>0. UseInv BY <1>0, <1>2
  <2>1. CASE \E e \in Entries : Call(t, e)
    <3>1. \A e \in Entries : Holders(e)' = Holders(e) /\ (Clearing(e)' <=> Clearing(e))
      BY <2>0, <2>1 DEF Call, Goto, Holders, Clearing, LockInv, CS
    <3>2. \A u \in Threads : pc'[u] = "use" => fd'[u] = fds[entry'[u]]
      BY <2>0, <2>1 DEF Call, Goto, UseInv
    <3> QED BY <2>0, <2>1, <3>1, <3>2, UseFrame DEF Call
  <2>2. CASE OpenLock(t) \/ CloseLock(t)
    <3>1. \A e \in Entries : Holders(e)' = Holders(e)
      BY <2>0, <2>2 DEF OpenLock, CloseLock, Lock, Goto, Holders
    <3>a. /\ fd_lock[entry[t]] = None /\ pc[t] \in {"open_lock", "close_lock"}
          /\ fd_lock' = [fd_lock EXCEPT ![entry[t]] = t]
          /\ pc' \in {[pc EXCEPT ![t] = "open"], [pc EXCEPT ![t] = "close"]}
          /\ UNCHANGED <<fds, refcount, alive, entry, fd>>
      BY <2>2 DEF OpenLock, CloseLock, Lock, Goto
    <3>2. \A e \in Entries : Clearing(e)' <=> Clearing(e)
      <4> SUFFICES ASSUME NEW e \in Entries PROVE Clearing(e)' <=> Clearing(e)
        OBVIOUS
      <4>1. CASE e = entry[t]
        BY <3>a, <4>1 DEF Clearing
      <4>2. CASE e # entry[t]
        <5>1. fd_lock'[e] = fd_lock[e] /\ fd_lock[e] # t
          BY <3>a, <4>2 DEF LockInv, CS
        <5> QED BY <3>a, <5>1 DEF Clearing
      <4> QED BY <4>1, <4>2
    <3>3. \A u \in Threads : pc'[u] = "use" => fd'[u] = fds[entry'[u]]
      BY <2>0, <2>2 DEF OpenLock, CloseLock, Lock, Goto, UseInv
    <3> QED BY <2>0, <3>a, <3>1, <3>2, <3>3, UseFrame
  <2>3. CASE Open(t)
    <3>1. entry[t] \in Entries BY <2>0, <2>3 DEF Open, LockInv
    <3> QED BY <2>0, <2>3, <3>1, UseOpen
  <2>4. CASE OpenReturn(t)
    <3>1. \A e \in Entries : Holders(e)' = Holders(e)
      BY <2>0, <2>4 DEF OpenReturn, Goto, Holders
    <3>2. \A e \in Entries : Clearing(e)' <=> Clearing(e)
      BY <2>0, <2>4 DEF OpenReturn, Goto, Clearing
    <3>3. \A u \in Threads : pc'[u] = "use" => fd'[u] = fds[entry'[u]]
      BY <2>0, <2>4 DEF OpenReturn, Goto, UseInv
    <3> QED BY <2>0, <2>4, <3>1, <3>2, <3>3, UseFrame DEF OpenReturn
  <2>5. CASE Use(t)
    <3>1. \A e \in Entries : /\ Holders(e)' \subseteq Holders(e)
                             /\ e \in SignalEntries => Holders(e)' = Holders(e)
      BY <2>0, <2>5 DEF Use, Goto, Return, Holders
    <3>2. \A e \in Entries : Clearing(e)' <=> Clearing(e)
      BY <2>0, <2>5 DEF Use, Goto, Return, Clearing
    <3>3. \A u \in Threads : pc'[u] = "use" => fd'[u] = fds[entry'[u]]
      BY <2>0, <2>5 DEF Use, Goto, Return, UseInv
    <3> QED BY <2>0, <2>5, <3>1, <3>2, <3>3, UseFrame DEF Use
  <2>6. CASE Close(t)
    <3>1. entry[t] \in Entries BY <2>0, <2>6 DEF Close, LockInv
    <3> QED BY <2>0, <2>6, <3>1, UseClose
  <2>7. CASE CloseClear(t)
    <3>1. entry[t] \in Entries BY <2>0, <2>7 DEF CloseClear, LockInv
    <3> QED BY <2>0, <2>7, <3>1, UseClear
  <2> QED BY <1>2, <2>1, <2>2, <2>3, <2>4, <2>5, <2>6, <2>7 DEF Steps
<1>3. CASE Destroy /\ ~ Create
  <2>0. UseInv BY <1>0, <1>3
  <2>1. \A e \in Entries : Holders(e)' = Holders(e) /\ (Clearing(e)' <=> Clearing(e))
    BY <1>3 DEF Destroy, Holders, Clearing
  <2>2. \A u \in Threads : pc'[u] = "use" => fd'[u] = fds[entry'[u]]
    BY <1>3, <2>0 DEF Destroy, UseInv
  <2> QED BY <2>0, <1>3, <2>1, <2>2, UseFrame DEF Destroy
<1>4. CASE Create
  <2>1. \A t \in Threads : pc'[t] = "idle"
    BY <1>4 DEF Create, LockInv
  <2>2. \A e \in Entries : Holders(e)' = {}
    BY <2>1 DEF Holders
  <2>3. \A e \in Entries : refcount'[e] = 0 /\ fds'[e] = Closed /\ ~Clearing(e)'
    BY <1>4 DEF Create, Clearing
  <2> QED BY <2>1, <2>2, <2>3, FS_EmptySet DEF UseInv, Counts
<1> QED BY <1>1, <1>2, <1>3, <1>4 DEF Next, Steps

\* A sane context, in which the counters are right.
UseAlwaysInv == sane => UseInv

LEMMA UseAlways == Spec => [](TableInv /\ UseAlwaysInv)
<1>1. Init => UseAlwaysInv
  <2> SUFFICES ASSUME Init, sane PROVE UseInv
    BY DEF UseAlwaysInv
  <2>1. \A e \in Entries : Holders(e) = {}
    BY DEF Init, Holders
  <2>2. \A e \in Entries : refcount[e] = 0 /\ fds[e] = Closed /\ ~Clearing(e)
    BY DEF Init, Clearing
  <2>3. \A t \in Threads : pc[t] # "use"
    BY DEF Init
  <2> QED BY <2>1, <2>2, <2>3, FS_EmptySet, FdsAssumption DEF UseInv, Counts
<1>2. TableInv /\ UseAlwaysInv /\ [Next]_vars => UseAlwaysInv'
  BY UseStep DEF UseAlwaysInv
<1> QED BY <1>1, <1>2, TableCorrect, PTL DEF Spec

\* The counter of a signal register is the number of its users.
THEOREM RefcountIsHoldersHolds == Spec => []RefcountIsHolders
<1>1. UseAlwaysInv => RefcountIsHolders
  BY DEF UseAlwaysInv, UseInv, Counts, RefcountIsHolders
<1> QED BY <1>1, UseAlways, PTL

\* A descriptor that a call uses outside the mutex names the file of its entry.
THEOREM UsesOwnFileHolds == Spec => []SaneUsesOwnFile
<1>1. TableInv /\ UseAlwaysInv => SaneUsesOwnFile
  <2> SUFFICES ASSUME TableInv, UseInv, NEW t \in Threads, pc[t] = "use", fd[t] # Closed
               PROVE  file[fd[t]] = entry[t]
    BY DEF UsesOwnFile, SaneUsesOwnFile, UseAlwaysInv
  <2>1. entry[t] \in Entries /\ alive BY DEF TableInv, LockInv
  <2>2. t \in Holders(entry[t]) BY DEF Holders
  <2> QED BY <2>1, <2>2 DEF UseInv, TableInv, FileInv
<1> QED BY <1>1, UseAlways, PTL

\* The file of a signal register is closed when nobody uses it.
THEOREM ClosedWhenUnusedHolds == Spec => []ClosedWhenUnused
<1>1. UseAlwaysInv => ClosedWhenUnused
  BY FdsAssumption DEF UseInv, UseAlwaysInv, ClosedWhenUnused, Clearing
<1> QED BY <1>1, UseAlways, PTL
=============================================================================
