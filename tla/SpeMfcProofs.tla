---------------------------- MODULE SpeMfcProofs ----------------------------
(***************************************************************************)
(* Proofs about SpeMfc, for any threads, tags, masks and queue.            *)
(*                                                                         *)
(* The lock makes the five stores of a command, and the query mask and the *)
(* status, one thread's.  Every command under way has its tag in           *)
(* active_tagmask, also in the value a reader without the lock may still   *)
(* see, except for the commands of a thread that has not returned yet: so  *)
(* a thread that asks for every active tag asks for all of its own.        *)
(***************************************************************************)
EXTENDS SpeMfc, TLAPS

Critical == {"put_room", "put_store", "put_unlock", "read", "read_unlock"}
Reading == {"read_lock", "read", "read_unlock"}

Exclusion == \A t \in Threads : pc[t] \in Critical <=> lock = t

Issuing ==
  \A t \in Threads :
    /\ cmd[t].by = t /\ cmd[t].nr \in Nat
    /\ pc[t] \in {"put_lock", "put_room", "put_store"} => cmd[t] \in Command
    /\ pc[t] \in {"put_room", "put_store"} => cmd[t].tag \in active

Stores ==
  \A t \in Threads :
    /\ stored[t] # 0 => pc[t] = "put_store"
    /\ \A r \in Registers : r <= stored[t] => regs[r] = cmd[t]

Covered ==
  \A e \in queue :
    /\ TagOf(e) \in active
    /\ pc[e[Last].by] # "put_unlock" => TagOf(e) \in seen

Asked ==
  \A t \in Threads :
    every[t] /\ pc[t] \in Reading
      => \A e \in queue : e[Last].by = t => TagOf(e) \in mask[t]

Answered ==
  \A t \in Threads :
    /\ pc[t] = "read" => Prxy_QueryMask = mask[t]
    /\ pc[t] = "read_unlock" =>
         /\ \A e \in queue : TagOf(e) \notin tag_status[t]
         /\ behavior[t] # "SPE_TAG_IMMEDIATE" => tag_status[t] = mask[t]

IInv ==
  /\ TypeOK /\ Exclusion /\ Issuing /\ Stores
  /\ WholeCommands /\ Covered /\ Asked /\ Answered

-----------------------------------------------------------------------------
\* The parts of a command under way.
LEMMA EntryType ==
  ASSUME TypeOK, NEW e \in queue
  PROVE  /\ e \in [Registers -> Command]
         /\ TagOf(e) \in Tags /\ TagOf(e) \in AllTags /\ e[Last].by \in Threads
<1>1. e \in [Registers -> Command] BY DEF TypeOK
<1>2. e[4] \in Command /\ e[5] \in Command BY <1>1 DEF Registers
<1> QED BY <1>1, <1>2, MfcAssumption DEF TagOf, TagRegister, Last, Command

\* The command a thread is about to store.
LEMMA CommandType ==
  ASSUME TypeOK, Issuing, NEW t \in Threads, pc[t] \in {"put_lock", "put_room", "put_store"}
  PROVE  /\ cmd[t] \in Command /\ cmd[t].by = t
         /\ cmd[t].tag \in Tags /\ cmd[t].tag \in AllTags
<1>1. cmd[t] \in Command /\ cmd[t].by = t BY DEF Issuing
<1> QED BY <1>1, MfcAssumption DEF Command

\* No two threads are between lock and unlock.
LEMMA Alone ==
  ASSUME Exclusion, NEW t \in Threads, NEW u \in Threads,
         pc[t] \in Critical, pc[u] \in Critical
  PROVE  t = u
BY DEF Exclusion

LEMMA InitIInv == Init => IInv
<1> SUFFICES ASSUME Init PROVE IInv OBVIOUS
<1> USE MfcAssumption
<1>1. TypeOK
  <2>1. cmd \in [Threads -> Command \cup {NoCommand(t) : t \in Threads}] BY DEF Init
  <2>2. active \subseteq AllTags BY DEF Init
  <2> QED BY <2>1, <2>2 DEF Init, TypeOK, PC, Behaviors, Last
<1>2. Exclusion BY DEF Init, Exclusion, Critical
<1>3. Issuing BY DEF Init, Issuing, NoCommand
<1>4. Stores BY DEF Init, Stores, Registers
<1>5. WholeCommands /\ Covered /\ Asked BY DEF Init, WholeCommands, Covered, Asked
<1>6. Answered BY DEF Init, Answered
<1> QED BY <1>1, <1>2, <1>3, <1>4, <1>5, <1>6 DEF IInv

LEMMA PutStep ==
  ASSUME IInv, NEW t \in Threads, NEW tag \in Tags, Put(t, tag)
  PROVE  IInv'
<1> USE MfcAssumption DEF Put, Goto, mfc, mask_state, read_state, IInv
<1> DEFINE new == [by |-> t, nr |-> cmd[t].nr + 1, tag |-> tag]
<1>a. cmd' = [cmd EXCEPT ![t] = new] /\ cmd'[t] = new BY DEF TypeOK
<1>b. new \in Command /\ new.by = t /\ new.nr \in Nat /\ cmd' = [cmd EXCEPT ![t] = new]
  BY <1>a DEF Issuing, Command
<1> HIDE DEF new
<1>1. TypeOK'
  <2>1. cmd' \in [Threads -> Command \cup {NoCommand(u) : u \in Threads}]
    BY <1>b DEF TypeOK
  <2>2. pc' \in [Threads -> PC] BY DEF TypeOK, PC
  <2> QED BY <2>1, <2>2 DEF TypeOK
<1>2. Exclusion' BY DEF Exclusion, TypeOK, Critical, Lock, Unlock
<1>3. Issuing'
  <2>1. cmd'[t] \in Command /\ cmd'[t].by = t /\ cmd'[t].nr \in Nat
    BY <1>a, <1>b
  <2>2. ASSUME NEW u \in Threads, u # t
        PROVE  cmd'[u] = cmd[u] /\ pc'[u] = pc[u]
    BY <2>2 DEF TypeOK
  <2>3. pc'[t] = "put_lock" BY DEF TypeOK
  <2> QED BY <2>1, <2>2, <2>3 DEF Issuing
<1>4. Stores'
  <2>1. stored[t] = 0 BY DEF Stores
  <2>2. \A r \in Registers : ~ r <= stored[t] BY <2>1 DEF Registers
  <2>3. ASSUME NEW u \in Threads, u # t
        PROVE  cmd'[u] = cmd[u] /\ pc'[u] = pc[u]
    BY <2>3 DEF TypeOK
  <2> QED BY <2>1, <2>2, <2>3 DEF Stores
<1>5. WholeCommands' BY DEF WholeCommands
<1>6. Covered' BY DEF Covered, TypeOK, Exclusion, Critical, Unlock
<1>7. Asked' BY DEF Asked, TypeOK, Reading
<1>8. Answered' BY DEF Answered, TypeOK, Exclusion, Critical, Lock
<1> QED BY <1>1, <1>2, <1>3, <1>4, <1>5, <1>6, <1>7, <1>8

LEMMA PutLockStep ==
  ASSUME IInv, NEW t \in Threads, PutLock(t)
  PROVE  IInv'
<1> USE MfcAssumption DEF PutLock, Goto, mfc, mask_state, read_state, IInv
<1>1. TypeOK'
  <2>0. cmd[t].tag \in AllTags BY CommandType
  <2>1. active' \subseteq AllTags BY <2>0 DEF TypeOK
  <2>2. pc' \in [Threads -> PC] BY DEF TypeOK, PC
  <2> QED BY <2>1, <2>2 DEF TypeOK, Lock
<1>2. Exclusion' BY DEF Exclusion, TypeOK, Critical, Lock, Unlock
<1>3. Issuing' BY DEF Issuing, TypeOK
<1>4. Stores' BY DEF Stores, TypeOK, Exclusion, Critical
<1>5. WholeCommands' BY DEF WholeCommands
<1>6. Covered' BY DEF Covered, TypeOK, Exclusion, Critical, Unlock, Lock
<1>7. Asked' BY DEF Asked, TypeOK, Reading
<1>8. Answered' BY DEF Answered, TypeOK, Exclusion, Critical, Lock
<1> QED BY <1>1, <1>2, <1>3, <1>4, <1>5, <1>6, <1>7, <1>8

LEMMA PutRoomStep ==
  ASSUME IInv, NEW t \in Threads, PutRoom(t)
  PROVE  IInv'
<1> USE MfcAssumption DEF PutRoom, Goto, mfc, mask_state, read_state, IInv
<1>1. TypeOK' BY DEF TypeOK, PC, Behaviors, Lock, Unlock
<1>2. Exclusion' BY DEF Exclusion, TypeOK, Critical, Lock, Unlock
<1>3. Issuing' BY DEF Issuing, TypeOK
<1>4. Stores' BY DEF Stores, TypeOK, Exclusion, Critical
<1>5. WholeCommands' BY DEF WholeCommands
<1>6. Covered' BY DEF Covered, TypeOK, Exclusion, Critical, Unlock
<1>7. Asked' BY DEF Asked, TypeOK, Reading
<1>8. Answered' BY DEF Answered, TypeOK, Exclusion, Critical, Lock
<1> QED BY <1>1, <1>2, <1>3, <1>4, <1>5, <1>6, <1>7, <1>8

LEMMA PutStoreStep ==
  ASSUME IInv, NEW t \in Threads, PutStore(t)
  PROVE  IInv'
<1> USE MfcAssumption DEF PutStore, Goto, mfc, mask_state, read_state, IInv
<1>a. stored[t] \in Nat /\ stored[t] + 1 \in Registers /\ stored[t] + 1 \in 0 .. Last - 1
  BY DEF TypeOK, Registers, Last
<1>1. TypeOK'
  <2>1. stored' \in [Threads -> 0 .. Last - 1] BY <1>a DEF TypeOK, Last
  <2>2. regs' \in [Registers -> Command \cup {None}] BY <1>a, CommandType DEF TypeOK
  <2> QED BY <2>1, <2>2 DEF TypeOK
<1>2. Exclusion' BY DEF Exclusion, TypeOK, Critical, Lock, Unlock
<1>3. Issuing' BY DEF Issuing, TypeOK
<1>4. Stores'
  <2>1. ASSUME NEW u \in Threads, u # t
        PROVE  stored'[u] = 0
    BY <2>1, Alone DEF TypeOK, Stores, Critical
  <2>2. ASSUME NEW r \in Registers, r <= stored'[t]
        PROVE  regs'[r] = cmd[t]
    <3>1. stored'[t] = stored[t] + 1 BY DEF TypeOK
    <3>2. CASE r = stored[t] + 1 BY <3>2 DEF TypeOK
    <3>3. CASE r # stored[t] + 1
      <4>1. r <= stored[t] BY <1>a, <2>2, <3>1, <3>3 DEF Registers
      <4>2. regs[r] = cmd[t] BY <4>1 DEF Stores
      <4> QED BY <4>2, <3>3 DEF TypeOK
    <3> QED BY <3>2, <3>3
  <2>3. \A r \in Registers : ~ r <= 0 BY DEF Registers
  <2> QED BY <2>1, <2>2, <2>3 DEF Stores
<1>5. WholeCommands' BY DEF WholeCommands
<1>6. Covered' BY DEF Covered, TypeOK, Exclusion, Critical, Unlock
<1>7. Asked' BY DEF Asked, TypeOK, Reading
<1>8. Answered' BY DEF Answered, TypeOK, Exclusion, Critical, Lock
<1> QED BY <1>1, <1>2, <1>3, <1>4, <1>5, <1>6, <1>7, <1>8

LEMMA PutIssueStep ==
  ASSUME IInv, NEW t \in Threads, PutIssue(t)
  PROVE  IInv'
<1> USE MfcAssumption DEF PutIssue, Goto, mfc, mask_state, read_state, IInv
<1>a. cmd[t] \in Command /\ cmd[t].by = t BY CommandType
<1>b. ASSUME NEW r \in Registers PROVE regs'[r] = cmd[t]
  <2>1. stored[t] = 4 BY DEF TypeOK, Last
  <2>2. r # 5 => regs[r] = cmd[t] BY <2>1 DEF Stores, Registers
  <2> QED BY <2>2 DEF TypeOK, Last, Registers
<1>c. DOMAIN regs' = Registers /\ regs' = [r \in Registers |-> regs'[r]] BY DEF TypeOK
<1>d. regs' \in [Registers -> Command] BY <1>a, <1>b, <1>c
<1>e. regs'[Last] = cmd[t] /\ TagOf(regs') = cmd[t].tag
  BY <1>b DEF Last, Registers, TagOf, TagRegister
<1>1. TypeOK'
  <2>1. stored' \in [Threads -> 0 .. Last - 1] BY DEF TypeOK, Last
  <2>2. regs' \in [Registers -> Command \cup {None}] BY <1>d
  <2>3. queue' \subseteq [Registers -> Command] BY <1>d DEF TypeOK
  <2>4. pc' \in [Threads -> PC] BY DEF TypeOK, PC
  <2> QED BY <2>1, <2>2, <2>3, <2>4 DEF TypeOK
<1>2. Exclusion' BY DEF Exclusion, TypeOK, Critical, Lock, Unlock
<1>3. Issuing' BY DEF Issuing, TypeOK
<1>4. Stores'
  <2>1. ASSUME NEW u \in Threads PROVE stored'[u] = 0
    BY Alone DEF TypeOK, Stores, Critical
  <2>2. \A r \in Registers : ~ r <= 0 BY DEF Registers
  <2> QED BY <2>1, <2>2 DEF Stores
<1>5. WholeCommands'
  <2> SUFFICES ASSUME NEW e \in queue', NEW r \in Registers PROVE e[r] = e[Last]
    BY DEF WholeCommands
  <2>1. CASE e \in queue BY <2>1 DEF WholeCommands
  <2>2. CASE e = regs' BY <1>e, <1>b, <2>2
  <2> QED BY <2>1, <2>2
<1>6. Covered'
  <2> SUFFICES ASSUME NEW e \in queue'
               PROVE  /\ TagOf(e) \in active
                      /\ pc'[e[Last].by] # "put_unlock" => TagOf(e) \in seen
    BY DEF Covered
  <2>1. CASE e \in queue
    <3>1. pc[t] # "put_unlock" /\ pc'[t] = "put_unlock" BY DEF TypeOK
    <3>2. e[Last].by # t => pc'[e[Last].by] = pc[e[Last].by] BY EntryType, <2>1 DEF TypeOK
    <3> QED BY <2>1, <3>1, <3>2 DEF Covered
  <2>2. CASE e = regs'
    <3>1. TagOf(e) \in active BY <1>e, <2>2 DEF Issuing
    <3>2. pc'[e[Last].by] = "put_unlock" BY <1>a, <1>e, <2>2 DEF TypeOK
    <3> QED BY <3>1, <3>2
  <2> QED BY <2>1, <2>2
<1>7. Asked'
  <2> SUFFICES ASSUME NEW u \in Threads, every[u], pc'[u] \in Reading,
                      NEW e \in queue', e[Last].by = u
               PROVE  TagOf(e) \in mask[u]
    BY DEF Asked
  <2>1. u # t /\ pc'[u] = pc[u] BY DEF TypeOK, Reading
  <2>2. e # regs' BY <1>a, <1>e, <2>1
  <2> QED BY <2>1, <2>2 DEF Asked
<1>8. Answered'
  <2>1. ASSUME NEW u \in Threads, pc'[u] \in {"read", "read_unlock"} PROVE FALSE
    <3>1. u # t BY <2>1 DEF TypeOK
    <3>2. pc[u] = pc'[u] BY <3>1 DEF TypeOK
    <3> QED BY <2>1, <3>1, <3>2, Alone DEF Critical
  <2> QED BY <2>1 DEF Answered
<1> QED BY <1>1, <1>2, <1>3, <1>4, <1>5, <1>6, <1>7, <1>8

LEMMA PutRefusedStep ==
  ASSUME IInv, NEW t \in Threads, PutRefused(t)
  PROVE  IInv'
<1> USE MfcAssumption DEF PutRefused, Goto, mfc, mask_state, read_state, IInv
<1>1. TypeOK'
  <2>1. stored' \in [Threads -> 0 .. Last - 1] BY DEF TypeOK, Last
  <2>2. regs' \in [Registers -> Command \cup {None}]
    BY CommandType DEF TypeOK, Last, Registers
  <2> QED BY <2>1, <2>2 DEF TypeOK
<1>2. Exclusion' BY DEF Exclusion, TypeOK, Critical, Lock, Unlock
<1>3. Issuing' BY DEF Issuing, TypeOK
<1>4. Stores'
  <2>1. ASSUME NEW u \in Threads PROVE stored'[u] = 0
    BY Alone DEF TypeOK, Stores, Critical
  <2>2. \A r \in Registers : ~ r <= 0 BY DEF Registers
  <2> QED BY <2>1, <2>2 DEF Stores
<1>5. WholeCommands' BY DEF WholeCommands
<1>6. Covered' BY DEF Covered, TypeOK, Exclusion, Critical, Unlock
<1>7. Asked' BY DEF Asked, TypeOK, Reading
<1>8. Answered' BY DEF Answered, TypeOK, Exclusion, Critical, Lock
<1> QED BY <1>1, <1>2, <1>3, <1>4, <1>5, <1>6, <1>7, <1>8

LEMMA PutUnlockStep ==
  ASSUME IInv, NEW t \in Threads, PutUnlock(t)
  PROVE  IInv'
<1> USE MfcAssumption DEF PutUnlock, Goto, mfc, mask_state, read_state, IInv
<1>1. TypeOK' BY DEF TypeOK, PC, Behaviors, Lock, Unlock
<1>2. Exclusion' BY DEF Exclusion, TypeOK, Critical, Lock, Unlock
<1>3. Issuing' BY DEF Issuing, TypeOK
<1>4. Stores' BY DEF Stores, TypeOK, Exclusion, Critical
<1>5. WholeCommands' BY DEF WholeCommands
<1>6. Covered' BY DEF Covered, TypeOK, Exclusion, Critical, Unlock
<1>7. Asked' BY DEF Asked, TypeOK, Reading
<1>8. Answered' BY DEF Answered, TypeOK, Exclusion, Critical, Lock
<1> QED BY <1>1, <1>2, <1>3, <1>4, <1>5, <1>6, <1>7, <1>8

LEMMA TagStatusStep ==
  ASSUME IInv, NEW t \in Threads, NEW tags \in SUBSET Tags, NEW b \in Behaviors, TagStatus(t, tags, b)
  PROVE  IInv'
<1> USE MfcAssumption DEF TagStatus, Goto, mfc, mask_state, read_state, IInv
<1>1. TypeOK' BY DEF TypeOK, PC, Behaviors, Lock, Unlock
<1>2. Exclusion' BY DEF Exclusion, TypeOK, Critical, Lock, Unlock
<1>3. Issuing' BY DEF Issuing, TypeOK
<1>4. Stores' BY DEF Stores, TypeOK, Exclusion, Critical
<1>5. WholeCommands' BY DEF WholeCommands
<1>6. Covered' BY DEF Covered, TypeOK, Exclusion, Critical, Unlock
<1>7. Asked'
  <2> SUFFICES ASSUME NEW u \in Threads, every'[u], pc'[u] \in Reading,
                      NEW e \in queue, e[Last].by = u
               PROVE  TagOf(e) \in mask'[u]
    BY DEF Asked
  <2>1. CASE u # t BY <2>1 DEF TypeOK, Asked
  <2>2. CASE u = t
    <3>1. tags = {} BY <2>2 DEF TypeOK
    <3>2. mask'[t] \in {active, seen} BY <3>1 DEF TypeOK
    <3>3. TagOf(e) \in active /\ TagOf(e) \in seen BY <2>2 DEF Covered
    <3> QED BY <2>2, <3>2, <3>3
  <2> QED BY <2>1, <2>2
<1>8. Answered' BY DEF Answered, TypeOK, Exclusion, Critical, Lock
<1> QED BY <1>1, <1>2, <1>3, <1>4, <1>5, <1>6, <1>7, <1>8

LEMMA ReadLockStep ==
  ASSUME IInv, NEW t \in Threads, ReadLock(t)
  PROVE  IInv'
<1> USE MfcAssumption DEF ReadLock, Goto, mfc, mask_state, read_state, IInv
<1>1. TypeOK' BY DEF TypeOK, PC, Behaviors, Lock, Unlock
<1>2. Exclusion' BY DEF Exclusion, TypeOK, Critical, Lock, Unlock
<1>3. Issuing' BY DEF Issuing, TypeOK
<1>4. Stores' BY DEF Stores, TypeOK, Exclusion, Critical
<1>5. WholeCommands' BY DEF WholeCommands
<1>6. Covered' BY DEF Covered, TypeOK, Exclusion, Critical, Unlock, Lock
<1>7. Asked' BY DEF Asked, TypeOK, Reading
<1>8. Answered' BY DEF Answered, TypeOK, Exclusion, Critical, Lock
<1> QED BY <1>1, <1>2, <1>3, <1>4, <1>5, <1>6, <1>7, <1>8

LEMMA ReadStep ==
  ASSUME IInv, NEW t \in Threads, Read(t)
  PROVE  IInv'
<1> USE MfcAssumption DEF Read, Goto, mfc, mask_state, read_state, IInv
<1> DEFINE done == {tag \in Prxy_QueryMask : Pending({tag}) = {}}
<1>a. ASSUME NEW e \in queue PROVE TagOf(e) \notin done BY DEF Pending
<1>b. active' = (active \ done) \cup (done \ active) OBVIOUS
<1>c. /\ tag_status' = [tag_status EXCEPT ![t] = done]
      /\ pc' = [pc EXCEPT ![t] = IF behavior[t] = "SPE_TAG_IMMEDIATE" \/ done = mask[t]
                                    THEN "read_unlock" ELSE "read"]
  OBVIOUS
<1>d. done \subseteq AllTags BY DEF TypeOK
<1> HIDE DEF done
<1>1. TypeOK' BY DEF TypeOK, PC, Behaviors, Lock, Unlock
<1>2. Exclusion' BY DEF Exclusion, TypeOK, Critical, Lock, Unlock
<1>3. Issuing'
  <2>1. ASSUME NEW u \in Threads
        PROVE  /\ pc'[u] \notin {"put_room", "put_store"}
               /\ pc'[u] = "put_lock" => pc[u] = "put_lock"
    <3>1. u # t => pc'[u] = pc[u] BY DEF TypeOK
    <3>2. pc'[t] \in {"read", "read_unlock"} BY <1>c DEF TypeOK
    <3>3. u # t => pc[u] \notin {"put_room", "put_store"} BY Alone DEF Critical
    <3> QED BY <3>1, <3>2, <3>3
  <2> QED BY <2>1 DEF Issuing
<1>4. Stores' BY DEF Stores, TypeOK, Exclusion, Critical
<1>5. WholeCommands' BY DEF WholeCommands
<1>6. Covered'
  <2>1. ASSUME NEW e \in queue PROVE TagOf(e) \in active'
    <3>1. TagOf(e) \in active BY DEF Covered
    <3> QED BY <1>a, <1>b, <3>1
  <2>2. \A u \in Threads : pc'[u] = "put_unlock" <=> pc[u] = "put_unlock"
    BY DEF TypeOK
  <2>3. \A e \in queue : e[Last].by \in Threads BY EntryType
  <2> QED BY <2>1, <2>2, <2>3 DEF Covered
<1>7. Asked' BY DEF Asked, TypeOK, Reading
<1>8. Answered'
  <2> SUFFICES ASSUME NEW u \in Threads
               PROVE  /\ pc'[u] = "read" => Prxy_QueryMask = mask[u]
                      /\ pc'[u] = "read_unlock" =>
                           /\ \A e \in queue : TagOf(e) \notin tag_status'[u]
                           /\ behavior[u] # "SPE_TAG_IMMEDIATE"
                                => tag_status'[u] = mask[u]
    BY DEF Answered
  <2>1. CASE u # t
    <3>1. pc'[u] = pc[u] /\ tag_status'[u] = tag_status[u] BY <2>1 DEF TypeOK
    <3> QED BY <3>1 DEF Answered
  <2>2. CASE u = t
    <3>1. Prxy_QueryMask = mask[t] BY DEF Answered
    <3>2. tag_status'[t] = done BY <1>c DEF TypeOK
    <3>3. \A e \in queue : TagOf(e) \notin done BY <1>a
    <3>4. pc'[t] = "read_unlock" => behavior[t] = "SPE_TAG_IMMEDIATE" \/ done = mask[t]
      BY <1>c DEF TypeOK
    <3> QED BY <2>2, <3>1, <3>2, <3>3, <3>4
  <2> QED BY <2>1, <2>2
<1> QED BY <1>1, <1>2, <1>3, <1>4, <1>5, <1>6, <1>7, <1>8

LEMMA ReadUnlockStep ==
  ASSUME IInv, NEW t \in Threads, ReadUnlock(t)
  PROVE  IInv'
<1> USE MfcAssumption DEF ReadUnlock, Goto, mfc, mask_state, read_state, IInv
<1>1. TypeOK' BY DEF TypeOK, PC, Behaviors, Lock, Unlock
<1>2. Exclusion' BY DEF Exclusion, TypeOK, Critical, Lock, Unlock
<1>3. Issuing' BY DEF Issuing, TypeOK
<1>4. Stores' BY DEF Stores, TypeOK, Exclusion, Critical
<1>5. WholeCommands' BY DEF WholeCommands
<1>6. Covered' BY DEF Covered, TypeOK, Exclusion, Critical, Unlock
<1>7. Asked' BY DEF Asked, TypeOK, Reading
<1>8. Answered' BY DEF Answered, TypeOK, Exclusion, Critical, Lock
<1> QED BY <1>1, <1>2, <1>3, <1>4, <1>5, <1>6, <1>7, <1>8

LEMMA CompleteStep ==
  ASSUME IInv, NEW entry \in queue, Complete(entry)
  PROVE  IInv'
<1> USE MfcAssumption DEF Complete, Goto, mfc, mask_state, read_state, IInv
<1>1. TypeOK' BY DEF TypeOK, PC, Behaviors, Lock, Unlock
<1>2. Exclusion' BY DEF Exclusion, TypeOK, Critical, Lock, Unlock
<1>3. Issuing' BY DEF Issuing, TypeOK
<1>4. Stores' BY DEF Stores, TypeOK, Exclusion, Critical
<1>5. WholeCommands' BY DEF WholeCommands
<1>6. Covered' BY DEF Covered, TypeOK, Exclusion, Critical, Unlock
<1>7. Asked' BY DEF Asked, TypeOK, Reading
<1>8. Answered' BY DEF Answered, TypeOK, Exclusion, Critical, Lock
<1> QED BY <1>1, <1>2, <1>3, <1>4, <1>5, <1>6, <1>7, <1>8

LEMMA NextIInv ==
  ASSUME IInv, [Next]_vars
  PROVE  IInv'
<1>1. ASSUME NEW t \in Threads, NEW tag \in Tags, Put(t, tag) PROVE IInv'
  BY <1>1, PutStep
<1>2. ASSUME NEW t \in Threads, NEW tags \in SUBSET Tags, NEW b \in Behaviors,
             TagStatus(t, tags, b)
      PROVE  IInv'
  BY <1>2, TagStatusStep
<1>3. ASSUME NEW t \in Threads, Step(t) PROVE IInv'
  BY <1>3, PutLockStep, PutRoomStep, PutStoreStep, PutIssueStep, PutRefusedStep,
     PutUnlockStep, ReadLockStep, ReadStep, ReadUnlockStep DEF Step
<1>4. ASSUME NEW entry \in queue, Complete(entry) PROVE IInv'
  BY <1>4, CompleteStep
<1>5. ASSUME UNCHANGED vars PROVE IInv'
  BY <1>5 DEF vars, mfc, mask_state, read_state, IInv, TypeOK, Exclusion, Issuing, Stores,
     WholeCommands, Covered, Asked, Answered, Critical, Reading, TagOf
<1> QED BY <1>1, <1>2, <1>3, <1>4, <1>5 DEF Next

-----------------------------------------------------------------------------
\* The lock of FD_MFC keeps the registers one thread's from its first store to
\* the status it reads, and active_tagmask covers every command under way
\* (issue_mfc_command and the readers of the tag status in dma.c).
THEOREM Invariance == Spec => []IInv
<1>1. IInv /\ [Next]_vars => IInv' BY NextIInv
<1> QED BY InitIInv, <1>1, PTL DEF Spec

\* Every variable of the proxy DMA has its type: the masks stay within the bits
\* of active_tagmask, and what the MFC executes is a command (dma.c).
THEOREM TypeCorrect == Spec => []TypeOK
<1>1. IInv => TypeOK BY DEF IInv
<1> QED BY <1>1, Invariance, PTL

\* Whatever the threads do, and however often the MFC refuses: no command it
\* executes is made of the stores of two (issue_mfc_command).
THEOREM WholeCommandsHolds == Spec => []WholeCommands
<1>1. IInv => WholeCommands BY DEF IInv
<1> QED BY <1>1, Invariance, PTL

\* A tag that _base_spe_mfcio_tag_status_read reports has no command under way,
\* and who waits for every active tag waits for all of his own commands.
THEOREM ReportsCompletedHolds == Spec => []ReportsCompleted
<1>1. IInv => ReportsCompleted
  <2> SUFFICES ASSUME IInv, NEW t \in Threads, pc[t] = "read_unlock"
               PROVE  /\ Pending(tag_status[t]) = {}
                      /\ every[t] /\ behavior[t] # "SPE_TAG_IMMEDIATE"
                           => \A entry \in queue : entry[Last].by # t
    BY DEF ReportsCompleted
  <2>1. \A e \in queue : TagOf(e) \notin tag_status[t] BY DEF IInv, Answered
  <2>2. behavior[t] # "SPE_TAG_IMMEDIATE" => tag_status[t] = mask[t]
    BY DEF IInv, Answered
  <2>3. every[t] => \A e \in queue : e[Last].by = t => TagOf(e) \in mask[t]
    BY DEF IInv, Asked, Reading
  <2>4. Pending(tag_status[t]) = {} BY <2>1 DEF Pending
  <2> QED BY <2>1, <2>2, <2>3, <2>4
<1> QED BY <1>1, Invariance, PTL
=============================================================================
