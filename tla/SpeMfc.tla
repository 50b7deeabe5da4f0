------------------------------- MODULE SpeMfc -------------------------------
(***************************************************************************)
(* Proxy DMA of a context whose problem state is mapped (SPE_MAP_PS):      *)
(* issue_mfc_command and the readers of the tag status                     *)
(* (src/spebase/dma.c).  Threads of the application share the registers    *)
(* that take a command apart into five stores, the query mask, the tag     *)
(* status and active_tagmask, under the lock of FD_MFC.                    *)
(*                                                                         *)
(* The MFC is external: it completes queued commands in any order, and     *)
(* refuses some.  Put and get, with and without barrier or fence, differ   *)
(* only in the command word.  Masks are sets of tags.                      *)
(***************************************************************************)
EXTENDS Integers, FiniteSets

CONSTANTS
  Threads,
  Tags,         \* tags the application uses
  AllTags,      \* bits of active_tagmask
  InitialMasks, \* what malloc() leaves in active_tagmask
  QueueDepth,   \* entries of the proxy command queue
  MaxCommands,  \* bound: commands of one thread
  None

ASSUME MfcAssumption ==
  /\ None \notin Threads
  /\ Tags \subseteq 0 .. 15 /\ Tags \subseteq AllTags
  /\ InitialMasks \subseteq SUBSET AllTags
  /\ QueueDepth \in Nat \ {0} /\ MaxCommands \in Nat

\* The stores that make a command; the last one issues it.
Registers == 1 .. 5
TagRegister == 4 \* MFC_Size_Tag
Last == 5        \* MFC_ClassID_CMD

Behaviors == {"SPE_TAG_ALL", "SPE_TAG_ANY", "SPE_TAG_IMMEDIATE"}

VARIABLES
  lock,         \* owner of fd_lock[FD_MFC]
  active,       \* active_tagmask
  seen,         \* active_tagmask as a thread without the lock may still see it
  regs,         \* the command whose part each register holds
  queue,        \* commands the MFC has not completed
  Prxy_QueryMask,
  pc,
  cmd,          \* the command a thread issues, or issued last
  stored,       \* registers it has written
  mask, behavior, tag_status,
  every         \* history: the caller passed the mask 0

mfc == <<regs, queue, Prxy_QueryMask>>
mask_state == <<active, seen>>
read_state == <<mask, behavior, tag_status, every>>
vars == <<lock, mask_state, mfc, pc, cmd, stored, read_state>>

Command == [by : Threads, nr : Nat, tag : Tags]
NoCommand(t) == [by |-> t, nr |-> 0, tag |-> None]

Init ==
  /\ lock = None
  /\ active \in InitialMasks /\ seen = active
  /\ regs = [r \in Registers |-> None]
  /\ queue = {} /\ Prxy_QueryMask = {}
  /\ pc = [t \in Threads |-> "idle"]
  /\ cmd = [t \in Threads |-> NoCommand(t)]
  /\ stored = [t \in Threads |-> 0]
  /\ mask = [t \in Threads |-> {}]
  /\ behavior = [t \in Threads |-> "SPE_TAG_ALL"]
  /\ tag_status = [t \in Threads |-> {}]
  /\ every = [t \in Threads |-> FALSE]

-----------------------------------------------------------------------------
Goto(t, label) == pc' = [pc EXCEPT ![t] = label]

\* The lock orders the stores to active_tagmask for whoever takes it; a reader
\* without it may see the value from before the critical section.
Lock(t) == lock = None /\ lock' = t
Unlock == lock' = None /\ seen' = active

TagOf(entry) == entry[TagRegister].tag
Pending(tags) == {entry \in queue : TagOf(entry) \in tags}

-----------------------------------------------------------------------------
(* issue_mfc_command *)

Put(t, tag) ==
  /\ pc[t] = "idle" /\ cmd[t].nr < MaxCommands
  /\ cmd' = [cmd EXCEPT ![t] = [by |-> t, nr |-> @.nr + 1, tag |-> tag]]
  /\ Goto(t, "put_lock")
  /\ UNCHANGED <<lock, mask_state, mfc, stored, read_state>>

\* Mutation: the stores are not protected.
PutLock_Never(t) ==
  /\ pc[t] = "put_lock"
  /\ active' = active \cup {cmd[t].tag}
  /\ Goto(t, "put_room")
  /\ UNCHANGED <<lock, seen, mfc, cmd, stored, read_state>>

\* Mutation: the tag is not noted.
PutLock_NotActive(t) ==
  /\ pc[t] = "put_lock" /\ Lock(t)
  /\ Goto(t, "put_room")
  /\ UNCHANGED <<mask_state, mfc, cmd, stored, read_state>>

PutLock(t) ==
  /\ pc[t] = "put_lock" /\ Lock(t)
  /\ active' = active \cup {cmd[t].tag}
  /\ Goto(t, "put_room")
  /\ UNCHANGED <<seen, mfc, cmd, stored, read_state>>

\* Spins until the queue has room.
PutRoom(t) ==
  /\ pc[t] = "put_room" /\ Cardinality(queue) < QueueDepth
  /\ Goto(t, "put_store")
  /\ UNCHANGED <<lock, mask_state, mfc, cmd, stored, read_state>>

PutStore(t) ==
  /\ pc[t] = "put_store" /\ stored[t] + 1 < Last
  /\ stored' = [stored EXCEPT ![t] = @ + 1]
  /\ regs' = [regs EXCEPT ![stored[t] + 1] = cmd[t]]
  /\ UNCHANGED <<lock, mask_state, queue, Prxy_QueryMask, pc, cmd, read_state>>

\* The last store, and MFC_CMDStatus: the command was queued ...
PutIssue(t) ==
  /\ pc[t] = "put_store" /\ stored[t] + 1 = Last
  /\ regs' = [regs EXCEPT ![Last] = cmd[t]]
  /\ queue' = queue \cup {regs'}
  /\ stored' = [stored EXCEPT ![t] = 0]
  /\ Goto(t, "put_unlock")
  /\ UNCHANGED <<lock, mask_state, Prxy_QueryMask, cmd, read_state>>

\* ... or refused, and is stored again.
PutRefused(t) ==
  /\ pc[t] = "put_store" /\ stored[t] + 1 = Last
  /\ regs' = [regs EXCEPT ![Last] = cmd[t]]
  /\ stored' = [stored EXCEPT ![t] = 0]
  /\ UNCHANGED <<lock, mask_state, queue, Prxy_QueryMask, pc, cmd, read_state>>

PutUnlock(t) ==
  /\ pc[t] = "put_unlock" /\ Unlock
  /\ Goto(t, "idle")
  /\ UNCHANGED <<active, mfc, cmd, stored, read_state>>

-----------------------------------------------------------------------------
(* _base_spe_mfcio_tag_status_read *)

\* With the mask 0 the caller asks for every active tag: read without the lock.
TagStatus(t, tags, b) ==
  /\ pc[t] = "idle"
  /\ \E m \in IF tags = {} THEN {active, seen} ELSE {tags} :
       mask' = [mask EXCEPT ![t] = m]
  /\ every' = [every EXCEPT ![t] = tags = {}]
  /\ behavior' = [behavior EXCEPT ![t] = b]
  /\ Goto(t, "read_lock")
  /\ UNCHANGED <<lock, mask_state, mfc, cmd, stored, tag_status>>

\* Mutation: the query is not protected.
ReadLock_Never(t) ==
  /\ pc[t] = "read_lock"
  /\ Prxy_QueryMask' = mask[t]
  /\ Goto(t, "read")
  /\ UNCHANGED <<lock, mask_state, regs, queue, cmd, stored, read_state>>

ReadLock(t) ==
  /\ pc[t] = "read_lock" /\ Lock(t)
  /\ Prxy_QueryMask' = mask[t]
  /\ Goto(t, "read")
  /\ UNCHANGED <<mask_state, regs, queue, cmd, stored, read_state>>

\* spe_read_tag_status_block, for ANY as well as for ALL, goes on until every
\* tag of the mask is reported; spe_read_tag_status_noblock looks once.
Read(t) ==
  LET done == {tag \in Prxy_QueryMask : Pending({tag}) = {}} IN
  /\ pc[t] = "read"
  /\ tag_status' = [tag_status EXCEPT ![t] = done]
  /\ active' = (active \ done) \cup (done \ active)
  /\ Goto(t, IF behavior[t] = "SPE_TAG_IMMEDIATE" \/ done = mask[t]
               THEN "read_unlock" ELSE "read")
  /\ UNCHANGED <<lock, seen, mfc, cmd, stored, mask, behavior, every>>

ReadUnlock(t) ==
  /\ pc[t] = "read_unlock" /\ Unlock
  /\ Goto(t, "idle")
  /\ mask' = [mask EXCEPT ![t] = {}]
  /\ behavior' = [behavior EXCEPT ![t] = "SPE_TAG_ALL"]
  /\ tag_status' = [tag_status EXCEPT ![t] = {}]
  /\ every' = [every EXCEPT ![t] = FALSE]
  /\ UNCHANGED <<active, mfc, cmd, stored>>

-----------------------------------------------------------------------------
\* The MFC completes a command.
Complete(entry) ==
  /\ entry \in queue
  /\ queue' = queue \ {entry}
  /\ UNCHANGED <<lock, mask_state, regs, Prxy_QueryMask, pc, cmd, stored, read_state>>

Step(t) ==
  \/ PutLock(t) \/ PutRoom(t) \/ PutStore(t) \/ PutIssue(t) \/ PutRefused(t)
  \/ PutUnlock(t) \/ ReadLock(t) \/ Read(t) \/ ReadUnlock(t)

Next ==
  \/ \E t \in Threads :
       \/ \E tag \in Tags : Put(t, tag)
       \/ \E tags \in SUBSET Tags, b \in Behaviors : TagStatus(t, tags, b)
       \/ Step(t)
  \/ \E entry \in queue : Complete(entry)

Spec == Init /\ [][Next]_vars

\* The MFC completes every command and does not refuse one for ever; a mutex
\* that is released again and again is obtained.
FairSpec ==
  /\ Spec
  /\ \A t \in Threads : SF_vars(Step(t)) /\ SF_vars(PutIssue(t))
  /\ WF_vars(\E entry \in queue : Complete(entry))

-----------------------------------------------------------------------------
(* Properties *)

PC == {"idle", "put_lock", "put_room", "put_store", "put_unlock",
       "read_lock", "read", "read_unlock"}

\* Every variable has its type.
TypeOK ==
  /\ lock \in Threads \cup {None}
  /\ active \subseteq AllTags /\ seen \subseteq AllTags
  /\ regs \in [Registers -> Command \cup {None}]
  /\ queue \subseteq [Registers -> Command]
  /\ Prxy_QueryMask \subseteq AllTags
  /\ pc \in [Threads -> PC]
  /\ cmd \in [Threads -> Command \cup {NoCommand(t) : t \in Threads}]
  /\ stored \in [Threads -> 0 .. Last - 1]
  /\ mask \in [Threads -> SUBSET AllTags]
  /\ behavior \in [Threads -> Behaviors]
  /\ tag_status \in [Threads -> SUBSET AllTags]
  /\ every \in [Threads -> BOOLEAN]

\* The MFC never executes a command made of the stores of two: however often
\* commands are refused and stored again, each is one thread's, whole.
WholeCommands == \A entry \in queue : \A r \in Registers : entry[r] = entry[Last]

\* What a call reports is true: no command with a tag it is about to report is
\* under way, and a call that asked for every active tag and was willing to wait
\* finds all the commands of its own thread completed, although active_tagmask
\* is read without the lock and updated with an exclusive or.
ReportsCompleted ==
  \A t \in Threads : pc[t] = "read_unlock" =>
    /\ Pending(tag_status[t]) = {}
    /\ every[t] /\ behavior[t] # "SPE_TAG_IMMEDIATE"
         => \A entry \in queue : entry[Last].by # t

\* Every call returns, also while another thread waits for its tags with the
\* lock held.
CallsReturn == \A t \in Threads : pc[t] # "idle" ~> pc[t] = "idle"
=============================================================================
