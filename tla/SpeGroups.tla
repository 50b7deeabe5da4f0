----------------------------- MODULE SpeGroups -----------------------------
(***************************************************************************)
(* Groups and threads of the libspe 1.2 API (src/libspe12/spethreads.c and *)
(* spe.c): the list of groups, the members of each group, and the life of  *)
(* a thread store from spe_create_thread to the spe_wait that frees it.    *)
(*                                                                         *)
(* grp_list.mutex protects the lists, so a critical section is one step;   *)
(* what the code reads or writes between two critical sections (the size   *)
(* check of spe_setup, deleteMe, the thread store itself) are steps of     *)
(* their own.  Several application threads call the API.  Allocation of    *)
(* list elements succeeds.  A thread store is freed but never reused.      *)
(***************************************************************************)
EXTENDS Naturals, Sequences, SequencesExt, FiniteSets

CONSTANTS
  Callers,      \* application threads
  Groups,       \* group stores that may be allocated
  SharedGroups, \* those the application creates with spe_create_group; the
                \* others come from spe_create_thread with SPE_DEF_GRP
  SpeThreads,   \* thread stores that may be allocated
  MaxMembers,   \* MAX_THREADS_PER_GROUP
  None

ASSUME GroupsAssumption ==
  /\ SharedGroups \subseteq Groups
  /\ MaxMembers \in Nat \ {0}
  /\ None \notin Groups \cup SpeThreads

VARIABLES
  list,      \* grp_list: the groups that can be found
  members,   \* grp_members of each group
  num,       \* numListSize of each group
  deleteMe,  \* deleteMe of each group
  groups,    \* group stores allocated so far
  store,     \* the life of each thread store
  context,   \* thread stores whose spectx exists
  group_id,  \* the group of each thread store
  pc,        \* where each caller is
  gid,       \* the group it works on
  tid        \* the thread it works on

lists == <<list, members, num>>
vars == <<lists, deleteMe, groups, store, context, group_id, pc, gid, tid>>

Init ==
  /\ list = <<>>
  /\ members = [g \in Groups |-> <<>>]
  /\ num = [g \in Groups |-> 0]
  /\ deleteMe = [g \in Groups |-> FALSE]
  /\ groups = {}
  /\ store = [t \in SpeThreads |-> "none"]
  /\ context = {}
  /\ group_id = [t \in SpeThreads |-> None]
  /\ pc = [c \in Callers |-> "idle"]
  /\ gid = [c \in Callers |-> None]
  /\ tid = [c \in Callers |-> None]

-----------------------------------------------------------------------------
Goto(c, label) == pc' = [pc EXCEPT ![c] = label]

Return(c) ==
  /\ Goto(c, "idle")
  /\ gid' = [gid EXCEPT ![c] = None]
  /\ tid' = [tid EXCEPT ![c] = None]

\* srch_group and srch_thread: a group must be listed, and a thread be a
\* member of a listed group.  They compare addresses and look at nothing else.
srch_group(g) == g \in ToSet(list)
srch_thread(t) == \E g \in ToSet(list) : t \in ToSet(members[g])

\* spe_gid_setup, the body of spe_create_group
spe_gid_setup(g) ==
  /\ g \notin groups
  /\ groups' = groups \cup {g}
  /\ list' = <<g>> \o list

\* Mutation: the group goes whether or not it has members.
remove_group_from_groups_Always(g) == list' = Remove(list, g)

\* remove_group_from_groups: an empty group leaves the list, for ever.
remove_group_from_groups(g) ==
  \/ /\ num[g] = 0
     /\ \E i \in 1 .. Len(list) : list[i] = g /\ list' = RemoveAt(list, i)
  \/ /\ num[g] # 0 \/ ~ srch_group(g)
     /\ UNCHANGED list

-----------------------------------------------------------------------------
CreateGroup(c, g) ==
  /\ pc[c] = "idle" /\ g \in SharedGroups
  /\ spe_gid_setup(g)
  /\ UNCHANGED <<members, num, deleteMe, store, context, group_id, pc, gid, tid>>

\* spe_create_thread: with a group, which must be listed, or with SPE_DEF_GRP.
CreateFind(c, g) ==
  /\ pc[c] = "idle" /\ srch_group(g) /\ g \in SharedGroups
  /\ Goto(c, "create_limit")
  /\ gid' = [gid EXCEPT ![c] = g]
  /\ UNCHANGED <<lists, deleteMe, groups, store, context, group_id, tid>>

CreateDefault(c, g) ==
  /\ pc[c] = "idle" /\ g \in Groups \ SharedGroups
  /\ spe_gid_setup(g)
  /\ Goto(c, "create_add")
  /\ gid' = [gid EXCEPT ![c] = g]
  /\ UNCHANGED <<members, num, deleteMe, store, context, group_id, tid>>

\* The size of the group is looked at without the mutex.
CreateLimit(c) ==
  /\ pc[c] = "create_limit"
  /\ \/ num[gid[c]] = MaxMembers /\ Return(c)
     \/ num[gid[c]] # MaxMembers /\ Goto(c, "create_add") /\ UNCHANGED <<gid, tid>>
  /\ UNCHANGED <<lists, deleteMe, groups, store, context, group_id>>

\* The context could not be created or loaded; what spe_setup allocated before
\* stays behind.
CreateFails(c) ==
  /\ pc[c] = "create_add"
  /\ Return(c)
  /\ UNCHANGED <<lists, deleteMe, groups, store, context, group_id>>

\* Mutation: the new member is not counted.
CreateAdd_NotCounted(c, t) ==
  LET g == gid[c] IN
  /\ pc[c] = "create_add" /\ store[t] = "none"
  /\ context' = context \cup {t}
  /\ group_id' = [group_id EXCEPT ![t] = g]
  /\ members' = [members EXCEPT ![g] = <<t>> \o @]
  /\ store' \in {[store EXCEPT ![t] = s] : s \in {"running", "unstarted"}}
  /\ Return(c)
  /\ UNCHANGED <<list, num, deleteMe, groups>>

\* The rest of spe_setup, with add_thread_to_group, and pthread_create.  When
\* the latter fails the caller gets no thread, but the group keeps the member.
CreateAdd(c, t) ==
  LET g == gid[c] IN
  /\ pc[c] = "create_add" /\ store[t] = "none"
  /\ context' = context \cup {t}
  /\ group_id' = [group_id EXCEPT ![t] = g]
  /\ members' = [members EXCEPT ![g] = <<t>> \o @]
  /\ num' = [num EXCEPT ![g] = @ + 1]
  /\ store' \in {[store EXCEPT ![t] = s] : s \in {"running", "unstarted"}}
  /\ Return(c)
  /\ UNCHANGED <<list, deleteMe, groups>>

\* do_spe_run returned (see SpeThread).
ThreadEnds(t) ==
  /\ store[t] = "running"
  /\ store' = [store EXCEPT ![t] = "ended"]
  /\ UNCHANGED <<lists, deleteMe, groups, context, group_id, pc, gid, tid>>

\* spe_wait, which at most one caller does for a thread.
WaitFind(c, t) ==
  /\ pc[c] = "idle" /\ srch_thread(t) /\ store[t] \in {"running", "ended"}
  /\ \A d \in Callers : tid[d] # t
  /\ Goto(c, "wait_join")
  /\ tid' = [tid EXCEPT ![c] = t]
  /\ gid' = [gid EXCEPT ![c] = group_id[t]]
  /\ UNCHANGED <<lists, deleteMe, groups, store, context, group_id>>

\* pthread_join, and spe_cleanup: the context is destroyed first.
WaitJoin(c) ==
  /\ pc[c] = "wait_join" /\ store[tid[c]] = "ended"
  /\ context' = context \ {tid[c]}
  /\ Goto(c, "cleanup_remove")
  /\ UNCHANGED <<lists, deleteMe, groups, store, group_id, gid, tid>>

\* Mutation: the predecessor is unlinked instead.
CleanupRemove_UnlinksPrevious(c) ==
  LET g == gid[c] IN
  /\ pc[c] = "cleanup_remove"
  /\ \/ /\ num[g] = 1
        /\ members' = [members EXCEPT ![g] = <<>>]
        /\ num' = [num EXCEPT ![g] = 0]
        /\ Goto(c, "cleanup_group")
     \/ /\ num[g] # 1
        /\ \E i \in 2 .. Len(members[g]) :
             /\ members[g][i] = tid[c]
             /\ members' = [members EXCEPT ![g] = RemoveAt(@, i - 1)]
             /\ num' = [num EXCEPT ![g] = @ - 1]
        /\ Goto(c, "cleanup_free")
  /\ UNCHANGED <<list, deleteMe, groups, store, context, group_id, gid, tid>>

\* remove_thread_from_group: the only member goes without a look at it; of
\* several, the loop compares the successors of the head only.
CleanupRemove(c) ==
  LET g == gid[c] IN
  /\ pc[c] = "cleanup_remove"
  /\ \/ /\ num[g] = 1
        /\ members' = [members EXCEPT ![g] = <<>>]
        /\ num' = [num EXCEPT ![g] = 0]
        /\ Goto(c, "cleanup_group")
     \/ /\ num[g] # 1
        /\ \E i \in 2 .. Len(members[g]) :
             /\ members[g][i] = tid[c]
             /\ members' = [members EXCEPT ![g] = RemoveAt(@, i)]
             /\ num' = [num EXCEPT ![g] = @ - 1]
        /\ Goto(c, "cleanup_free")
     \/ /\ num[g] # 1
        /\ tid[c] \notin ToSet(Tail(members[g]))
        /\ Goto(c, "cleanup_free")
        /\ UNCHANGED <<members, num>>
  /\ UNCHANGED <<list, deleteMe, groups, store, context, group_id, gid, tid>>

\* Mutation: a group that was marked earlier is forgotten.
CleanupGroup_Forgets(c) ==
  /\ pc[c] = "cleanup_group"
  /\ Goto(c, "cleanup_free")
  /\ UNCHANGED <<lists, deleteMe, groups, store, context, group_id, gid, tid>>

\* The group was marked, and its last member has gone.
CleanupGroup(c) ==
  /\ pc[c] = "cleanup_group"
  /\ IF deleteMe[gid[c]] THEN remove_group_from_groups(gid[c]) ELSE UNCHANGED list
  /\ Goto(c, "cleanup_free")
  /\ UNCHANGED <<members, num, deleteMe, groups, store, context, group_id, gid, tid>>

CleanupFree(c) ==
  /\ pc[c] = "cleanup_free"
  /\ store' = [store EXCEPT ![tid[c]] = "freed"]
  /\ Return(c)
  /\ UNCHANGED <<lists, deleteMe, groups, context, group_id>>

\* spe_destroy_group, of a group whose identifier the application has from
\* spe_create_group, or from spe_get_group of a thread.
DestroyFind(c, g) ==
  /\ pc[c] = "idle" /\ srch_group(g)
  /\ g \in SharedGroups \/ \E t \in SpeThreads : group_id[t] = g
  /\ Goto(c, "destroy_mark")
  /\ gid' = [gid EXCEPT ![c] = g]
  /\ UNCHANGED <<lists, deleteMe, groups, store, context, group_id, tid>>

DestroyMark(c) ==
  /\ pc[c] = "destroy_mark"
  /\ deleteMe' = [deleteMe EXCEPT ![gid[c]] = TRUE]
  /\ Goto(c, "destroy_remove")
  /\ UNCHANGED <<lists, groups, store, context, group_id, gid, tid>>

DestroyRemove(c) ==
  /\ pc[c] = "destroy_remove"
  /\ remove_group_from_groups(gid[c])
  /\ Return(c)
  /\ UNCHANGED <<members, num, deleteMe, groups, store, context, group_id>>

Next ==
  \/ \E c \in Callers :
       \/ \E g \in Groups : \/ CreateGroup(c, g) \/ CreateFind(c, g)
                            \/ CreateDefault(c, g) \/ DestroyFind(c, g)
       \/ \E t \in SpeThreads : CreateAdd(c, t) \/ WaitFind(c, t)
       \/ CreateLimit(c) \/ CreateFails(c) \/ WaitJoin(c)
       \/ CleanupRemove(c) \/ CleanupGroup(c) \/ CleanupFree(c)
       \/ DestroyMark(c) \/ DestroyRemove(c)
  \/ \E t \in SpeThreads : ThreadEnds(t)

Spec == Init /\ [][Next]_vars

-----------------------------------------------------------------------------
(* Properties *)

\* Every variable has its type.
TypeOK ==
  /\ list \in Seq(Groups) /\ IsInjective(list)
  /\ members \in [Groups -> Seq(SpeThreads)]
  /\ num \in [Groups -> Nat]
  /\ deleteMe \in [Groups -> BOOLEAN]
  /\ groups \subseteq Groups
  /\ store \in [SpeThreads -> {"none", "running", "unstarted", "ended", "freed"}]
  /\ context \subseteq SpeThreads
  /\ group_id \in [SpeThreads -> Groups \cup {None}]
  /\ pc \in [Callers -> {"idle", "create_limit", "create_add", "wait_join",
                         "cleanup_remove", "cleanup_group", "cleanup_free",
                         "destroy_mark", "destroy_remove"}]
  /\ gid \in [Callers -> Groups \cup {None}]
  /\ tid \in [Callers -> SpeThreads \cup {None}]

\* A thread that nobody is cleaning up is in the list of its group, once, and
\* in no other list: the removal of one thread never takes another one along.
\* And numListSize, which bounds the walks over grp_members in spe_get_event and
\* spe_get_threads that follow `next' that many times without a NULL check, is
\* the length of the list, whatever was removed in between.
Membership ==
  \A g \in Groups :
    /\ num[g] = Len(members[g])
    /\ \A t \in SpeThreads :
         store[t] \in {"running", "unstarted", "ended"}
           /\ (\A c \in Callers : tid[c] = t => pc[c] = "wait_join") =>
             Cardinality({i \in 1 .. Len(members[g]) : members[g][i] = t})
               = IF g = group_id[t] THEN 1 ELSE 0

\* The groups that spe_create_thread makes for a single thread.
OwnGroups == Groups \ SharedGroups

\* A thread that was waited for is not found any more ("ESRCH The specified
\* SPE thread could not be found"): its store is freed, and whoever found it
\* would read freed memory.
FreedIsGoneFrom(gs) ==
  \A t \in SpeThreads : store[t] = "freed" /\ group_id[t] \in gs => ~srch_thread(t)

\* Of every group.
FreedIsGone == FreedIsGoneFrom(Groups)
\* Of the groups with a single thread.
OwnFreedIsGone == FreedIsGoneFrom(OwnGroups)

\* "If a SPE group cannot be destroyed immediately it will be destroyed after
\* the last SPE thread has ended", and was waited for.
MarkedGoes(gs) ==
  \A g \in gs :
    /\ deleteMe[g] /\ \A c \in Callers : gid[c] # g
    /\ \A t \in SpeThreads : group_id[t] = g => store[t] = "freed"
    => ~srch_group(g)

\* Of every group.
MarkedGroupGoes == MarkedGoes(Groups)
\* Of the groups with a single thread.
OwnMarkedGroupGoes == MarkedGoes(OwnGroups)

\* "The total number of SPE threads in a group cannot exceed the group maximum."
GroupLimit == \A g \in Groups : num[g] <= MaxMembers

\* A thread that runs can be found: no call on it fails with ESRCH.
RunningIsFoundIn(gs) ==
  \A t \in SpeThreads : store[t] = "running" /\ group_id[t] \in gs => srch_thread(t)

\* In every group.
RunningIsFound == RunningIsFoundIn(Groups)
\* Of the groups with a single thread.
OwnRunningIsFound == RunningIsFoundIn(OwnGroups)
=============================================================================
