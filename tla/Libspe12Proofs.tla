--------------------------- MODULE Libspe12Proofs ---------------------------
(***************************************************************************)
(* Proofs about libspe 1.2.  Of SpeGroups, for any number of callers,      *)
(* groups, threads and any limit of a group: the counters and lists of     *)
(* members are consistent, and in the groups made for a single thread no   *)
(* freed thread is found, no marked group stays behind, and a thread that  *)
(* runs is found.  Of SpeThread, for any number of callers of spe_kill and *)
(* of runs, and any event pipe: who answers each event gets every one,     *)
(* once and in order.                                                      *)
(***************************************************************************)
EXTENDS SpeGroups, SpeThread, FiniteSetTheorems, SequenceTheorems, TLAPS

\* The threads in the list of each group, and the groups that can be found.
Members == [g \in Groups |-> ToSet(members[g])]
Found == ToSet(list)

\* Where a caller works on a thread.
Collecting == {"wait_join", "cleanup_remove", "cleanup_group", "cleanup_free"}

\* The threads that are in use: nobody has taken them out of their group yet.
Live ==
  {t \in SpeThreads : /\ store[t] \in {"running", "unstarted", "ended"}
                      /\ \A c \in Callers : tid[c] = t => pc[c] \in {"wait_join", "cleanup_remove"}}

\* What a caller works on: a group that exists, and a thread that no other caller
\* waits for, has ended when it is cleaned up, and is of that group.
Work ==
  \A c \in Callers :
    /\ pc[c] = "idle" => gid[c] = None
    /\ pc[c] # "idle" => gid[c] \in groups
    /\ pc[c] \notin Collecting => tid[c] = None
    /\ pc[c] \in Collecting =>
         /\ tid[c] \in SpeThreads /\ gid[c] = group_id[tid[c]]
         /\ store[tid[c]] \in {"running", "ended"}
         /\ pc[c] # "wait_join" => store[tid[c]] = "ended"
         /\ \A d \in Callers : tid[d] = tid[c] => d = c

\* Which groups and threads exist.
Exist ==
  /\ Found \subseteq groups
  /\ \A t \in SpeThreads : /\ store[t] = "none" <=> group_id[t] = None
                           /\ group_id[t] \in groups \cup {None}
  /\ \A g \in Groups : deleteMe[g] => g \in groups

\* A list of members has no thread twice, none of another group, and every thread
\* of the group that is in use.
Lists ==
  /\ \A g \in Groups : /\ num[g] = Len(members[g]) /\ IsInjective(members[g])
                       /\ \A t \in Members[g] : group_id[t] = g
  /\ \A t \in Live : t \in Members[group_id[t]]

\* A group made for a single thread has no other thread, and the caller that
\* makes it has it alone: nobody else can know the group before the thread exists.
Single ==
  /\ \A t, u \in SpeThreads : group_id[t] = group_id[u] /\ group_id[t] \in OwnGroups => t = u
  /\ \A c \in Callers :
       /\ pc[c] = "create_limit" => gid[c] \in SharedGroups
       /\ gid[c] \in OwnGroups =>
            IF pc[c] = "create_add"
              THEN /\ \A t \in SpeThreads : group_id[t] # gid[c]
                   /\ \A d \in Callers : gid[d] = gid[c] => d = c
              ELSE \E t \in SpeThreads : group_id[t] = gid[c]
  /\ \A g \in OwnGroups : deleteMe[g] => \E t \in SpeThreads : group_id[t] = g
  /\ \A t \in SpeThreads : group_id[t] \in OwnGroups /\ t \notin Live => Members[group_id[t]] = {}

\* Such a group can be found as long as its thread is in use or to be made, ...
Findable ==
  \A g \in OwnGroups :
    \/ \E c \in Callers : pc[c] = "create_add" /\ gid[c] = g
    \/ \E t \in Live : group_id[t] = g
    => g \in Found

\* ... and when it is marked only until its last thread goes, or the caller that
\* has marked it, or has taken out the thread, comes to its end.
Marked ==
  \A g \in OwnGroups : deleteMe[g] /\ g \in Found =>
    \/ Members[g] # {}
    \/ \E c \in Callers : gid[c] = g /\ pc[c] \in {"destroy_remove", "cleanup_group"}

IInv == TypeOK /\ Work /\ Exist /\ Lists /\ Single /\ Findable /\ Marked

-----------------------------------------------------------------------------
(* Lists *)

\* An element that is put in front of a list without it.
LEMMA PushedList ==
  ASSUME NEW S, NEW s \in Seq(S), NEW x \in S, IsInjective(s), x \notin ToSet(s)
  PROVE  /\ <<x>> \o s \in Seq(S) /\ IsInjective(<<x>> \o s)
         /\ ToSet(<<x>> \o s) = ToSet(s) \cup {x}
         /\ Len(<<x>> \o s) = Len(s) + 1 /\ Len(s) \in Nat
<1> DEFINE p == <<x>> \o s
<1>1. /\ p \in Seq(S) /\ Len(p) = Len(s) + 1 /\ Len(s) \in Nat
      /\ p[1] = x /\ \A i \in 1 .. Len(s) : p[1 + i] = s[i]
  <2>1. <<x>> \in Seq(S) /\ Len(<<x>>) = 1 /\ <<x>>[1] = x OBVIOUS
  <2>2. p \in Seq(S) BY <2>1
  <2> QED BY <2>1, <2>2, ConcatProperties
<1> HIDE DEF p
<1>2. DOMAIN p = 1 .. Len(s) + 1 /\ DOMAIN s = 1 .. Len(s) BY <1>1
<1>3. ASSUME NEW i \in 2 .. Len(s) + 1 PROVE i - 1 \in 1 .. Len(s) /\ p[i] = s[i - 1]
  <2>1. i - 1 \in 1 .. Len(s) /\ 1 + (i - 1) = i BY <1>1
  <2> QED BY <1>1, <2>1
<1>4. \A i \in 1 .. Len(s) : s[i] # x BY <1>2 DEF ToSet
<1>5. IsInjective(p)
  <2> SUFFICES ASSUME NEW i \in 1 .. Len(s) + 1, NEW j \in 1 .. Len(s) + 1, p[i] = p[j]
               PROVE  i = j
    BY <1>2 DEF IsInjective
  <2>1. CASE i = 1 /\ j = 1 BY <2>1
  <2>2. CASE i = 1 /\ j # 1
    <3>1. j \in 2 .. Len(s) + 1 BY <1>1, <2>2
    <3> QED BY <1>1, <1>3, <1>4, <2>2, <3>1
  <2>3. CASE i # 1 /\ j = 1
    <3>1. i \in 2 .. Len(s) + 1 BY <1>1, <2>3
    <3> QED BY <1>1, <1>3, <1>4, <2>3, <3>1
  <2>4. CASE i # 1 /\ j # 1
    <3>1. i \in 2 .. Len(s) + 1 /\ j \in 2 .. Len(s) + 1 BY <1>1, <2>4
    <3>2. s[i - 1] = s[j - 1] /\ i - 1 \in 1 .. Len(s) /\ j - 1 \in 1 .. Len(s)
      BY <1>3, <3>1
    <3>3. i - 1 = j - 1 BY <1>2, <3>2 DEF IsInjective
    <3> QED BY <3>1, <3>3
  <2> QED BY <2>1, <2>2, <2>3, <2>4
<1>6. ToSet(p) = ToSet(s) \cup {x}
  <2>1. ASSUME NEW y \in ToSet(p) PROVE y \in ToSet(s) \cup {x}
    <3>1. PICK i \in 1 .. Len(s) + 1 : p[i] = y BY <1>2 DEF ToSet
    <3>2. CASE i = 1 BY <1>1, <3>1, <3>2
    <3>3. CASE i # 1
      <4>1. i \in 2 .. Len(s) + 1 BY <1>1, <3>3
      <4> QED BY <1>2, <1>3, <3>1, <4>1 DEF ToSet
    <3> QED BY <3>2, <3>3
  <2>2. x \in ToSet(p)
    <3>1. 1 \in 1 .. Len(s) + 1 BY <1>1
    <3> QED BY <1>1, <1>2, <3>1 DEF ToSet
  <2>3. ASSUME NEW y \in ToSet(s) PROVE y \in ToSet(p)
    <3>1. PICK i \in 1 .. Len(s) : s[i] = y BY <1>2 DEF ToSet
    <3>2. 1 + i \in 1 .. Len(s) + 1 /\ p[1 + i] = y BY <1>1, <3>1
    <3> QED BY <1>2, <3>2 DEF ToSet
  <2> QED BY <2>1, <2>2, <2>3
<1> QED BY <1>1, <1>5, <1>6 DEF p

\* A list without its i-th element.
LEMMA ShortenedList ==
  ASSUME NEW S, NEW s \in Seq(S), NEW i \in 1 .. Len(s), IsInjective(s)
  PROVE  /\ RemoveAt(s, i) \in Seq(S) /\ IsInjective(RemoveAt(s, i))
         /\ ToSet(RemoveAt(s, i)) = ToSet(s) \ {s[i]}
         /\ Len(RemoveAt(s, i)) = Len(s) - 1 /\ Len(s) \in Nat
<1> DEFINE a == SubSeq(s, 1, i - 1)
           b == SubSeq(s, i + 1, Len(s))
           q == a \o b
<1>0. Len(s) \in Nat /\ i \in Int /\ 1 <= i /\ i <= Len(s) /\ \A j \in 1 .. Len(s) : s[j] \in S
  OBVIOUS
<1>1. a \in Seq(S) /\ Len(a) = i - 1 /\ \A j \in 1 .. i - 1 : a[j] = s[j]
  <2>1. i - 1 \in Int /\ \A j \in 1 .. i - 1 : s[j] \in S BY <1>0
  <2>2. /\ a \in Seq(S) /\ Len(a) = IF 1 <= i - 1 THEN i - 1 - 1 + 1 ELSE 0
        /\ \A j \in 1 .. i - 1 - 1 + 1 : a[j] = s[1 + j - 1]
    BY <2>1, SubSeqProperties
  <2>3. Len(a) = i - 1 BY <1>0, <2>2
  <2>4. \A j \in 1 .. i - 1 : j \in 1 .. i - 1 - 1 + 1 /\ 1 + j - 1 = j BY <1>0
  <2> QED BY <2>2, <2>3, <2>4
<1>2. b \in Seq(S) /\ Len(b) = Len(s) - i /\ \A j \in 1 .. Len(s) - i : b[j] = s[i + j]
  <2>1. i + 1 \in Int /\ Len(s) \in Int /\ \A j \in i + 1 .. Len(s) : s[j] \in S BY <1>0
  <2>2. /\ b \in Seq(S) /\ Len(b) = IF i + 1 <= Len(s) THEN Len(s) - (i + 1) + 1 ELSE 0
        /\ \A j \in 1 .. Len(s) - (i + 1) + 1 : b[j] = s[i + 1 + j - 1]
    BY <2>1, SubSeqProperties
  <2>3. Len(b) = Len(s) - i BY <1>0, <2>2
  <2>4. \A j \in 1 .. Len(s) - i : j \in 1 .. Len(s) - (i + 1) + 1 /\ i + 1 + j - 1 = i + j
    BY <1>0
  <2> QED BY <2>2, <2>3, <2>4
<1>3. RemoveAt(s, i) = q BY DEF RemoveAt
<1> HIDE DEF a, b
<1>4. /\ q \in Seq(S) /\ Len(q) = Len(s) - 1
      /\ \A j \in 1 .. i - 1 : q[j] = s[j]
      /\ \A j \in i .. Len(s) - 1 : q[j] = s[j + 1]
  <2>1. q \in Seq(S) BY <1>1, <1>2
  <2>2. Len(q) = Len(a) + Len(b) BY <1>1, <1>2, ConcatProperties
  <2>3. Len(q) = Len(s) - 1 BY <1>0, <1>1, <1>2, <2>2
  <2>4. \A j \in 1 .. i - 1 : q[j] = s[j] BY <1>1, <1>2, ConcatProperties
  <2>5. ASSUME NEW j \in i .. Len(s) - 1 PROVE q[j] = s[j + 1]
    <3>1. j - (i - 1) \in 1 .. Len(b) /\ j = Len(a) + (j - (i - 1)) BY <1>0, <1>1, <1>2
    <3>2. q[j] = b[j - (i - 1)] BY <1>1, <1>2, <3>1, ConcatProperties
    <3>3. j - (i - 1) \in 1 .. Len(s) - i /\ i + (j - (i - 1)) = j + 1 BY <1>0
    <3> QED BY <1>2, <3>2, <3>3
  <2> QED BY <2>1, <2>3, <2>4, <2>5
<1> HIDE DEF q
<1> DEFINE old(j) == IF j < i THEN j ELSE j + 1
<1>5. DOMAIN q = 1 .. Len(s) - 1 /\ DOMAIN s = 1 .. Len(s) BY <1>0, <1>4
<1>6. \A j \in 1 .. Len(s) - 1 : old(j) \in 1 .. Len(s) /\ old(j) # i /\ q[j] = s[old(j)]
  <2> SUFFICES ASSUME NEW j \in 1 .. Len(s) - 1
               PROVE  old(j) \in 1 .. Len(s) /\ old(j) # i /\ q[j] = s[old(j)]
    OBVIOUS
  <2>1. CASE j < i
    <3>1. j \in 1 .. i - 1 BY <1>0, <2>1
    <3> QED BY <1>0, <1>4, <2>1, <3>1
  <2>2. CASE ~ (j < i)
    <3>1. j \in i .. Len(s) - 1 BY <1>0, <2>2
    <3> QED BY <1>0, <1>4, <2>2, <3>1
  <2> QED BY <2>1, <2>2
<1>7. IsInjective(q)
  <2> SUFFICES ASSUME NEW j \in 1 .. Len(s) - 1, NEW k \in 1 .. Len(s) - 1, q[j] = q[k]
               PROVE  j = k
    BY <1>5 DEF IsInjective
  <2>1. old(j) \in 1 .. Len(s) /\ old(k) \in 1 .. Len(s) /\ s[old(j)] = s[old(k)]
    BY <1>6
  <2>2. old(j) = old(k) BY <1>5, <2>1 DEF IsInjective
  <2> QED BY <1>0, <2>2
<1>8. ASSUME NEW y \in ToSet(q) PROVE y \in ToSet(s) \ {s[i]}
  <2>1. PICK j \in 1 .. Len(s) - 1 : q[j] = y BY <1>5 DEF ToSet
  <2>2. old(j) \in 1 .. Len(s) /\ old(j) # i /\ s[old(j)] = y BY <1>6, <2>1
  <2> HIDE DEF old
  <2>3. y \in ToSet(s) BY <1>5, <2>2 DEF ToSet
  <2>4. s[i] # y BY <1>5, <2>2 DEF IsInjective
  <2> QED BY <2>3, <2>4
<1>9. ASSUME NEW y \in ToSet(s), y # s[i] PROVE y \in ToSet(q)
  <2>1. PICK j \in 1 .. Len(s) : s[j] = y /\ j # i BY <1>5, <1>9 DEF ToSet
  <2>2. CASE j < i
    <3>1. j \in 1 .. i - 1 /\ j \in 1 .. Len(s) - 1 BY <1>0, <2>2
    <3>2. q[j] = y BY <1>4, <2>1, <3>1
    <3> QED BY <1>5, <3>1, <3>2 DEF ToSet
  <2>3. CASE ~ (j < i)
    <3>1. j - 1 \in i .. Len(s) - 1 /\ j - 1 \in 1 .. Len(s) - 1 /\ (j - 1) + 1 = j
      BY <1>0, <2>1, <2>3
    <3>2. q[j - 1] = y BY <1>4, <2>1, <3>1
    <3> QED BY <1>5, <3>1, <3>2 DEF ToSet
  <2> QED BY <2>2, <2>3
<1>10. ToSet(q) = ToSet(s) \ {s[i]}
  <2>1. ToSet(q) \subseteq ToSet(s) \ {s[i]} BY <1>8
  <2>2. ToSet(s) \ {s[i]} \subseteq ToSet(q) BY <1>9
  <2> QED BY <2>1, <2>2
<1> QED BY <1>0, <1>3, <1>4, <1>7, <1>10

\* Lists of no element and of one.
LEMMA ShortLists ==
  ASSUME NEW S, NEW s \in Seq(S)
  PROVE  /\ Len(s) = 0 <=> ToSet(s) = {}
         /\ Len(s) = 1 => \A x, y \in ToSet(s) : x = y
         /\ IsInjective(s) /\ (\A x, y \in ToSet(s) : x = y) => Len(s) \in {0, 1}
         /\ ToSet(s) \subseteq S
<1>1. Len(s) \in Nat /\ DOMAIN s = 1 .. Len(s) /\ \A i \in 1 .. Len(s) : s[i] \in S
  OBVIOUS
<1>2. \A i \in 1 .. Len(s) : s[i] \in ToSet(s) BY <1>1 DEF ToSet
<1>3. ASSUME Len(s) = 0 PROVE ToSet(s) = {}
  <2>1. 1 .. Len(s) = {} BY <1>3
  <2> QED BY <1>1, <2>1 DEF ToSet
<1>4. ASSUME Len(s) # 0 PROVE ToSet(s) # {}
  <2>1. 1 \in 1 .. Len(s) BY <1>1, <1>4
  <2> QED BY <1>2, <2>1
<1>5. ASSUME Len(s) = 1, NEW x \in ToSet(s), NEW y \in ToSet(s) PROVE x = y
  <2>1. \A i \in 1 .. Len(s) : i = 1 BY <1>5
  <2> QED BY <1>1, <2>1 DEF ToSet
<1>6. ASSUME IsInjective(s), \A x, y \in ToSet(s) : x = y PROVE Len(s) \in {0, 1}
  <2>1. SUFFICES ASSUME Len(s) \notin {0, 1} PROVE FALSE
    OBVIOUS
  <2>2. 1 \in 1 .. Len(s) /\ 2 \in 1 .. Len(s) BY <1>1, <2>1
  <2>3. s[1] = s[2] BY <1>2, <1>6, <2>2
  <2>4. 1 = 2 BY <1>1, <1>6, <2>2, <2>3 DEF IsInjective
  <2> QED BY <2>4
<1>7. ToSet(s) \subseteq S BY <1>1 DEF ToSet
<1> QED BY <1>3, <1>4, <1>5, <1>6, <1>7

-----------------------------------------------------------------------------
(* The steps *)

LEMMA InitIInv == Init => IInv
<1> SUFFICES ASSUME Init PROVE IInv
  OBVIOUS
<1> USE GroupsAssumption DEF Init
<1>1. list = <<>> /\ Found = {} BY DEF Found, ToSet
<1>2. TypeOK
  <2>1. list \in Seq(Groups) /\ IsInjective(list) BY DEF IsInjective
  <2>2. members \in [Groups -> Seq(SpeThreads)] OBVIOUS
  <2> QED BY <2>1, <2>2 DEF TypeOK
<1>3. Work BY DEF Work, Collecting
<1>4. Exist BY <1>1 DEF Exist
<1>5. \A g \in Groups : members[g] = <<>> /\ Members[g] = {} BY DEF Members, ToSet
<1>6. Live = {} BY DEF Live
<1>7. Lists
  <2>1. IsInjective(<<>>) /\ Len(<<>>) = 0 BY DEF IsInjective
  <2> QED BY <1>5, <1>6, <2>1 DEF Lists
<1>8. Single BY DEF Single, OwnGroups
<1>9. Findable BY <1>6 DEF Findable
<1>10. Marked BY <1>1 DEF Marked
<1> QED BY <1>2, <1>3, <1>4, <1>7, <1>8, <1>9, <1>10 DEF IInv

\* The groups and threads that are meant.
LEMMA Sets ==
  ASSUME IInv
  PROVE  /\ Found \subseteq Groups /\ OwnGroups \subseteq Groups /\ None \notin OwnGroups
         /\ \A g \in Groups : Members[g] \subseteq SpeThreads
         /\ \A g \in Groups : num[g] = 0 <=> Members[g] = {}
         /\ \A c \in Callers : pc[c] # "idle" => gid[c] \in Groups
         /\ Live \subseteq SpeThreads
         /\ \A t \in Live : store[t] # "none" /\ group_id[t] \in Groups
<1>1. Found \subseteq Groups
  <2>1. list \in Seq(Groups) BY DEF IInv, TypeOK
  <2> QED BY <2>1, ShortLists DEF Found
<1>2. OwnGroups \subseteq Groups /\ None \notin OwnGroups BY GroupsAssumption DEF OwnGroups
<1>3. ASSUME NEW g \in Groups
      PROVE  Members[g] \subseteq SpeThreads /\ (num[g] = 0 <=> Members[g] = {})
  <2>1. members[g] \in Seq(SpeThreads) /\ num[g] = Len(members[g])
    BY DEF IInv, TypeOK, Lists
  <2> QED BY <2>1, ShortLists DEF Members
<1>4. \A c \in Callers : pc[c] # "idle" => gid[c] \in Groups
  BY DEF IInv, TypeOK, Work
<1>5. Live \subseteq SpeThreads /\ \A t \in Live : store[t] # "none" BY DEF Live
<1>6. \A t \in Live : group_id[t] \in Groups
  BY <1>5 DEF IInv, TypeOK, Exist
<1> QED BY <1>1, <1>2, <1>3, <1>4, <1>5, <1>6

\* A group store that is made is put into the list.
LEMMA Listed ==
  ASSUME IInv, NEW g \in Groups, spe_gid_setup(g)
  PROVE  /\ list' \in Seq(Groups) /\ IsInjective(list') /\ Found' = Found \cup {g}
         /\ groups' = groups \cup {g} /\ g \notin groups
         /\ \A t \in SpeThreads : group_id[t] # g
         /\ \A c \in Callers : gid[c] # g
         /\ ~ deleteMe[g] /\ g # None
<1>1. list \in Seq(Groups) /\ IsInjective(list) BY DEF IInv, TypeOK
<1>2. g \notin groups /\ groups' = groups \cup {g} /\ list' = <<g>> \o list BY DEF spe_gid_setup
<1>3. g \notin ToSet(list) BY <1>2 DEF IInv, Exist, Found
<1>4. list' \in Seq(Groups) /\ IsInjective(list') /\ Found' = Found \cup {g}
  BY <1>1, <1>2, <1>3, PushedList DEF Found
<1>5. g # None BY GroupsAssumption
<1>6. \A t \in SpeThreads : group_id[t] # g BY <1>2, <1>5 DEF IInv, Exist
<1>7. \A c \in Callers : gid[c] # g BY <1>2, <1>5 DEF IInv, Work
<1>8. ~ deleteMe[g] BY <1>2 DEF IInv, Exist
<1> QED BY <1>2, <1>4, <1>5, <1>6, <1>7, <1>8

\* A group leaves the list if it is empty.
LEMMA Unlisted ==
  ASSUME IInv, NEW g \in Groups, remove_group_from_groups(g)
  PROVE  /\ list' \in Seq(Groups) /\ IsInjective(list')
         /\ Members[g] = {} => Found' = Found \ {g}
         /\ Members[g] # {} => Found' = Found
<1>1. list \in Seq(Groups) /\ IsInjective(list) BY DEF IInv, TypeOK
<1>2. num[g] = 0 <=> Members[g] = {} BY Sets
<1>3. CASE UNCHANGED list
  <2>1. num[g] # 0 \/ g \notin Found
    <3>1. CASE \E i \in 1 .. Len(list) : list[i] = g /\ list' = RemoveAt(list, i)
      <4>1. PICK i \in 1 .. Len(list) : list[i] = g /\ list' = RemoveAt(list, i) BY <3>1
      <4>2. Len(list') = Len(list) - 1 /\ Len(list) \in Nat BY <1>1, <4>1, ShortenedList
      <4> QED BY <1>3, <4>2
    <3> QED BY <3>1 DEF remove_group_from_groups, srch_group, Found
  <2> QED BY <1>1, <1>2, <1>3, <2>1 DEF Found
<1>4. CASE ~ UNCHANGED list
  <2>1. PICK i \in 1 .. Len(list) : list[i] = g /\ list' = RemoveAt(list, i) /\ num[g] = 0
    BY <1>4 DEF remove_group_from_groups
  <2>2. list' \in Seq(Groups) /\ IsInjective(list') /\ ToSet(list') = ToSet(list) \ {g}
    BY <1>1, <2>1, ShortenedList
  <2> QED BY <1>2, <2>1, <2>2 DEF Found
<1> QED BY <1>3, <1>4

LEMMA CreateGroupStep ==
  ASSUME IInv, NEW c \in Callers, NEW g \in Groups, CreateGroup(c, g)
  PROVE  IInv'
<1>1. /\ list' \in Seq(Groups) /\ IsInjective(list') /\ Found' = Found \cup {g}
      /\ groups' = groups \cup {g} /\ g \notin groups
  BY Listed DEF CreateGroup
<1>2. UNCHANGED <<members, num, deleteMe, store, context, group_id, pc, gid, tid>>
      /\ g \in SharedGroups
  BY DEF CreateGroup
<1>3. Live' = Live /\ Members' = Members BY <1>2 DEF Live, Members
<1>4. TypeOK' BY <1>1, <1>2 DEF IInv, TypeOK
<1>5. Work' BY <1>1, <1>2 DEF IInv, Work
<1>6. Exist' BY <1>1, <1>2 DEF IInv, Exist
<1>7. Lists' BY <1>2, <1>3 DEF IInv, Lists
<1>8. Single' BY <1>2, <1>3 DEF IInv, Single
<1>9. Findable' BY <1>1, <1>2, <1>3 DEF IInv, Findable
<1>10. Marked' BY <1>1, <1>2, <1>3 DEF IInv, Marked, OwnGroups
<1> QED BY <1>4, <1>5, <1>6, <1>7, <1>8, <1>9, <1>10 DEF IInv

\* A step of a caller that works on no thread, and changes no list, keeps what is
\* said of threads and lists.
LEMMA CallerKeeps ==
  ASSUME IInv, NEW c \in Callers, pc[c] \notin Collecting, pc'[c] \notin Collecting, tid' = tid,
         \A d \in Callers \ {c} : pc'[d] = pc[d],
         UNCHANGED <<members, num, store, group_id>>
  PROVE  Live' = Live /\ Members' = Members /\ Lists'
<1>1. tid[c] = None BY DEF IInv, Work
<1>2. None \notin SpeThreads BY GroupsAssumption
<1>3. Live' = Live
  <2>1. ASSUME NEW t \in SpeThreads
        PROVE  (\A d \in Callers : tid'[d] = t => pc'[d] \in {"wait_join", "cleanup_remove"})
               <=> (\A d \in Callers : tid[d] = t => pc[d] \in {"wait_join", "cleanup_remove"})
    BY <1>1, <1>2
  <2> QED BY <2>1 DEF Live
<1>4. Members' = Members BY DEF Members
<1>5. Lists' BY <1>3, <1>4 DEF IInv, Lists
<1> QED BY <1>3, <1>4, <1>5

LEMMA CreateFindStep ==
  ASSUME IInv, NEW c \in Callers, NEW g \in Groups, CreateFind(c, g)
  PROVE  IInv'
<1>1. /\ pc[c] = "idle" /\ g \in Found /\ g \in SharedGroups
      /\ pc'[c] = "create_limit" /\ gid'[c] = g
      /\ \A d \in Callers \ {c} : pc'[d] = pc[d] /\ gid'[d] = gid[d]
      /\ UNCHANGED <<lists, deleteMe, groups, store, context, group_id, tid>>
  BY DEF IInv, TypeOK, CreateFind, Goto, srch_group, Found
<1>2. Live' = Live /\ Members' = Members /\ Lists' BY <1>1, CallerKeeps DEF Collecting, lists
<1>3. Found' = Found BY <1>1 DEF Found, lists
<1>4. TypeOK'
  <2>1. pc' = [pc EXCEPT ![c] = "create_limit"] /\ gid' = [gid EXCEPT ![c] = g]
    BY DEF CreateFind, Goto
  <2> QED BY <1>1, <2>1 DEF IInv, TypeOK, lists
<1>5. Work' BY <1>1 DEF IInv, Work, Exist, Collecting
<1>6. Exist' BY <1>1, <1>3 DEF IInv, Exist
<1>7. Single' BY <1>1, <1>2 DEF IInv, Single, OwnGroups
<1>8. Findable' BY <1>1, <1>2, <1>3 DEF IInv, Findable
<1>9. Marked' BY <1>1, <1>2, <1>3 DEF IInv, Marked
<1> QED BY <1>2, <1>4, <1>5, <1>6, <1>7, <1>8, <1>9 DEF IInv

LEMMA CreateDefaultStep ==
  ASSUME IInv, NEW c \in Callers, NEW g \in Groups, CreateDefault(c, g)
  PROVE  IInv'
<1>0. /\ list' \in Seq(Groups) /\ IsInjective(list') /\ Found' = Found \cup {g}
      /\ groups' = groups \cup {g} /\ g \notin groups
      /\ \A t \in SpeThreads : group_id[t] # g
      /\ \A d \in Callers : gid[d] # g
      /\ ~ deleteMe[g] /\ g # None
  BY Listed DEF CreateDefault
<1>1. /\ pc[c] = "idle" /\ g \in OwnGroups
      /\ pc'[c] = "create_add" /\ gid'[c] = g
      /\ \A d \in Callers \ {c} : pc'[d] = pc[d] /\ gid'[d] = gid[d]
      /\ UNCHANGED <<members, num, deleteMe, store, context, group_id, tid>>
  BY DEF IInv, TypeOK, CreateDefault, Goto, OwnGroups
<1>2. Live' = Live /\ Members' = Members /\ Lists' BY <1>1, CallerKeeps DEF Collecting
<1>4. TypeOK'
  <2>1. pc' = [pc EXCEPT ![c] = "create_add"] /\ gid' = [gid EXCEPT ![c] = g]
    BY DEF CreateDefault, Goto
  <2> QED BY <1>0, <1>1, <2>1 DEF IInv, TypeOK
<1>5. Work' BY <1>0, <1>1 DEF IInv, Work, Collecting
<1>6. Exist' BY <1>0, <1>1 DEF IInv, Exist
<1>7. Single'
  <2>1. \A d \in Callers : gid[d] \in OwnGroups => pc[d] # "idle"
    BY Sets DEF IInv, Work
  <2>2. ASSUME NEW d \in Callers, gid'[d] \in OwnGroups
        PROVE  IF pc'[d] = "create_add"
                 THEN /\ \A t \in SpeThreads : group_id[t] # gid'[d]
                      /\ \A e \in Callers : gid'[e] = gid'[d] => e = d
                 ELSE \E t \in SpeThreads : group_id[t] = gid'[d]
    <3>1. CASE d = c BY <1>0, <1>1, <3>1
    <3>2. CASE d # c BY <1>0, <1>1, <2>2, <3>2 DEF IInv, Single
    <3> QED BY <3>1, <3>2
  <2>3. \A d \in Callers : pc'[d] = "create_limit" => gid'[d] \in SharedGroups
    BY <1>1 DEF IInv, Single
  <2> QED BY <1>1, <1>2, <2>2, <2>3 DEF IInv, Single
<1>8. Findable' BY <1>0, <1>1, <1>2 DEF IInv, Findable
<1>9. Marked' BY <1>0, <1>1, <1>2 DEF IInv, Marked
<1> QED BY <1>2, <1>4, <1>5, <1>6, <1>7, <1>8, <1>9 DEF IInv

\* A caller that works on no thread returns, and leaves everything as it is.
LEMMA ReturnKeeps ==
  ASSUME IInv, NEW c \in Callers, pc[c] \notin Collecting \cup {"destroy_remove"}, Return(c),
         UNCHANGED <<lists, deleteMe, groups, store, context, group_id>>
  PROVE  IInv'
<1>0. tid[c] = None BY DEF IInv, Work
<1>1. /\ pc'[c] = "idle" /\ gid'[c] = None /\ tid' = tid
      /\ \A d \in Callers \ {c} : pc'[d] = pc[d] /\ gid'[d] = gid[d]
  BY <1>0 DEF IInv, TypeOK, Return, Goto
<1>2. Live' = Live /\ Members' = Members /\ Lists' BY <1>1, CallerKeeps DEF Collecting, lists
<1>3. Found' = Found BY DEF Found, lists
<1>4. TypeOK' BY DEF IInv, TypeOK, Return, Goto, lists
<1>5. Work' BY <1>0, <1>1 DEF IInv, Work, Collecting
<1>6. Exist' BY <1>3 DEF IInv, Exist
<1>7. Single'
  <2>1. gid'[c] \notin OwnGroups BY <1>1, Sets
  <2> QED BY <1>1, <1>2, <2>1 DEF IInv, Single
<1>8. Findable' BY <1>1, <1>2, <1>3 DEF IInv, Findable
<1>9. Marked' BY <1>1, <1>2, <1>3 DEF IInv, Marked, Collecting
<1> QED BY <1>2, <1>4, <1>5, <1>6, <1>7, <1>8, <1>9 DEF IInv

LEMMA CreateLimitStep ==
  ASSUME IInv, NEW c \in Callers, CreateLimit(c)
  PROVE  IInv'
<1>1. CASE Return(c) BY <1>1, ReturnKeeps DEF CreateLimit, Collecting
<1>2. CASE ~ Return(c)
  <2>1. /\ pc[c] = "create_limit" /\ pc'[c] = "create_add" /\ gid' = gid /\ tid' = tid
        /\ \A d \in Callers \ {c} : pc'[d] = pc[d]
        /\ UNCHANGED <<lists, deleteMe, groups, store, context, group_id>>
    BY <1>2 DEF IInv, TypeOK, CreateLimit, Goto
  <2>2. Live' = Live /\ Members' = Members /\ Lists' BY <2>1, CallerKeeps DEF Collecting, lists
  <2>3. Found' = Found BY <2>1 DEF Found, lists
  <2>4. TypeOK'
    <3>1. pc' = [pc EXCEPT ![c] = "create_add"] BY <1>2 DEF CreateLimit, Goto
    <3> QED BY <2>1, <3>1 DEF IInv, TypeOK, lists
  <2>5. Work' BY <2>1 DEF IInv, Work, Collecting
  <2>6. Exist' BY <2>1, <2>3 DEF IInv, Exist
  <2>7. gid[c] \notin OwnGroups BY <2>1 DEF IInv, Single, OwnGroups
  <2>8. Single' BY <2>1, <2>2, <2>7 DEF IInv, Single
  <2>9. Findable' BY <2>1, <2>2, <2>3, <2>7 DEF IInv, Findable
  <2>10. Marked' BY <2>1, <2>2, <2>3 DEF IInv, Marked
  <2> QED BY <2>2, <2>4, <2>5, <2>6, <2>8, <2>9, <2>10 DEF IInv
<1> QED BY <1>1, <1>2

LEMMA CreateFailsStep ==
  ASSUME IInv, NEW c \in Callers, CreateFails(c)
  PROVE  IInv'
BY ReturnKeeps DEF CreateFails, Collecting

LEMMA CreateAddStep ==
  ASSUME IInv, NEW c \in Callers, NEW t \in SpeThreads, CreateAdd(c, t)
  PROVE  IInv'
<1>1. PICK g \in Groups : g = gid[c] BY Sets DEF CreateAdd
<1>2. PICK s \in {"running", "unstarted"} : store' = [store EXCEPT ![t] = s] BY DEF CreateAdd
<1>a. /\ pc[c] = "create_add" /\ store[t] = "none" /\ g \in groups /\ tid[c] = None /\ g # None
      /\ group_id[t] = None
  BY <1>1, GroupsAssumption DEF IInv, Work, Exist, Collecting, CreateAdd
<1>b. /\ pc'[c] = "idle" /\ gid'[c] = None /\ tid' = tid
      /\ \A d \in Callers \ {c} : pc'[d] = pc[d] /\ gid'[d] = gid[d]
  BY <1>a DEF IInv, TypeOK, CreateAdd, Return, Goto
<1>c. /\ store'[t] = s /\ group_id'[t] = g
      /\ \A u \in SpeThreads \ {t} : store'[u] = store[u] /\ group_id'[u] = group_id[u]
      /\ UNCHANGED <<list, deleteMe, groups>>
  BY <1>1, <1>2 DEF IInv, TypeOK, CreateAdd
<1>d. /\ members[g] \in Seq(SpeThreads) /\ IsInjective(members[g]) /\ num[g] = Len(members[g])
      /\ \A u \in Members[g] : group_id[u] = g
  BY DEF IInv, TypeOK, Lists
<1>e. t \notin Members[g] BY <1>a, <1>d
<1>f. /\ <<t>> \o members[g] \in Seq(SpeThreads) /\ IsInjective(<<t>> \o members[g])
      /\ ToSet(<<t>> \o members[g]) = Members[g] \cup {t}
      /\ Len(<<t>> \o members[g]) = num[g] + 1 /\ num[g] \in Nat
  BY <1>d, <1>e, PushedList DEF Members
<1>g. /\ members' = [members EXCEPT ![g] = <<t>> \o @] /\ num' = [num EXCEPT ![g] = @ + 1]
  BY <1>1 DEF CreateAdd
<1>h. /\ members'[g] = <<t>> \o members[g] /\ num'[g] = num[g] + 1
      /\ \A h \in Groups \ {g} : members'[h] = members[h] /\ num'[h] = num[h]
      /\ Members'[g] = Members[g] \cup {t}
      /\ \A h \in Groups \ {g} : Members'[h] = Members[h]
  BY <1>f, <1>g DEF IInv, TypeOK, Members
<1>i. Found' = Found BY <1>c DEF Found
<1>j. \A d \in Callers : tid[d] # t
  <2> SUFFICES ASSUME NEW d \in Callers, tid[d] = t PROVE FALSE
    OBVIOUS
  <2>1. pc[d] \in Collecting BY GroupsAssumption DEF IInv, Work
  <2>2. store[t] \in {"running", "ended"} BY <2>1 DEF IInv, Work
  <2> QED BY <1>a, <2>2
<1>k. Live' = Live \cup {t}
  <2>1. t \in Live' BY <1>b, <1>c, <1>j DEF Live
  <2>2. ASSUME NEW u \in SpeThreads \ {t} PROVE u \in Live' <=> u \in Live
    <3>1. (\A d \in Callers : tid'[d] = u => pc'[d] \in {"wait_join", "cleanup_remove"})
          <=> (\A d \in Callers : tid[d] = u => pc[d] \in {"wait_join", "cleanup_remove"})
      BY <1>a, <1>b, GroupsAssumption
    <3> QED BY <1>c, <3>1 DEF Live
  <2>3. Live \subseteq SpeThreads /\ Live' \subseteq SpeThreads BY DEF Live
  <2> QED BY <2>1, <2>2, <2>3
<1>3. TypeOK'
  <2>1. members' \in [Groups -> Seq(SpeThreads)] BY <1>f, <1>g DEF IInv, TypeOK
  <2>2. num' \in [Groups -> Nat] BY <1>f, <1>g DEF IInv, TypeOK
  <2>3. store' \in [SpeThreads -> {"none", "running", "unstarted", "ended", "freed"}]
    BY <1>2 DEF IInv, TypeOK
  <2>4. group_id' \in [SpeThreads -> Groups \cup {None}] BY <1>1 DEF IInv, TypeOK, CreateAdd
  <2>5. context' \subseteq SpeThreads BY DEF IInv, TypeOK, CreateAdd
  <2> QED BY <1>c, <2>1, <2>2, <2>3, <2>4, <2>5 DEF IInv, TypeOK, CreateAdd, Return, Goto
<1>4. Work'
  <2>1. \A d \in Callers : pc[d] \in Collecting => tid[d] \in SpeThreads \ {t}
    BY <1>j DEF IInv, Work
  <2> QED BY <1>a, <1>b, <1>c, <2>1 DEF IInv, Work, Collecting
<1>5. Exist' BY <1>2, <1>a, <1>c, <1>i DEF IInv, Exist
<1>6. Lists'
  <2>1. ASSUME NEW h \in Groups
        PROVE  num'[h] = Len(members'[h]) /\ IsInjective(members'[h])
               /\ \A u \in Members'[h] : group_id'[u] = h
    <3>1. CASE h = g
      <4>1. num'[g] = Len(members'[g]) /\ IsInjective(members'[g]) BY <1>f, <1>h
      <4>2. \A u \in Members[g] : u \in SpeThreads \ {t} BY <1>e, Sets
      <4>3. \A u \in Members'[g] : group_id'[u] = g BY <1>c, <1>d, <1>h, <4>2
      <4> QED BY <3>1, <4>1, <4>3
    <3>2. CASE h # g
      <4>1. t \notin Members[h] BY <1>a, GroupsAssumption DEF IInv, Lists
      <4> QED BY <1>c, <1>h, <3>2, <4>1, Sets DEF IInv, Lists
    <3> QED BY <3>1, <3>2
  <2>2. ASSUME NEW u \in Live' PROVE u \in Members'[group_id'[u]]
    <3>1. CASE u = t BY <1>c, <1>h, <3>1
    <3>2. CASE u # t
      <4>1. u \in Live /\ group_id[u] \in Groups /\ group_id'[u] = group_id[u] /\ u \in Members[group_id[u]]
        BY <1>c, <1>k, <2>2, <3>2, Sets DEF IInv, Lists
      <4> QED BY <1>h, <4>1
    <3> QED BY <3>1, <3>2
  <2> QED BY <2>1, <2>2 DEF Lists
<1>7. Single'
  <2>1. g \in OwnGroups => /\ \A u \in SpeThreads : group_id[u] # g
                           /\ \A d \in Callers : gid[d] = g => d = c
    BY <1>1, <1>a DEF IInv, Single
  <2>2. \A u, v \in SpeThreads : group_id'[u] = group_id'[v] /\ group_id'[u] \in OwnGroups => u = v
    BY <1>c, <2>1 DEF IInv, Single
  <2>3. ASSUME NEW d \in Callers, gid'[d] \in OwnGroups
        PROVE  IF pc'[d] = "create_add"
                 THEN /\ \A u \in SpeThreads : group_id'[u] # gid'[d]
                      /\ \A e \in Callers : gid'[e] = gid'[d] => e = d
                 ELSE \E u \in SpeThreads : group_id'[u] = gid'[d]
    <3>1. d # c /\ gid'[d] = gid[d] /\ pc'[d] = pc[d] /\ gid[d] \in OwnGroups
      BY <1>b, <2>3, Sets
    <3>2. gid[d] # g BY <2>1, <3>1
    <3>3. CASE pc[d] = "create_add"
      <4>1. /\ \A u \in SpeThreads : group_id[u] # gid[d]
            /\ \A e \in Callers : gid[e] = gid[d] => e = d
        BY <3>1, <3>3 DEF IInv, Single
      <4>2. \A u \in SpeThreads : group_id'[u] # gid[d] BY <1>c, <3>2, <4>1
      <4>3. gid'[c] # gid[d] BY <1>b, <3>1, Sets
      <4> QED BY <1>b, <3>1, <3>3, <4>1, <4>2, <4>3
    <3>4. CASE pc[d] # "create_add"
      <4>1. PICK u \in SpeThreads : group_id[u] = gid[d] BY <3>1, <3>4 DEF IInv, Single
      <4>2. u # t BY <1>a, <3>1, <4>1, Sets
      <4> QED BY <1>c, <3>1, <3>4, <4>1, <4>2
    <3> QED BY <3>3, <3>4
  <2>4. \A d \in Callers : pc'[d] = "create_limit" => gid'[d] \in SharedGroups
    BY <1>b DEF IInv, Single
  <2>5. ASSUME NEW h \in OwnGroups, deleteMe'[h] PROVE \E u \in SpeThreads : group_id'[u] = h
    <3>1. PICK u \in SpeThreads : group_id[u] = h BY <1>c, <2>5 DEF IInv, Single
    <3>2. u # t BY <1>a, <3>1, Sets
    <3> QED BY <1>c, <3>1, <3>2
  <2>6. ASSUME NEW u \in SpeThreads, group_id'[u] \in OwnGroups, u \notin Live'
        PROVE  Members'[group_id'[u]] = {}
    <3>1. u # t /\ u \notin Live /\ group_id'[u] = group_id[u] BY <1>c, <1>k, <2>6
    <3>2. group_id[u] # g BY <2>1, <2>6, <3>1
    <3>3. Members[group_id[u]] = {} BY <2>6, <3>1 DEF IInv, Single
    <3> QED BY <1>h, <2>6, <3>1, <3>2, <3>3, Sets
  <2> QED BY <2>2, <2>3, <2>4, <2>5, <2>6 DEF Single
<1>8. Findable'
  <2> SUFFICES ASSUME NEW h \in OwnGroups,
                      \/ \E d \in Callers : pc'[d] = "create_add" /\ gid'[d] = h
                      \/ \E u \in Live' : group_id'[u] = h
               PROVE  h \in Found
    BY <1>i DEF Findable
  <2>1. CASE h = g BY <1>1, <1>a, <2>1 DEF IInv, Findable
  <2>2. CASE h # g BY <1>b, <1>c, <1>k, <2>2, Sets DEF IInv, Findable
  <2> QED BY <2>1, <2>2
<1>9. Marked'
  <2> SUFFICES ASSUME NEW h \in OwnGroups, deleteMe[h], h \in Found
               PROVE  \/ Members'[h] # {}
                      \/ \E d \in Callers : gid'[d] = h /\ pc'[d] \in {"destroy_remove", "cleanup_group"}
    BY <1>c, <1>i DEF Marked
  <2>1. CASE Members[h] # {} BY <1>h, <2>1, Sets
  <2>2. CASE \E d \in Callers : gid[d] = h /\ pc[d] \in {"destroy_remove", "cleanup_group"}
    BY <1>a, <1>b, <2>2
  <2> QED BY <2>1, <2>2 DEF IInv, Marked
<1> QED BY <1>3, <1>4, <1>5, <1>6, <1>7, <1>8, <1>9 DEF IInv

LEMMA ThreadEndsStep ==
  ASSUME IInv, NEW t \in SpeThreads, ThreadEnds(t)
  PROVE  IInv'
<1>1. /\ store[t] = "running" /\ store'[t] = "ended"
      /\ \A u \in SpeThreads \ {t} : store'[u] = store[u]
      /\ UNCHANGED <<lists, deleteMe, groups, context, group_id, pc, gid, tid>>
  BY DEF IInv, TypeOK, ThreadEnds
<1>2. Live' = Live BY <1>1 DEF Live
<1>3. Members' = Members /\ Found' = Found BY <1>1 DEF Members, Found, lists
<1>4. TypeOK' BY DEF IInv, TypeOK, ThreadEnds, lists
<1>5. Work' BY <1>1 DEF IInv, Work, Collecting
<1>6. Exist' BY <1>1, <1>3 DEF IInv, Exist
<1>7. Lists' BY <1>1, <1>2, <1>3 DEF IInv, Lists, lists
<1>8. Single' BY <1>1, <1>2, <1>3 DEF IInv, Single
<1>9. Findable' BY <1>1, <1>2, <1>3 DEF IInv, Findable
<1>10. Marked' BY <1>1, <1>3 DEF IInv, Marked
<1> QED BY <1>4, <1>5, <1>6, <1>7, <1>8, <1>9, <1>10 DEF IInv

LEMMA WaitFindStep ==
  ASSUME IInv, NEW c \in Callers, NEW t \in SpeThreads, WaitFind(c, t)
  PROVE  IInv'
<1>1. /\ pc[c] = "idle" /\ store[t] \in {"running", "ended"} /\ \A d \in Callers : tid[d] # t
      /\ pc'[c] = "wait_join" /\ tid'[c] = t /\ gid'[c] = group_id[t]
      /\ \A d \in Callers \ {c} : pc'[d] = pc[d] /\ gid'[d] = gid[d] /\ tid'[d] = tid[d]
      /\ UNCHANGED <<lists, deleteMe, groups, store, context, group_id>>
  BY DEF IInv, TypeOK, WaitFind, Goto
<1>2. group_id[t] \in groups /\ group_id[t] \in Groups
  <2>1. PICK g \in Found : t \in Members[g]
    BY Sets DEF WaitFind, srch_thread, Found, Members
  <2>2. group_id[t] = g /\ g \in Groups BY <2>1, Sets DEF IInv, Lists
  <2> QED BY <2>1, <2>2 DEF IInv, Exist
<1>3. tid[c] = None BY <1>1 DEF IInv, Work, Collecting
<1>4. Live' = Live
  <2>1. ASSUME NEW u \in SpeThreads
        PROVE  (\A d \in Callers : tid'[d] = u => pc'[d] \in {"wait_join", "cleanup_remove"})
               <=> (\A d \in Callers : tid[d] = u => pc[d] \in {"wait_join", "cleanup_remove"})
    BY <1>1, <1>3, GroupsAssumption
  <2> QED BY <1>1, <2>1 DEF Live
<1>5. Members' = Members /\ Found' = Found BY <1>1 DEF Members, Found, lists
<1>6. TypeOK' BY <1>1, <1>2 DEF IInv, TypeOK, WaitFind, Goto, lists
<1>7. Work' BY <1>1, <1>2 DEF IInv, Work, Collecting
<1>8. Exist' BY <1>1, <1>5 DEF IInv, Exist
<1>9. Lists' BY <1>1, <1>4, <1>5 DEF IInv, Lists, lists
<1>10. Single'
  <2>1. ASSUME NEW d \in Callers, gid'[d] \in OwnGroups
        PROVE  IF pc'[d] = "create_add"
                 THEN /\ \A u \in SpeThreads : group_id[u] # gid'[d]
                      /\ \A e \in Callers : gid'[e] = gid'[d] => e = d
                 ELSE \E u \in SpeThreads : group_id[u] = gid'[d]
    <3>1. CASE d = c BY <1>1, <3>1
    <3>2. CASE d # c BY <1>1, <2>1, <3>2 DEF IInv, Single
    <3> QED BY <3>1, <3>2
  <2>2. \A d \in Callers : pc'[d] = "create_limit" => gid'[d] \in SharedGroups
    BY <1>1 DEF IInv, Single
  <2> QED BY <1>1, <1>4, <1>5, <2>1, <2>2 DEF IInv, Single
<1>11. Findable' BY <1>1, <1>4, <1>5 DEF IInv, Findable
<1>12. Marked' BY <1>1, <1>5 DEF IInv, Marked
<1> QED BY <1>6, <1>7, <1>8, <1>9, <1>10, <1>11, <1>12 DEF IInv

LEMMA WaitJoinStep ==
  ASSUME IInv, NEW c \in Callers, WaitJoin(c)
  PROVE  IInv'
<1>1. /\ pc[c] = "wait_join" /\ store[tid[c]] = "ended" /\ pc'[c] = "cleanup_remove"
      /\ \A d \in Callers \ {c} : pc'[d] = pc[d]
      /\ UNCHANGED <<lists, deleteMe, groups, store, group_id, gid, tid>>
  BY DEF IInv, TypeOK, WaitJoin, Goto
<1>2. Live' = Live
  <2>1. \A d \in Callers : pc'[d] \in {"wait_join", "cleanup_remove"}
                           <=> pc[d] \in {"wait_join", "cleanup_remove"}
    BY <1>1
  <2> QED BY <1>1, <2>1 DEF Live
<1>3. Members' = Members /\ Found' = Found BY <1>1 DEF Members, Found, lists
<1>4. TypeOK' BY DEF IInv, TypeOK, WaitJoin, Goto, lists
<1>5. Work' BY <1>1 DEF IInv, Work, Collecting
<1>6. Exist' BY <1>1, <1>3 DEF IInv, Exist
<1>7. Lists' BY <1>1, <1>2, <1>3 DEF IInv, Lists, lists
<1>8. Single' BY <1>1, <1>2, <1>3 DEF IInv, Single
<1>9. Findable' BY <1>1, <1>2, <1>3 DEF IInv, Findable
<1>10. Marked' BY <1>1, <1>3 DEF IInv, Marked
<1> QED BY <1>4, <1>5, <1>6, <1>7, <1>8, <1>9, <1>10 DEF IInv

\* The thread that is taken out is the one that was waited for; of a group made
\* for it, nothing stays.
LEMMA CleanupRemoveStep ==
  ASSUME IInv, NEW c \in Callers, CleanupRemove(c)
  PROVE  IInv'
<1>1. PICK t \in SpeThreads : t = tid[c] BY DEF IInv, Work, Collecting, CleanupRemove
<1>2. PICK g \in Groups : g = gid[c] BY Sets DEF CleanupRemove
<1>a. /\ pc[c] = "cleanup_remove" /\ store[t] = "ended" /\ group_id[t] = g
      /\ \A d \in Callers : tid[d] = t => d = c
  BY <1>1, <1>2 DEF IInv, Work, Collecting, CleanupRemove
<1>b. /\ pc'[c] \in {"cleanup_group", "cleanup_free"}
      /\ \A d \in Callers \ {c} : pc'[d] = pc[d]
      /\ UNCHANGED <<list, deleteMe, groups, store, context, group_id, gid, tid>>
  BY DEF IInv, TypeOK, CleanupRemove, Goto
<1>c. /\ members[g] \in Seq(SpeThreads) /\ IsInjective(members[g]) /\ num[g] = Len(members[g])
      /\ Members[g] = ToSet(members[g])
  BY DEF IInv, TypeOK, Lists, Members
<1>d. t \in Live /\ t \in Members[g]
  <2>1. t \in Live BY <1>1, <1>a DEF Live
  <2> QED BY <1>a, <2>1 DEF IInv, Lists
<1>e. Live' = Live \ {t}
  <2>1. t \notin Live' BY <1>1, <1>b DEF Live
  <2>2. ASSUME NEW u \in SpeThreads \ {t} PROVE u \in Live' <=> u \in Live
    <3>1. (\A d \in Callers : tid'[d] = u => pc'[d] \in {"wait_join", "cleanup_remove"})
          <=> (\A d \in Callers : tid[d] = u => pc[d] \in {"wait_join", "cleanup_remove"})
      BY <1>1, <1>b
    <3> QED BY <1>b, <3>1 DEF Live
  <2>3. Live \subseteq SpeThreads /\ Live' \subseteq SpeThreads BY DEF Live
  <2> QED BY <2>1, <2>2, <2>3
<1>f. g \in OwnGroups => Members[g] = {t} /\ num[g] = 1
  <2> SUFFICES ASSUME g \in OwnGroups PROVE Members[g] = {t} /\ num[g] = 1
    OBVIOUS
  <2>1. \A u \in Members[g] : u = t BY <1>a, Sets DEF IInv, Lists, Single
  <2>2. Members[g] = {t} BY <1>d, <2>1
  <2>3. num[g] \in {0, 1}
    <3>1. PICK s \in Seq(SpeThreads) : s = members[g] BY <1>c
    <3>2. IsInjective(s) /\ ToSet(s) = {t} /\ num[g] = Len(s) BY <1>c, <2>2, <3>1
    <3>3. \A x, y \in ToSet(s) : x = y BY <3>2
    <3>4. Len(s) \in {0, 1} BY <3>2, <3>3, ShortLists
    <3> QED BY <3>2, <3>4
  <2>4. num[g] # 0 BY <2>2, Sets
  <2> QED BY <2>2, <2>3, <2>4
<1>g. /\ members' \in [Groups -> Seq(SpeThreads)] /\ num' \in [Groups -> Nat]
      /\ num'[g] = Len(members'[g]) /\ IsInjective(members'[g])
      /\ \A h \in Groups \ {g} : members'[h] = members[h] /\ num'[h] = num[h]
      /\ Members[g] \ {t} \subseteq ToSet(members'[g]) /\ ToSet(members'[g]) \subseteq Members[g]
      /\ num[g] = 1 => ToSet(members'[g]) = {} /\ pc'[c] = "cleanup_group"
  <2>0. members \in [Groups -> Seq(SpeThreads)] /\ num \in [Groups -> Nat]
    BY DEF IInv, TypeOK
  <2>1. CASE num[g] = 1
    <3>1. members' = [members EXCEPT ![g] = <<>>] /\ num' = [num EXCEPT ![g] = 0]
          /\ pc'[c] = "cleanup_group"
      BY <1>2, <2>1 DEF IInv, TypeOK, CleanupRemove, Goto
    <3>2. ToSet(<<>>) = {} /\ IsInjective(<<>>) /\ Len(<<>>) = 0 /\ <<>> \in Seq(SpeThreads)
      BY DEF ToSet, IsInjective
    <3>3. \A x, y \in Members[g] : x = y
      <4>1. PICK s \in Seq(SpeThreads) : s = members[g] BY <1>c
      <4>2. Len(s) = 1 /\ ToSet(s) = Members[g] BY <1>c, <2>1, <4>1
      <4>3. \A x, y \in ToSet(s) : x = y BY <4>2, ShortLists
      <4> QED BY <4>2, <4>3
    <3>4. Members[g] \ {t} = {} BY <1>d, <3>3
    <3> QED BY <2>0, <3>1, <3>2, <3>4
  <2>2. CASE num[g] # 1 /\ UNCHANGED <<members, num>>
    BY <1>c, <2>0, <2>2
  <2>3. CASE num[g] # 1 /\ ~ UNCHANGED <<members, num>>
    <3>1. PICK i \in 2 .. Len(members[g]) :
            /\ members[g][i] = t
            /\ members' = [members EXCEPT ![g] = RemoveAt(@, i)]
            /\ num' = [num EXCEPT ![g] = @ - 1]
      BY <1>1, <1>2, <2>3 DEF CleanupRemove
    <3>2. i \in 1 .. Len(members[g]) /\ Len(members[g]) \in Nat /\ Len(members[g]) >= 1
      BY <1>c
    <3>3. /\ RemoveAt(members[g], i) \in Seq(SpeThreads) /\ IsInjective(RemoveAt(members[g], i))
          /\ ToSet(RemoveAt(members[g], i)) = Members[g] \ {t}
          /\ Len(RemoveAt(members[g], i)) = Len(members[g]) - 1
      BY <1>c, <3>1, <3>2, ShortenedList
    <3>4. num[g] - 1 \in Nat BY <1>c, <3>2
    <3>5. num'[g] = num[g] - 1 /\ members'[g] = RemoveAt(members[g], i) BY <2>0, <3>1
    <3> QED BY <1>c, <2>0, <2>3, <3>1, <3>3, <3>4, <3>5
  <2> QED BY <2>1, <2>2, <2>3
<1>h. /\ Members'[g] = ToSet(members'[g]) /\ \A h \in Groups \ {g} : Members'[h] = Members[h]
  BY <1>g DEF Members
<1>i. Found' = Found BY <1>b DEF Found
<1>3. TypeOK'
  <2>1. pc' \in [Callers -> {"idle", "create_limit", "create_add", "wait_join",
                             "cleanup_remove", "cleanup_group", "cleanup_free",
                             "destroy_mark", "destroy_remove"}]
    BY DEF IInv, TypeOK, CleanupRemove, Goto
  <2> QED BY <1>b, <1>g, <2>1 DEF IInv, TypeOK
<1>4. Work' BY <1>a, <1>b DEF IInv, Work, Collecting
<1>5. Exist' BY <1>b, <1>i DEF IInv, Exist
<1>6. Lists'
  <2>1. ASSUME NEW h \in Groups
        PROVE  num'[h] = Len(members'[h]) /\ IsInjective(members'[h])
               /\ \A u \in Members'[h] : group_id'[u] = h
    <3>1. CASE h = g BY <1>b, <1>g, <1>h, <3>1 DEF IInv, Lists
    <3>2. CASE h # g BY <1>b, <1>g, <1>h, <3>2 DEF IInv, Lists
    <3> QED BY <3>1, <3>2
  <2>2. ASSUME NEW u \in Live' PROVE u \in Members'[group_id'[u]]
    <3>1. u \in Live /\ u # t /\ u \in Members[group_id[u]] /\ group_id[u] \in Groups
          /\ group_id' = group_id
      BY <1>b, <1>e, <2>2, Sets DEF IInv, Lists
    <3>2. CASE group_id[u] = g BY <1>g, <1>h, <3>1, <3>2
    <3>3. CASE group_id[u] # g BY <1>h, <3>1, <3>3
    <3> QED BY <3>2, <3>3
  <2> QED BY <2>1, <2>2 DEF Lists
<1>7. Single'
  <2>1. ASSUME NEW u \in SpeThreads, group_id[u] \in OwnGroups, u \notin Live'
        PROVE  Members'[group_id[u]] = {}
    <3>1. CASE u = t BY <1>a, <1>f, <1>g, <1>h, <2>1, <3>1
    <3>2. CASE u # t
      <4>1. group_id[u] # g BY <1>a, <2>1, <3>2 DEF IInv, Single
      <4>2. Members[group_id[u]] = {} BY <1>e, <2>1, <3>2 DEF IInv, Single
      <4> QED BY <1>h, <2>1, <4>1, <4>2, Sets
    <3> QED BY <3>1, <3>2
  <2>2. \A d \in Callers : /\ pc'[d] = "create_limit" <=> pc[d] = "create_limit"
                           /\ pc'[d] = "create_add" <=> pc[d] = "create_add"
    BY <1>a, <1>b
  <2> QED BY <1>b, <2>1, <2>2 DEF IInv, Single
<1>8. Findable' BY <1>a, <1>b, <1>e, <1>i DEF IInv, Findable
<1>9. Marked'
  <2> SUFFICES ASSUME NEW h \in OwnGroups, deleteMe[h], h \in Found
               PROVE  \/ Members'[h] # {}
                      \/ \E d \in Callers : gid[d] = h /\ pc'[d] \in {"destroy_remove", "cleanup_group"}
    BY <1>b, <1>i DEF Marked
  <2>1. CASE h = g BY <1>2, <1>f, <1>g, <2>1
  <2>2. CASE h # g /\ Members[h] # {} BY <1>h, <2>2, Sets
  <2>3. CASE \E d \in Callers : gid[d] = h /\ pc[d] \in {"destroy_remove", "cleanup_group"}
    BY <1>a, <1>b, <2>3
  <2> QED BY <2>1, <2>2, <2>3 DEF IInv, Marked
<1> QED BY <1>3, <1>4, <1>5, <1>6, <1>7, <1>8, <1>9 DEF IInv

LEMMA CleanupGroupStep ==
  ASSUME IInv, NEW c \in Callers, CleanupGroup(c)
  PROVE  IInv'
<1>1. PICK t \in SpeThreads : t = tid[c] BY DEF IInv, Work, Collecting, CleanupGroup
<1>2. PICK g \in Groups : g = gid[c] BY Sets DEF CleanupGroup
<1>a. pc[c] = "cleanup_group" /\ group_id[t] = g
  BY <1>1, <1>2 DEF IInv, Work, Collecting, CleanupGroup
<1>b. /\ pc'[c] = "cleanup_free" /\ \A d \in Callers \ {c} : pc'[d] = pc[d]
      /\ UNCHANGED <<members, num, deleteMe, groups, store, context, group_id, gid, tid>>
  BY DEF IInv, TypeOK, CleanupGroup, Goto
<1>c. Live' = Live
  <2>1. \A d \in Callers : pc'[d] \in {"wait_join", "cleanup_remove"}
                           <=> pc[d] \in {"wait_join", "cleanup_remove"}
    BY <1>a, <1>b
  <2> QED BY <1>b, <2>1 DEF Live
<1>d. t \notin Live BY <1>1, <1>a DEF Live
<1>e. Members' = Members BY <1>b DEF Members
<1>f. /\ list' \in Seq(Groups) /\ IsInjective(list')
      /\ Found' = Found \/ (Found' = Found \ {g} /\ Members[g] = {})
      /\ deleteMe[g] /\ Members[g] = {} => g \notin Found'
  <2>1. CASE deleteMe[g]
    <3>1. remove_group_from_groups(g) BY <1>2, <2>1 DEF CleanupGroup
    <3> QED BY <3>1, Unlisted
  <2>2. CASE ~ deleteMe[g]
    <3>1. UNCHANGED list BY <1>2, <2>2 DEF CleanupGroup
    <3> QED BY <2>2, <3>1 DEF IInv, TypeOK, Found
  <2> QED BY <2>1, <2>2
<1>g. g \in OwnGroups => Members[g] = {}
  BY <1>a, <1>d DEF IInv, Single
<1>3. TypeOK'
  <2>1. pc' = [pc EXCEPT ![c] = "cleanup_free"] BY DEF CleanupGroup, Goto
  <2> QED BY <1>b, <1>f, <2>1 DEF IInv, TypeOK
<1>4. Work' BY <1>a, <1>b DEF IInv, Work, Collecting
<1>5. Exist' BY <1>b, <1>f DEF IInv, Exist
<1>6. Lists' BY <1>b, <1>c, <1>e DEF IInv, Lists
<1>7. Single' BY <1>a, <1>b, <1>c, <1>e DEF IInv, Single
<1>8. Findable'
  <2> SUFFICES ASSUME NEW h \in OwnGroups,
                      \/ \E d \in Callers : pc'[d] = "create_add" /\ gid[d] = h
                      \/ \E u \in Live : group_id[u] = h
               PROVE  h \in Found'
    BY <1>b, <1>c DEF Findable
  <2>1. \/ \E d \in Callers : pc[d] = "create_add" /\ gid[d] = h
        \/ \E u \in Live : group_id[u] = h
    BY <1>a, <1>b
  <2>2. h \in Found BY <2>1 DEF IInv, Findable
  <2>3. h # g
    <3>1. ASSUME h = g, NEW d \in Callers, pc[d] = "create_add", gid[d] = h PROVE FALSE
      BY <1>a, <3>1 DEF IInv, Single
    <3>2. ASSUME h = g, NEW u \in Live, group_id[u] = h PROVE FALSE
      BY <1>a, <1>d, <3>2, Sets DEF IInv, Single
    <3> QED BY <2>1, <3>1, <3>2
  <2> QED BY <1>f, <2>2, <2>3
<1>9. Marked'
  <2> SUFFICES ASSUME NEW h \in OwnGroups, deleteMe[h], h \in Found'
               PROVE  \/ Members[h] # {}
                      \/ \E d \in Callers : gid[d] = h /\ pc'[d] \in {"destroy_remove", "cleanup_group"}
    BY <1>b, <1>e DEF Marked
  <2>1. h # g /\ h \in Found BY <1>f, <1>g
  <2>2. CASE Members[h] # {} BY <2>2
  <2>3. CASE \E d \in Callers : gid[d] = h /\ pc[d] \in {"destroy_remove", "cleanup_group"}
    BY <1>2, <1>b, <2>1, <2>3
  <2> QED BY <2>1, <2>2, <2>3 DEF IInv, Marked
<1> QED BY <1>3, <1>4, <1>5, <1>6, <1>7, <1>8, <1>9 DEF IInv

LEMMA CleanupFreeStep ==
  ASSUME IInv, NEW c \in Callers, CleanupFree(c)
  PROVE  IInv'
<1>1. PICK t \in SpeThreads : t = tid[c] BY DEF IInv, Work, Collecting, CleanupFree
<1>a. pc[c] = "cleanup_free" /\ store[t] = "ended" /\ \A d \in Callers : tid[d] = t => d = c
  BY <1>1 DEF IInv, Work, Collecting, CleanupFree
<1>b. /\ pc'[c] = "idle" /\ gid'[c] = None /\ tid'[c] = None
      /\ \A d \in Callers \ {c} : pc'[d] = pc[d] /\ gid'[d] = gid[d] /\ tid'[d] = tid[d]
      /\ store'[t] = "freed" /\ \A u \in SpeThreads \ {t} : store'[u] = store[u]
      /\ UNCHANGED <<lists, deleteMe, groups, context, group_id>>
  BY <1>1 DEF IInv, TypeOK, CleanupFree, Return, Goto
<1>c. Live' = Live
  <2>1. t \notin Live /\ t \notin Live' BY <1>1, <1>a, <1>b DEF Live
  <2>2. ASSUME NEW u \in SpeThreads \ {t} PROVE u \in Live' <=> u \in Live
    <3>1. (\A d \in Callers : tid'[d] = u => pc'[d] \in {"wait_join", "cleanup_remove"})
          <=> (\A d \in Callers : tid[d] = u => pc[d] \in {"wait_join", "cleanup_remove"})
      BY <1>1, <1>b, GroupsAssumption
    <3> QED BY <1>b, <3>1 DEF Live
  <2>3. Live \subseteq SpeThreads /\ Live' \subseteq SpeThreads BY DEF Live
  <2> QED BY <2>1, <2>2, <2>3
<1>d. Members' = Members /\ Found' = Found BY <1>b DEF Members, Found, lists
<1>2. TypeOK' BY <1>1 DEF IInv, TypeOK, CleanupFree, Return, Goto, lists
<1>3. Work'
  <2>1. \A d \in Callers : pc[d] \in Collecting /\ d # c => tid[d] \in SpeThreads \ {t}
    BY <1>a DEF IInv, Work
  <2>2. None \notin SpeThreads BY GroupsAssumption
  <2> QED BY <1>b, <2>1, <2>2 DEF IInv, Work, Collecting
<1>4. Exist' BY <1>a, <1>b, <1>d DEF IInv, Exist
<1>5. Lists' BY <1>b, <1>c, <1>d DEF IInv, Lists, lists
<1>6. Single'
  <2>1. gid'[c] \notin OwnGroups BY <1>b, Sets
  <2> QED BY <1>b, <1>c, <1>d, <2>1 DEF IInv, Single
<1>7. Findable' BY <1>b, <1>c, <1>d DEF IInv, Findable
<1>8. Marked' BY <1>a, <1>b, <1>d DEF IInv, Marked
<1> QED BY <1>2, <1>3, <1>4, <1>5, <1>6, <1>7, <1>8 DEF IInv

\* A caller knows a group made for a thread only through the thread.
LEMMA DestroyFindStep ==
  ASSUME IInv, NEW c \in Callers, NEW g \in Groups, DestroyFind(c, g)
  PROVE  IInv'
<1>1. /\ pc[c] = "idle" /\ g \in Found /\ g \in groups
      /\ g \in SharedGroups \/ \E t \in SpeThreads : group_id[t] = g
      /\ pc'[c] = "destroy_mark" /\ gid'[c] = g
      /\ \A d \in Callers \ {c} : pc'[d] = pc[d] /\ gid'[d] = gid[d]
      /\ UNCHANGED <<lists, deleteMe, groups, store, context, group_id, tid>>
  BY DEF IInv, TypeOK, Exist, DestroyFind, Goto, srch_group, Found
<1>2. Live' = Live /\ Members' = Members /\ Lists' BY <1>1, CallerKeeps DEF Collecting, lists
<1>3. Found' = Found BY <1>1 DEF Found, lists
<1>4. TypeOK'
  <2>1. pc' = [pc EXCEPT ![c] = "destroy_mark"] /\ gid' = [gid EXCEPT ![c] = g]
    BY DEF DestroyFind, Goto
  <2> QED BY <1>1, <2>1 DEF IInv, TypeOK, lists
<1>5. Work' BY <1>1 DEF IInv, Work, Collecting
<1>6. Exist' BY <1>1, <1>3 DEF IInv, Exist
<1>7. Single'
  <2>1. ASSUME NEW d \in Callers, gid'[d] \in OwnGroups
        PROVE  IF pc'[d] = "create_add"
                 THEN /\ \A u \in SpeThreads : group_id[u] # gid'[d]
                      /\ \A e \in Callers : gid'[e] = gid'[d] => e = d
                 ELSE \E u \in SpeThreads : group_id[u] = gid'[d]
    <3>1. CASE d = c BY <1>1, <2>1, <3>1 DEF OwnGroups
    <3>2. CASE d # c
      <4>1. pc'[d] = pc[d] /\ gid'[d] = gid[d] BY <1>1, <3>2
      <4>2. CASE pc[d] = "create_add"
        <5>1. /\ \A u \in SpeThreads : group_id[u] # gid[d]
              /\ \A e \in Callers : gid[e] = gid[d] => e = d
          BY <2>1, <4>1, <4>2 DEF IInv, Single
        <5>2. gid[d] # g BY <1>1, <2>1, <4>1, <5>1 DEF OwnGroups
        <5> QED BY <1>1, <4>1, <4>2, <5>1, <5>2
      <4>3. CASE pc[d] # "create_add" BY <2>1, <4>1, <4>3 DEF IInv, Single
      <4> QED BY <4>2, <4>3
    <3> QED BY <3>1, <3>2
  <2>2. \A d \in Callers : pc'[d] = "create_limit" => gid'[d] \in SharedGroups
    BY <1>1 DEF IInv, Single
  <2> QED BY <1>1, <1>2, <2>1, <2>2 DEF IInv, Single
<1>8. Findable' BY <1>1, <1>2, <1>3 DEF IInv, Findable
<1>9. Marked' BY <1>1, <1>2, <1>3 DEF IInv, Marked
<1> QED BY <1>2, <1>4, <1>5, <1>6, <1>7, <1>8, <1>9 DEF IInv

LEMMA DestroyMarkStep ==
  ASSUME IInv, NEW c \in Callers, DestroyMark(c)
  PROVE  IInv'
<1>1. PICK g \in Groups : g = gid[c] BY Sets DEF DestroyMark
<1>2. /\ pc[c] = "destroy_mark" /\ g \in groups
      /\ pc'[c] = "destroy_remove" /\ \A d \in Callers \ {c} : pc'[d] = pc[d]
      /\ deleteMe'[g] /\ \A h \in Groups \ {g} : deleteMe'[h] = deleteMe[h]
      /\ UNCHANGED <<lists, groups, store, context, group_id, gid, tid>>
  BY <1>1 DEF IInv, TypeOK, Work, DestroyMark, Goto
<1>3. Live' = Live /\ Members' = Members /\ Lists' BY <1>2, CallerKeeps DEF Collecting, lists
<1>4. Found' = Found BY <1>2 DEF Found, lists
<1>5. TypeOK'
  <2>1. pc' = [pc EXCEPT ![c] = "destroy_remove"] /\ deleteMe' = [deleteMe EXCEPT ![g] = TRUE]
    BY <1>1 DEF DestroyMark, Goto
  <2> QED BY <1>2, <2>1 DEF IInv, TypeOK, lists
<1>6. Work' BY <1>2 DEF IInv, Work, Collecting
<1>7. Exist' BY <1>2, <1>4 DEF IInv, Exist
<1>8. Single'
  <2>1. g \in OwnGroups => \E t \in SpeThreads : group_id[t] = g
    BY <1>1, <1>2 DEF IInv, Single
  <2>2. \A h \in OwnGroups : deleteMe'[h] => \E t \in SpeThreads : group_id[t] = h
    BY <1>2, <2>1, Sets DEF IInv, Single
  <2> QED BY <1>2, <1>3, <2>2 DEF IInv, Single
<1>9. Findable' BY <1>2, <1>3, <1>4 DEF IInv, Findable
<1>10. Marked'
  <2> SUFFICES ASSUME NEW h \in OwnGroups, deleteMe'[h], h \in Found
               PROVE  \/ Members[h] # {}
                      \/ \E d \in Callers : gid[d] = h /\ pc'[d] \in {"destroy_remove", "cleanup_group"}
    BY <1>2, <1>3, <1>4 DEF Marked
  <2>1. CASE h = g BY <1>1, <1>2, <2>1
  <2>2. CASE h # g
    <3>1. deleteMe[h] BY <1>2, <2>2, Sets
    <3> QED BY <1>2, <3>1 DEF IInv, Marked
  <2> QED BY <2>1, <2>2
<1> QED BY <1>3, <1>5, <1>6, <1>7, <1>8, <1>9, <1>10 DEF IInv

LEMMA DestroyRemoveStep ==
  ASSUME IInv, NEW c \in Callers, DestroyRemove(c)
  PROVE  IInv'
<1>1. PICK g \in Groups : g = gid[c] BY Sets DEF DestroyRemove
<1>a. pc[c] = "destroy_remove" /\ tid[c] = None BY DEF IInv, Work, Collecting, DestroyRemove
<1>b. /\ pc'[c] = "idle" /\ gid'[c] = None /\ tid' = tid
      /\ \A d \in Callers \ {c} : pc'[d] = pc[d] /\ gid'[d] = gid[d]
      /\ UNCHANGED <<members, num, deleteMe, groups, store, context, group_id>>
  BY <1>a DEF IInv, TypeOK, DestroyRemove, Return, Goto
<1>c. /\ list' \in Seq(Groups) /\ IsInjective(list')
      /\ Members[g] = {} => Found' = Found \ {g}
      /\ Members[g] # {} => Found' = Found
  <2>1. remove_group_from_groups(g) BY <1>1 DEF DestroyRemove
  <2> QED BY <2>1, Unlisted
<1>2. Live' = Live /\ Members' = Members /\ Lists' BY <1>a, <1>b, CallerKeeps DEF Collecting
<1>3. TypeOK'
  <2>1. pc' = [pc EXCEPT ![c] = "idle"] /\ gid' = [gid EXCEPT ![c] = None]
    BY DEF DestroyRemove, Return, Goto
  <2> QED BY <1>b, <1>c, <2>1 DEF IInv, TypeOK
<1>4. Work' BY <1>a, <1>b DEF IInv, Work, Collecting
<1>5. Exist' BY <1>b, <1>c DEF IInv, Exist
<1>6. Single'
  <2>1. gid'[c] \notin OwnGroups BY <1>b, Sets
  <2> QED BY <1>b, <1>2, <2>1 DEF IInv, Single
<1>7. Findable'
  <2> SUFFICES ASSUME NEW h \in OwnGroups,
                      \/ \E d \in Callers : pc'[d] = "create_add" /\ gid'[d] = h
                      \/ \E u \in Live : group_id[u] = h
               PROVE  h \in Found'
    BY <1>b, <1>2 DEF Findable
  <2>1. \/ \E d \in Callers : pc[d] = "create_add" /\ gid[d] = h
        \/ \E u \in Live : group_id[u] = h
    BY <1>b
  <2>2. h \in Found BY <2>1 DEF IInv, Findable
  <2>3. ASSUME h = g PROVE Members[g] # {}
    <3>1. PICK t \in SpeThreads : group_id[t] = g BY <1>1, <1>a, <2>3 DEF IInv, Single
    <3>2. ~ \E d \in Callers : pc[d] = "create_add" /\ gid[d] = g
      BY <2>3, <3>1 DEF IInv, Single
    <3>3. PICK u \in Live : group_id[u] = g BY <2>1, <2>3, <3>2
    <3> QED BY <3>3 DEF IInv, Lists
  <2> QED BY <1>c, <2>2, <2>3
<1>8. Marked'
  <2> SUFFICES ASSUME NEW h \in OwnGroups, deleteMe[h], h \in Found'
               PROVE  \/ Members[h] # {}
                      \/ \E d \in Callers : gid'[d] = h /\ pc'[d] \in {"destroy_remove", "cleanup_group"}
    BY <1>b, <1>2 DEF Marked
  <2>1. CASE h = g BY <1>c, <2>1
  <2>2. CASE h # g
    <3>1. h \in Found BY <1>c
    <3> QED BY <1>1, <1>b, <2>2, <3>1 DEF IInv, Marked
  <2> QED BY <2>1, <2>2
<1> QED BY <1>2, <1>3, <1>4, <1>5, <1>6, <1>7, <1>8 DEF IInv

\* Each step keeps the lists and counters together, and the groups of a single
\* thread as long as it is in use.
LEMMA NextIInv == IInv /\ [Next]_vars => IInv'
<1> SUFFICES ASSUME IInv, [Next]_vars PROVE IInv'
  OBVIOUS
<1>1. ASSUME NEW c \in Callers, NEW g \in Groups,
             CreateGroup(c, g) \/ CreateFind(c, g) \/ CreateDefault(c, g) \/ DestroyFind(c, g)
      PROVE  IInv'
  BY <1>1, CreateGroupStep, CreateFindStep, CreateDefaultStep, DestroyFindStep
<1>2. ASSUME NEW c \in Callers, NEW t \in SpeThreads, CreateAdd(c, t) \/ WaitFind(c, t)
      PROVE  IInv'
  BY <1>2, CreateAddStep, WaitFindStep
<1>3. ASSUME NEW c \in Callers,
             CreateLimit(c) \/ CreateFails(c) \/ WaitJoin(c) \/ CleanupRemove(c) \/ CleanupGroup(c)
             \/ CleanupFree(c) \/ DestroyMark(c) \/ DestroyRemove(c)
      PROVE  IInv'
  BY <1>3, CreateLimitStep, CreateFailsStep, WaitJoinStep, CleanupRemoveStep, CleanupGroupStep,
     CleanupFreeStep, DestroyMarkStep, DestroyRemoveStep
<1>4. ASSUME NEW t \in SpeThreads, ThreadEnds(t) PROVE IInv'
  BY <1>4, ThreadEndsStep
<1>5. ASSUME UNCHANGED vars PROVE IInv'
  <2>1. Live' = Live /\ Members' = Members /\ Found' = Found
    BY <1>5 DEF vars, lists, Live, Members, Found
  <2>2. TypeOK' BY <1>5 DEF IInv, TypeOK, vars, lists
  <2>3. Work' /\ Exist' BY <1>5, <2>1 DEF IInv, Work, Exist, vars
  <2>4. Lists' BY <1>5, <2>1 DEF IInv, Lists, vars, lists
  <2>5. Single' BY <1>5, <2>1 DEF IInv, Single, vars
  <2>6. Findable' /\ Marked' BY <1>5, <2>1 DEF IInv, Findable, Marked, vars
  <2> QED BY <2>2, <2>3, <2>4, <2>5, <2>6 DEF IInv
<1> QED BY <1>1, <1>2, <1>3, <1>4, <1>5 DEF Next

THEOREM Invariance == Spec => []IInv
BY InitIInv, NextIInv, PTL DEF Spec

\* Every variable of the groups keeps its type.
THEOREM TypeCorrect == Spec => []TypeOK
<1>1. IInv => TypeOK BY DEF IInv
<1> QED BY <1>1, Invariance, PTL

\* The counter of each group is the length of its list, and a thread that nobody
\* is taking out is in the list of its group once and in no other, for any number
\* of callers, groups and threads.
THEOREM MembershipHolds == Spec => []Membership
<1>1. IInv => Membership
  <2> SUFFICES ASSUME IInv, NEW g \in Groups, NEW t \in SpeThreads,
                      store[t] \in {"running", "unstarted", "ended"},
                      \A c \in Callers : tid[c] = t => pc[c] = "wait_join"
               PROVE  Cardinality({i \in 1 .. Len(members[g]) : members[g][i] = t})
                        = IF g = group_id[t] THEN 1 ELSE 0
    BY DEF Membership, IInv, Lists
  <2>1. t \in Live BY DEF Live
  <2>2. DOMAIN members[g] = 1 .. Len(members[g]) BY DEF IInv, TypeOK
  <2>3. CASE g = group_id[t]
    <3>1. t \in ToSet(members[g]) BY <2>1, <2>3 DEF IInv, Lists, Members
    <3>2. PICK k \in 1 .. Len(members[g]) : members[g][k] = t BY <2>2, <3>1 DEF ToSet
    <3>3. {i \in 1 .. Len(members[g]) : members[g][i] = t} = {k}
      BY <2>2, <3>2 DEF IInv, Lists, IsInjective
    <3> QED BY <2>3, <3>3, FS_Singleton
  <2>4. CASE g # group_id[t]
    <3>1. t \notin ToSet(members[g]) BY <2>4 DEF IInv, Lists, Members
    <3>2. {i \in 1 .. Len(members[g]) : members[g][i] = t} = {} BY <2>2, <3>1 DEF ToSet
    <3> QED BY <2>4, <3>2, FS_EmptySet
  <2> QED BY <2>3, <2>4
<1> QED BY <1>1, Invariance, PTL

\* Of the groups made for a single thread, no thread that was freed can be found.
THEOREM OwnFreedIsGoneHolds == Spec => []OwnFreedIsGone
<1>1. IInv => OwnFreedIsGone
  <2> SUFFICES ASSUME IInv, NEW t \in SpeThreads, store[t] = "freed", group_id[t] \in OwnGroups,
                      NEW g \in ToSet(list), t \in ToSet(members[g])
               PROVE  FALSE
    BY DEF OwnFreedIsGone, FreedIsGoneFrom, srch_thread
  <2>1. g \in Groups /\ t \in Members[g] BY Sets DEF Found, Members
  <2>2. group_id[t] = g BY <2>1 DEF IInv, Lists
  <2>3. t \notin Live BY DEF Live
  <2> QED BY <2>1, <2>2, <2>3 DEF IInv, Single
<1> QED BY <1>1, Invariance, PTL

\* Of those groups, none that was marked stays behind when its thread was freed.
THEOREM OwnMarkedGroupGoesHolds == Spec => []OwnMarkedGroupGoes
<1>1. IInv => OwnMarkedGroupGoes
  <2> SUFFICES ASSUME IInv, NEW g \in OwnGroups, deleteMe[g], \A c \in Callers : gid[c] # g,
                      \A t \in SpeThreads : group_id[t] = g => store[t] = "freed",
                      g \in ToSet(list)
               PROVE  FALSE
    BY DEF OwnMarkedGroupGoes, MarkedGoes, srch_group
  <2>1. g \in Groups /\ Members[g] # {} BY Sets DEF IInv, Marked, Found
  <2>2. PICK t \in SpeThreads : t \in Members[g] BY <2>1, Sets
  <2>3. group_id[t] = g /\ t \notin Live BY <2>1, <2>2 DEF IInv, Lists, Live
  <2> QED BY <2>1, <2>3 DEF IInv, Single
<1> QED BY <1>1, Invariance, PTL

\* Of those groups, a thread that runs is found.
THEOREM OwnRunningIsFoundHolds == Spec => []OwnRunningIsFound
<1>1. IInv => OwnRunningIsFound
  <2> SUFFICES ASSUME IInv, NEW t \in SpeThreads, store[t] = "running", group_id[t] \in OwnGroups
               PROVE  srch_thread(t)
    BY DEF OwnRunningIsFound, RunningIsFoundIn
  <2>1. t \in Live
    <3>1. ASSUME NEW c \in Callers, tid[c] = t PROVE pc[c] = "wait_join"
      <4>1. pc[c] \in Collecting BY <3>1, GroupsAssumption DEF IInv, Work
      <4> QED BY <3>1, <4>1 DEF IInv, Work
    <3> QED BY <3>1 DEF Live
  <2>2. group_id[t] \in Found BY <2>1 DEF IInv, Findable
  <2>3. t \in Members[group_id[t]] /\ group_id[t] \in Groups BY <2>1, Sets DEF IInv, Lists
  <2> QED BY <2>2, <2>3 DEF srch_thread, Found, Members
<1> QED BY <1>1, Invariance, PTL

-----------------------------------------------------------------------------
(* SpeThread: what the application and the thread are at *)

\* Where a run may follow, of which there are MaxRuns.
Repeating == {"run", "event_lock", "stop_slot", "stop_data", "stop_write", "event_sleep",
              "event_wait", "event_wake", "event_unlock", "loop"}
Bounded == (place \in Repeating \/ ret = "stop") => runs < MaxRuns

\* From the store of an event to the write to the pipe.
Storing == {"stop_data", "stop_write", "error_data", "error_write", "exit_data", "exit_write"}

\* Where an event waits for its answer, and where no other follows it.
Unanswered == {"stop_data", "stop_write", "event_sleep", "event_wait"}
Final == {"error_data", "error_write", "error_unlock", "error_done",
         "exit_data", "exit_write", "finish", "done"}

\* The application that answers sends no SIGKILL.
Calm == /\ ~ killed /\ ~ cancelled /\ place # "cancelled"
        /\ \A c \in Senders : sig[c] \in {"SIGCONT", NoOne}

\* The calls of spe_kill that have not reached the thread.
InFlight == {c \in Senders : sig[c] # NoOne}

\* The thread goes on after an event only with an answer of its own, and there is
\* none before the event was received.
Answers ==
  /\ answered <= Len(seen)
  /\ place \notin Final \cup Unanswered => Len(sent) + Cardinality(InFlight) <= answered
  /\ place \in Unanswered => Len(sent) + Cardinality(InFlight) <= answered + 1

\* So all but the latest event were received, as they were sent,
Order ==
  /\ Len(seen) <= Len(sent) /\ Len(sent) <= Len(seen) + 1
  /\ \A i \in 1 .. Len(seen) : seen[i][1] = sent[i][1]

\* without it slot and pipe are empty,
Quiet ==
  Len(sent) = Len(seen) =>
    event = "none" /\ ev_pipe = <<>> /\ reader \in {"idle", "poll"} /\ place \notin Storing

\* and the latest one is in the slot and, once it was written to it and until the
\* reader took it from there, in the pipe.
Latest ==
  Len(sent) = Len(seen) + 1 =>
    LET kind == sent[Len(sent)][1] IN
    /\ event = kind
    /\ reader \notin {"idle", "poll"} => got[1] = kind
    /\ place \in Storing => /\ place \in {DataOf[kind], WriteOf[kind]}
                            /\ reader \in {"idle", "poll", "slot_read"}
    /\ ev_pipe = IF place \in Storing \/ reader \notin {"idle", "poll", "slot_read"}
                   THEN <<>> ELSE <<kind>>

Answering == Calm /\ Answers /\ Order /\ Quiet /\ Latest

\* Every wait with an event has ended by an answer.
Answered == application = "answers" /\ ~ spurious

ThreadIInv == ThreadTypeOK /\ Bounded /\ (Answered => Answering)

\* What holds for any application, and the Boolean part of it.
ThreadTypes == ThreadTypeOK /\ Bounded
Booleans == /\ use_events \in BOOLEAN /\ stop \in BOOLEAN /\ killed \in BOOLEAN
            /\ event_pending \in BOOLEAN /\ cancelled \in BOOLEAN /\ spurious \in BOOLEAN

-----------------------------------------------------------------------------
\* The labels of each kind of event.
LEMMA LabelsOf ==
  /\ SlotOf["stop"] = "stop_slot" /\ SlotOf["error"] = "error_slot"
  /\ SlotOf["exit"] = "exit_slot"
  /\ DataOf["stop"] = "stop_data" /\ DataOf["error"] = "error_data"
  /\ DataOf["exit"] = "exit_data"
  /\ WriteOf["stop"] = "stop_write" /\ WriteOf["error"] = "error_write"
  /\ WriteOf["exit"] = "exit_write"
  /\ AfterWrite["stop"] = "event_sleep" /\ AfterWrite["error"] = "error_unlock"
  /\ AfterWrite["exit"] = "finish"
BY DEF SlotOf, DataOf, WriteOf, AfterWrite


LEMMA InitThreadIInv == ThreadInit => ThreadIInv
<1> SUFFICES ASSUME ThreadInit PROVE ThreadIInv OBVIOUS
<1>1. ThreadTypeOK
  <2>1. Booleans BY DEF ThreadInit, Booleans
  <2>2. got \in (Kinds \cup {"none"}) \X (0 .. MaxRuns) BY ThreadAssumption DEF ThreadInit
  <2>3. /\ sent \in Seq(Kinds \X (0 .. MaxRuns)) /\ seen \in Seq((Kinds \cup {"none"}) \X (0 .. MaxRuns))
        /\ ev_pipe \in Seq(Kinds \cup {"none"}) /\ Len(ev_pipe) <= PipeSize
    BY ThreadAssumption DEF ThreadInit
  <2>4. sig \in [Senders -> Signals \cup {NoOne}] BY DEF ThreadInit
  <2> QED
    BY <2>1, <2>2, <2>3, <2>4, ThreadAssumption DEF ThreadInit, ThreadTypeOK, Places, Booleans
<1>2. Bounded BY ThreadAssumption DEF ThreadInit, Bounded
<1>3. InFlight = {} BY DEF ThreadInit, InFlight
<1>4. Len(sent) = 0 /\ Len(seen) = 0 BY DEF ThreadInit
<1>5. Cardinality(InFlight) = 0 BY <1>3, FS_EmptySet
<1>6. Answering
  BY <1>4, <1>5 DEF ThreadInit, Answering, Calm, Answers, Order, Quiet, Latest, Storing, Unanswered, Final
<1> QED BY <1>1, <1>2, <1>6 DEF ThreadIInv

\* The steps of the thread between two events keep the types, for any application.
LEMMA RunTypes == ThreadTypes /\ (RunBase \/ Stopping \/ Waiting \/ Ending \/ SpuriousWake) => ThreadTypes'
<1> SUFFICES ASSUME ThreadTypes, RunBase \/ Stopping \/ Waiting \/ Ending \/ SpuriousWake
             PROVE  ThreadTypes'
  OBVIOUS
<1> USE DEF ThreadTypes, ThreadTypeOK, Bounded, steady, flags, slot, app, result, At, AfterRun,
    Lock, Unlock, Places, Repeating
<1>1. CASE RunBase BY <1>1, ThreadAssumption DEF RunBase
<1>2. CASE StopCheck BY <1>2 DEF StopCheck
<1>3. CASE StopLock BY <1>3 DEF StopLock
<1>4. CASE StopSleep BY <1>4 DEF StopSleep
<1>5. CASE StopWake BY <1>5 DEF StopWake
<1>6. CASE StopUnlock BY <1>6 DEF StopUnlock
<1>7. CASE StopClear
  <2>1. Booleans' BY <1>7 DEF StopClear, Booleans
  <2> QED BY <1>7, <2>1 DEF StopClear, Booleans
<1>8. CASE ErrorLock BY <1>8 DEF ErrorLock
<1>9. CASE EventLock BY <1>9 DEF EventLock
<1>10. CASE EventOff BY <1>10 DEF EventOff
<1>11. CASE EventSleep BY <1>11 DEF EventSleep
<1>12. CASE EventWake
  <2>1. Booleans' BY <1>12 DEF EventWake, Booleans
  <2> QED BY <1>12, <2>1 DEF EventWake, Booleans
<1>13. CASE EventUnlock BY <1>13 DEF EventUnlock
<1>14. CASE Loop BY <1>14 DEF Loop
<1>15. CASE ErrorUnlock BY <1>15 DEF ErrorUnlock
<1>16. CASE ErrorDone BY <1>16 DEF ErrorDone
<1>17. CASE Exit BY <1>17, LabelsOf DEF Exit
<1>18. CASE Finish BY <1>18 DEF Finish
<1>19. CASE Cancelled BY <1>19 DEF Cancelled, Waits
<1>20. CASE SpuriousWake
  <2>1. UNCHANGED <<use_events, stop, killed, event_pending, cancelled>> BY <1>20 DEF SpuriousWake
  <2>2. spurious' = spurious \/ spurious' = TRUE BY <1>20 DEF SpuriousWake
  <2>3. spurious' \in BOOLEAN BY <2>2
  <2>4. Booleans' BY <2>1, <2>3 DEF Booleans
  <2> QED BY <1>20, <2>4 DEF SpuriousWake, Booleans
<1> QED
  BY <1>1, <1>2, <1>3, <1>4, <1>5, <1>6, <1>7, <1>8, <1>9, <1>10, <1>11, <1>12, <1>13, <1>14,
     <1>15, <1>16, <1>17, <1>18, <1>19, <1>20 DEF Stopping, Waiting, Ending

\* The steps that make an event keep the types.
LEMMA EmitTypes ==
  ASSUME ThreadTypes, NEW kind \in Kinds, Emit(kind)
  PROVE  ThreadTypes'
<1> USE LabelsOf DEF ThreadTypes, ThreadTypeOK, Bounded, steady, flags, slot, app, result, At,
    Places, Repeating, Kinds
<1>1. CASE SetEvent(kind)
  <2>1. <<kind, runs>> \in Kinds \X (0 .. MaxRuns) OBVIOUS
  <2>2. sent' \in Seq(Kinds \X (0 .. MaxRuns)) BY <1>1, <2>1 DEF SetEvent
  <2> QED BY <1>1, <2>2 DEF SetEvent
<1>2. CASE SetData(kind) BY <1>2 DEF SetData
<1>3. CASE WritePipe(kind)
  <2>1. ev_pipe' \in Seq(Kinds \cup {"none"}) /\ Len(ev_pipe') = Len(ev_pipe) + 1 /\ Len(ev_pipe) \in Nat
    BY <1>3 DEF WritePipe
  <2>2. Len(ev_pipe') <= PipeSize BY <1>3, <2>1, ThreadAssumption DEF WritePipe
  <2> QED BY <1>3, <2>1, <2>2 DEF WritePipe
<1> QED BY <1>1, <1>2, <1>3 DEF Emit

\* So do those of spe_kill,
LEMMA SenderTypes ==
  ASSUME ThreadTypes, NEW c \in Senders, Stop(c) \/ (\E s \in Signals : KillBegin(c, s)) \/ KillStep(c)
  PROVE  ThreadTypes'
<1> USE DEF ThreadTypes, ThreadTypeOK, Bounded, steady, flags, slot, app, result, Places, Repeating
<1>1. CASE Stop(c) BY <1>1 DEF Stop
<1>2. CASE \E s \in Signals : KillBegin(c, s) BY <1>2 DEF KillBegin
<1>3. CASE Cont(c) BY <1>3 DEF Cont, cond_signal
<1>4. CASE Kill(c)
  <2>1. Booleans' BY <1>4 DEF Kill, Booleans
  <2>2. place' \in Places BY <1>4 DEF Kill, cond_signal
  <2>3. Bounded' BY <1>4 DEF Kill, cond_signal
  <2>4. sig' \in [Senders -> Signals \cup {NoOne}] BY <1>4 DEF Kill
  <2> QED BY <1>4, <2>1, <2>2, <2>3, <2>4 DEF Kill, Booleans
<1> QED BY <1>1, <1>2, <1>3, <1>4 DEF KillStep

\* What is taken from the pipe.
LEMMA TakenFromPipe ==
  ASSUME ThreadTypes, ev_pipe # <<>>
  PROVE  /\ Tail(ev_pipe) \in Seq(Kinds \cup {"none"}) /\ Head(ev_pipe) \in Kinds \cup {"none"}
         /\ Len(ev_pipe) \in Nat /\ Len(Tail(ev_pipe)) = Len(ev_pipe) - 1
BY DEF ThreadTypes, ThreadTypeOK

\* ... and those of spe_get_event.
LEMMA ReaderTypes == ThreadTypes /\ (GetSlot \/ GetPoll \/ GetStep) => ThreadTypes'
<1> SUFFICES ASSUME ThreadTypes, GetSlot \/ GetPoll \/ GetStep PROVE ThreadTypes' OBVIOUS
<1> USE ThreadAssumption DEF ThreadTypes, ThreadTypeOK, Bounded, steady, flags, slot, app, result
<1>1. CASE GetSlot BY <1>1 DEF GetSlot
<1>2. CASE GetPoll BY <1>2 DEF GetPoll
<1>3. CASE SlotRead
  <2>1. ev_pipe' \in Seq(Kinds \cup {"none"}) /\ Len(ev_pipe') <= PipeSize
    BY <1>3, TakenFromPipe DEF SlotRead
  <2> QED BY <1>3, <2>1 DEF SlotRead
<1>4. CASE SlotClear BY <1>4 DEF SlotClear
<1>5. CASE PollTimeout BY <1>5 DEF PollTimeout
<1>6. CASE PollRead
  <2>1. ev_pipe' \in Seq(Kinds \cup {"none"}) /\ Len(ev_pipe') <= PipeSize
    BY <1>6, TakenFromPipe DEF PollRead
  <2>2. got' \in (Kinds \cup {"none"}) \X (0 .. MaxRuns) BY <1>6, TakenFromPipe DEF PollRead
  <2> QED BY <1>6, <2>1, <2>2 DEF PollRead
<1>7. CASE PollData
  <2>1. got' \in (Kinds \cup {"none"}) \X (0 .. MaxRuns) BY <1>7 DEF PollData
  <2> QED BY <1>7, <2>1 DEF PollData
<1>8. CASE PollClear BY <1>8 DEF PollClear
<1> QED BY <1>1, <1>2, <1>3, <1>4, <1>5, <1>6, <1>7, <1>8 DEF GetStep

-----------------------------------------------------------------------------
(* An application that answers each event *)

\* The counts are natural numbers.
LEMMA Lengths ==
  ASSUME ThreadTypes
  PROVE  /\ Len(sent) \in Nat /\ Len(seen) \in Nat /\ answered \in Nat
         /\ IsFiniteSet(InFlight) /\ Cardinality(InFlight) \in Nat
<1>1. IsFiniteSet(InFlight) BY ThreadAssumption, FS_Subset DEF InFlight
<1> QED BY <1>1, FS_CardinalityType DEF ThreadTypes, ThreadTypeOK

\* A step of the thread that touches no event.
LEMMA MoveStep ==
  ASSUME ThreadTypes, Answering,
         UNCHANGED <<killed, cancelled, event, ev_pipe, sig, reader, got, seen, answered, sent>>,
         place \notin Storing, place' \notin Storing \cup {"cancelled"},
         place \in Final => place' \in Final,
         place \in Unanswered => place' \in Unanswered \cup Final
  PROVE  Answering'
<1>1. Calm' BY DEF Answering, Calm
<1>2. InFlight' = InFlight BY DEF InFlight
<1>3. Answers' BY <1>2, Lengths DEF Answering, Answers, Final, Unanswered
<1>4. Order' BY DEF Answering, Order
<1>5. Quiet' BY DEF Answering, Quiet
<1>6. Latest' BY DEF Answering, Latest
<1> QED BY <1>1, <1>3, <1>4, <1>5, <1>6 DEF Answering

\* The wait of a stopped thread may end by itself.
LEMMA WakeAnswering ==
  ASSUME ThreadTypes, Answering, SpuriousWake, ~ spurious'
  PROVE  Answering'
BY MoveStep DEF SpuriousWake, At, flags, slot, app, Unanswered, Final, Storing

\* The thread between two events.
LEMMA RunAnswering ==
  ASSUME ThreadTypes, Answering, RunBase \/ Stopping \/ Waiting \/ Ending
  PROVE  Answering'
<1> USE DEF ThreadTypes, ThreadTypeOK, steady, flags, slot, app, result, At, AfterRun, Lock,
    Unlock, Unanswered, Final, Storing
<1>1. CASE RunBase BY <1>1, MoveStep DEF RunBase
<1>2. CASE StopCheck BY <1>2, MoveStep DEF StopCheck
<1>3. CASE StopLock BY <1>3, MoveStep DEF StopLock
<1>4. CASE StopSleep BY <1>4, MoveStep DEF StopSleep
<1>5. CASE StopWake BY <1>5, MoveStep DEF StopWake
<1>6. CASE StopUnlock BY <1>6, MoveStep DEF StopUnlock
<1>7. CASE StopClear BY <1>7, MoveStep DEF StopClear
<1>8. CASE ErrorLock BY <1>8, MoveStep DEF ErrorLock
<1>9. CASE EventLock BY <1>9, MoveStep DEF EventLock
<1>10. CASE EventOff BY <1>10, MoveStep DEF EventOff
<1>11. CASE EventSleep BY <1>11, MoveStep DEF EventSleep
<1>12. CASE EventWake BY <1>12, MoveStep DEF EventWake
<1>13. CASE EventUnlock BY <1>13, MoveStep DEF EventUnlock
<1>14. CASE Loop BY <1>14, MoveStep DEF Loop
<1>15. CASE ErrorUnlock BY <1>15, MoveStep DEF ErrorUnlock
<1>16. CASE ErrorDone BY <1>16, MoveStep DEF ErrorDone
<1>17. CASE Exit BY <1>17, LabelsOf, MoveStep DEF Exit
<1>18. CASE Finish BY <1>18, MoveStep DEF Finish
<1>19. CASE Cancelled BY <1>19 DEF Cancelled, Answering, Calm
<1> QED
  BY <1>1, <1>2, <1>3, <1>4, <1>5, <1>6, <1>7, <1>8, <1>9, <1>10, <1>11, <1>12, <1>13, <1>14,
     <1>15, <1>16, <1>17, <1>18, <1>19 DEF Stopping, Waiting, Ending

\* The stores of an event: the one before it was received, so that the slot and
\* the pipe are empty.
LEMMA EmitAnswering ==
  ASSUME ThreadTypes, Answering, NEW kind \in Kinds, Emit(kind)
  PROVE  Answering'
<1> USE LabelsOf DEF ThreadTypes, ThreadTypeOK, steady, flags, slot, app, result, At, Kinds
<1>1. Calm'
  <2>1. place' # "cancelled" BY DEF Emit, SetEvent, SetData, WritePipe
  <2> QED BY <2>1 DEF Emit, SetEvent, SetData, WritePipe, Answering, Calm
<1>2. InFlight' = InFlight BY DEF Emit, SetEvent, SetData, WritePipe, InFlight
<1>3. CASE SetEvent(kind)
  <2>1. place \notin Final \cup Unanswered \cup Storing
    BY <1>3 DEF SetEvent, Final, Unanswered, Storing
  <2>2. place' \in {"stop_data", "error_data", "exit_data"} /\ place' = DataOf[kind]
    BY <1>3 DEF SetEvent
  <2>3. Len(sent) + Cardinality(InFlight) <= answered BY <2>1 DEF Answering, Answers
  <2>4. Len(sent) = Len(seen) BY <2>3, Lengths DEF Answering, Answers, Order
  <2>5. /\ sent' = Append(sent, <<kind, runs>>) /\ Len(sent') = Len(sent) + 1
        /\ sent'[Len(sent) + 1] = <<kind, runs>> /\ \A i \in 1 .. Len(sent) : sent'[i] = sent[i]
    BY <1>3 DEF SetEvent
  <2>6. seen' = seen /\ reader' = reader /\ got' = got /\ ev_pipe' = ev_pipe /\ answered' = answered /\ event' = kind
    BY <1>3 DEF SetEvent
  <2>7. Answers'
    BY <1>2, <2>2, <2>3, <2>5, <2>6, Lengths DEF Answering, Answers, Final, Unanswered
  <2>8. Order'
    <3>1. Len(seen') <= Len(sent') /\ Len(sent') <= Len(seen') + 1 BY <2>4, <2>5, <2>6, Lengths
    <3>2. \A i \in 1 .. Len(seen') : seen'[i][1] = sent'[i][1]
      BY <2>4, <2>5, <2>6 DEF Answering, Order
    <3> QED BY <3>1, <3>2 DEF Order
  <2>9. Quiet' BY <2>4, <2>5, <2>6, Lengths DEF Quiet
  <2>10. ev_pipe = <<>> /\ reader \in {"idle", "poll"} BY <2>4 DEF Answering, Quiet
  <2>11. sent'[Len(sent')][1] = kind BY <2>5, Lengths
  <2>12. Latest' BY <2>2, <2>6, <2>10, <2>11 DEF Latest, Storing
  <2> QED BY <1>1, <2>7, <2>8, <2>9, <2>12 DEF Answering
<1>4. CASE SetData(kind)
  <2>1. place = DataOf[kind] /\ place' = WriteOf[kind] BY <1>4 DEF SetData
  <2>2. UNCHANGED <<event, ev_pipe, reader, got, seen, answered, sent>> BY <1>4 DEF SetData
  <2>3. Answers' BY <1>2, <2>1, <2>2, Lengths DEF Answering, Answers, Final, Unanswered
  <2>4. Order' BY <2>2 DEF Answering, Order
  <2>5. Quiet' BY <2>1, <2>2 DEF Answering, Quiet, Storing
  <2>6. Latest'
    <3>1. place \in Storing /\ place' \in Storing BY <2>1 DEF Storing
    <3>2. SUFFICES ASSUME Len(sent) = Len(seen) + 1 PROVE Latest' BY <2>2 DEF Latest
    <3>3. sent[Len(sent)] \in Kinds \X (0 .. MaxRuns) BY <3>2, Lengths
    <3>4. sent[Len(sent)][1] = kind
      <4>1. place \in {DataOf[sent[Len(sent)][1]], WriteOf[sent[Len(sent)][1]]}
        BY <3>1, <3>2 DEF Answering, Latest
      <4> QED BY <2>1, <3>3, <4>1
    <3> QED BY <2>1, <2>2, <3>1, <3>2, <3>4 DEF Answering, Latest
  <2> QED BY <1>1, <2>3, <2>4, <2>5, <2>6 DEF Answering
<1>5. CASE WritePipe(kind)
  <2>1. place = WriteOf[kind] /\ place' = AfterWrite[kind] BY <1>5 DEF WritePipe
  <2>2. UNCHANGED <<event, reader, got, seen, answered, sent>> /\ ev_pipe' = Append(ev_pipe, event)
    BY <1>5 DEF WritePipe
  <2>3. Answers' BY <1>2, <2>1, <2>2, Lengths DEF Answering, Answers, Final, Unanswered
  <2>4. Order' BY <2>2 DEF Answering, Order
  <2>5. place \in Storing /\ place' \notin Storing BY <2>1 DEF Storing
  <2>6. Len(sent) # Len(seen) BY <2>5 DEF Answering, Quiet
  <2>7. Quiet' BY <2>2, <2>6 DEF Quiet
  <2>8. Len(sent) = Len(seen) + 1 BY <2>6, Lengths DEF Answering, Order
  <2>9. /\ event = sent[Len(sent)][1] /\ reader \in {"idle", "poll", "slot_read"} /\ ev_pipe = <<>>
        /\ reader \notin {"idle", "poll"} => got[1] = sent[Len(sent)][1]
    BY <2>5, <2>8 DEF Answering, Latest
  <2>10. ev_pipe' = <<event>> BY <2>2, <2>9
  <2>11. Latest' BY <2>2, <2>5, <2>9, <2>10 DEF Latest
  <2> QED BY <1>1, <2>3, <2>4, <2>7, <2>11 DEF Answering
<1> QED BY <1>3, <1>4, <1>5 DEF Emit

\* A signal that is sent is not under way before, nor after it took effect.
LEMMA SenderAnswering ==
  ASSUME ThreadTypes, application = "answers", Answering,
         NEW c \in Senders, Stop(c) \/ (\E s \in Signals : KillBegin(c, s)) \/ KillStep(c)
  PROVE  Answering'
<1> USE DEF ThreadTypes, ThreadTypeOK, steady, flags, slot, app, result
<1>1. CASE Stop(c)
  <2>1. UNCHANGED <<place, killed, cancelled, event, ev_pipe, sig, reader, got, seen, answered, sent>>
    BY <1>1 DEF Stop
  <2>2. InFlight' = InFlight BY <2>1 DEF InFlight
  <2> QED BY <2>1, <2>2 DEF Answering, Calm, Answers, Order, Quiet, Latest
<1>2. CASE \E s \in Signals : KillBegin(c, s)
  <2>1. /\ UNCHANGED <<place, killed, cancelled, event, ev_pipe, reader, got, seen, sent>>
        /\ sig[c] = NoOne /\ sig' = [sig EXCEPT ![c] = "SIGCONT"] /\ "SIGCONT" \in Signals
        /\ answered < Len(seen) /\ answered' = answered + 1
    BY <1>2 DEF KillBegin
  <2>2. InFlight' = InFlight \cup {c} /\ c \notin InFlight
    BY <2>1, ThreadAssumption DEF InFlight
  <2>3. Cardinality(InFlight') = Cardinality(InFlight) + 1 BY <2>2, Lengths, FS_AddElement
  <2>4. Calm' BY <2>1 DEF Answering, Calm
  <2>5. Answers' BY <2>1, <2>3, Lengths DEF Answering, Answers
  <2> QED BY <2>1, <2>4, <2>5 DEF Answering, Order, Quiet, Latest
<1>3. CASE Cont(c)
  <2>1. /\ UNCHANGED <<killed, cancelled, event, ev_pipe, reader, got, seen, answered, sent>>
        /\ sig[c] = "SIGCONT" /\ sig' = [sig EXCEPT ![c] = NoOne]
    BY <1>3 DEF Cont
  <2>2. InFlight' = InFlight \ {c} /\ c \in InFlight BY <2>1, ThreadAssumption DEF InFlight
  <2>3. Cardinality(InFlight') = Cardinality(InFlight) - 1 BY <2>2, Lengths, FS_RemoveElement
  <2>4. \/ place' = place
        \/ place = "stop_wait" /\ place' = "stop_wake"
        \/ place = "event_wait" /\ place' = "event_wake"
    BY <1>3 DEF Cont, cond_signal
  <2>5. Calm' BY <2>1, <2>4 DEF Answering, Calm
  <2>6. Answers' BY <2>1, <2>3, <2>4, Lengths DEF Answering, Answers, Final, Unanswered
  <2>7. place' \in Storing <=> place \in Storing BY <2>4 DEF Storing
  <2>8. place' # place => place' \notin Storing BY <2>4 DEF Storing
  <2> QED BY <2>1, <2>5, <2>6, <2>7, <2>8 DEF Answering, Order, Quiet, Latest
<1>4. CASE Kill(c) BY <1>4, ThreadAssumption DEF Kill, Answering, Calm
<1> QED BY <1>1, <1>2, <1>3, <1>4 DEF KillStep

\* What the reader leaves alone.
LEMMA ReaderLeaves ==
  ASSUME Answering, GetSlot \/ GetPoll \/ GetStep
  PROVE  Calm' /\ UNCHANGED <<place, sig, answered, sent>> /\ InFlight' = InFlight
<1>1. UNCHANGED <<place, sig, answered, sent, killed, cancelled>>
  BY DEF GetSlot, GetPoll, GetStep, SlotRead, SlotClear, PollTimeout, PollRead, PollData, PollClear,
         flags, slot
<1> QED BY <1>1 DEF Answering, Calm, InFlight

\* A step of the reader with an event that is not its last.
LEMMA ReaderKeeps ==
  ASSUME ThreadTypes, Answering, GetSlot \/ GetPoll \/ GetStep, seen' = seen, Quiet', Latest'
  PROVE  Answering'
<1>1. Calm' /\ UNCHANGED <<place, sig, answered, sent>> /\ InFlight' = InFlight BY ReaderLeaves
<1>2. Answers' BY <1>1 DEF Answering, Answers
<1>3. Order' BY <1>1 DEF Answering, Order
<1> QED BY <1>1, <1>2, <1>3 DEF Answering

\* The last step, with the slot cleared, has received the latest event.
LEMMA ReaderReceives ==
  ASSUME ThreadTypes, Answering, SlotClear \/ PollClear
  PROVE  Answering'
<1>1. Calm' /\ UNCHANGED <<place, sig, answered, sent>> /\ InFlight' = InFlight
  BY ReaderLeaves DEF GetStep
<1>2. /\ reader \in {"slot_clear", "poll_clear"} /\ reader' = "idle" /\ event' = "none"
      /\ ev_pipe' = ev_pipe /\ seen' = Append(seen, got)
  BY DEF SlotClear, PollClear, slot
<1>3. seen \in Seq((Kinds \cup {"none"}) \X (0 .. MaxRuns)) /\ got \in (Kinds \cup {"none"}) \X (0 .. MaxRuns)
  BY DEF ThreadTypes, ThreadTypeOK
<1>4. /\ Len(seen') = Len(seen) + 1 /\ seen'[Len(seen) + 1] = got
      /\ \A i \in 1 .. Len(seen) : seen'[i] = seen[i]
  BY <1>2, <1>3
<1>5. Len(sent) = Len(seen) + 1 BY <1>2, Lengths DEF Answering, Order, Quiet
<1>6. got[1] = sent[Len(sent)][1] /\ ev_pipe = <<>> /\ place \notin Storing
  BY <1>2, <1>5 DEF Answering, Latest
<1>7. Answers' BY <1>1, <1>4, Lengths DEF Answering, Answers
<1>8. Order'
  <2>1. Len(seen') <= Len(sent') /\ Len(sent') <= Len(seen') + 1 BY <1>1, <1>4, <1>5, Lengths
  <2>2. ASSUME NEW i \in 1 .. Len(seen') PROVE seen'[i][1] = sent'[i][1]
    <3>1. CASE i = Len(seen) + 1 BY <1>1, <1>4, <1>5, <1>6, <3>1
    <3>2. CASE i # Len(seen) + 1
      <4>1. i \in 1 .. Len(seen) BY <1>4, <3>2, Lengths
      <4> QED BY <1>1, <1>4, <4>1 DEF Answering, Order
    <3> QED BY <3>1, <3>2
  <2> QED BY <2>1, <2>2 DEF Order
<1>9. Quiet' BY <1>1, <1>2, <1>6 DEF Quiet
<1>10. Latest' BY <1>1, <1>4, <1>5, Lengths DEF Latest
<1> QED BY <1>1, <1>7, <1>8, <1>9, <1>10 DEF Answering

\* The loads of the reader.
LEMMA ReaderAnswering ==
  ASSUME ThreadTypes, Answering, GetSlot \/ GetPoll \/ GetStep
  PROVE  Answering'
<1> USE DEF slot, flags
<1>1. place' = place /\ sent' = sent BY ReaderLeaves
<1>2. Len(sent) = Len(seen) \/ Len(sent) = Len(seen) + 1 BY Lengths DEF Answering, Order
<1>3. CASE GetSlot
  <2>1. /\ UNCHANGED <<event, ev_pipe, seen>> /\ reader = "idle" /\ reader' = "slot_read"
        /\ event # "none" /\ got' = <<event, ev_data>>
    BY <1>3 DEF GetSlot
  <2>2. Len(sent) = Len(seen) + 1 BY <1>2, <2>1 DEF Answering, Quiet
  <2>3. Quiet' BY <1>1, <2>1, <2>2, Lengths DEF Quiet
  <2>4. Latest' BY <1>1, <2>1, <2>2 DEF Answering, Latest
  <2> QED BY <1>3, <2>1, <2>3, <2>4, ReaderKeeps
<1>4. CASE GetPoll \/ PollTimeout
  <2>1. /\ UNCHANGED <<event, ev_pipe, seen, got>> /\ reader \in {"idle", "poll"} /\ reader' \in {"idle", "poll"}
    BY <1>4 DEF GetPoll, PollTimeout
  <2>2. Quiet' BY <1>1, <2>1 DEF Answering, Quiet
  <2>3. Latest' BY <1>1, <2>1 DEF Answering, Latest
  <2> QED BY <1>4, <2>1, <2>2, <2>3, ReaderKeeps DEF GetStep
<1>5. CASE SlotRead \/ PollRead
  <2>1. /\ UNCHANGED <<event, seen>> /\ ev_pipe # <<>> /\ ev_pipe' = Tail(ev_pipe)
        /\ \/ reader = "slot_read" /\ reader' = "slot_clear" /\ got' = got
           \/ reader = "poll" /\ reader' = "poll_data" /\ got' = <<Head(ev_pipe), 0>>
    BY <1>5 DEF SlotRead, PollRead
  <2>2. Len(sent) = Len(seen) + 1 BY <1>2, <2>1 DEF Answering, Quiet
  <2>3. /\ place \notin Storing /\ ev_pipe = <<event>> /\ event = sent[Len(sent)][1]
        /\ reader = "slot_read" => got[1] = event
    BY <2>1, <2>2 DEF Answering, Latest
  <2>4. ev_pipe' = <<>> /\ got'[1] = event BY <2>1, <2>3
  <2>5. Quiet' BY <1>1, <2>1, <2>2, Lengths DEF Quiet
  <2>6. Latest' BY <1>1, <2>1, <2>2, <2>3, <2>4 DEF Latest
  <2> QED BY <1>5, <2>1, <2>5, <2>6, ReaderKeeps DEF GetStep
<1>6. CASE PollData
  <2>1. /\ UNCHANGED <<event, ev_pipe, seen>> /\ reader = "poll_data" /\ reader' = "poll_clear"
        /\ got' = <<got[1], ev_data>>
    BY <1>6 DEF PollData
  <2>2. Len(sent) = Len(seen) + 1 BY <1>2, <2>1 DEF Answering, Quiet
  <2>3. got'[1] = got[1] BY <2>1
  <2>4. Quiet' BY <1>1, <2>1, <2>2, Lengths DEF Quiet
  <2>5. Latest' BY <1>1, <2>1, <2>2, <2>3 DEF Answering, Latest
  <2> QED BY <1>6, <2>1, <2>4, <2>5, ReaderKeeps DEF GetStep
<1>7. CASE SlotClear \/ PollClear BY <1>7, ReaderReceives
<1> QED BY <1>3, <1>4, <1>5, <1>6, <1>7 DEF GetStep

LEMMA NextThreadIInv == ThreadIInv /\ [ThreadNext]_thread_vars => ThreadIInv'
<1> SUFFICES ASSUME ThreadIInv, [ThreadNext]_thread_vars PROVE ThreadIInv' OBVIOUS
<1>1. ThreadTypes /\ (Answered => Answering) BY DEF ThreadIInv, ThreadTypes
<1>2. CASE UNCHANGED thread_vars
  <2>1. UNCHANGED <<use_events, application, place, ret, runs, stop, killed, event_pending, event_lock,
                    thread_status, ret_status, cancelled, event, ev_data, ev_pipe, sig, reader, got,
                    sent, seen, answered, last, spurious>>
    BY <1>2 DEF thread_vars, steady, flags, result, slot, app
  <2>2. ThreadTypes' BY <1>1, <2>1 DEF ThreadTypes, ThreadTypeOK, Bounded
  <2>3. InFlight' = InFlight BY <2>1 DEF InFlight
  <2>4. Answered' => Answering'
    BY <1>1, <2>1, <2>3 DEF Answered, Answering, Calm, Answers, Order, Quiet, Latest
  <2> QED BY <2>1, <2>2, <2>4 DEF ThreadIInv, ThreadTypes
<1>3. CASE SpuriousWake
  <2>1. application' = application /\ (~ spurious' => ~ spurious) BY <1>3 DEF SpuriousWake
  <2>2. ThreadTypes' BY <1>1, <1>3, RunTypes
  <2>3. Answered' => Answering' BY <1>1, <1>3, <2>1, WakeAnswering DEF Answered
  <2> QED BY <2>2, <2>3 DEF ThreadIInv, ThreadTypes
<1>4. CASE ThreadNext /\ ~ SpuriousWake
  <2>1. UNCHANGED steady
    BY <1>4 DEF ThreadNext, SpeStep, RunBase, Stopping, Waiting, Ending, Emit, KillStep, GetStep,
      StopCheck, StopLock, StopSleep, StopWake, StopUnlock, StopClear, ErrorLock, EventLock, EventOff,
      EventSleep, EventWake, EventUnlock, Loop, ErrorUnlock, ErrorDone, Exit, Finish, Cancelled,
      SetEvent, SetData, WritePipe, Stop, KillBegin, Cont, Kill, GetSlot, GetPoll, SlotRead, SlotClear,
      PollTimeout, PollRead, PollData, PollClear
  <2>2. ThreadTypes'
    BY <1>1, <1>4, RunTypes, EmitTypes, SenderTypes, ReaderTypes DEF ThreadNext, SpeStep
  <2>3. Answered' => Answered BY <2>1 DEF Answered, steady
  <2>4. Answered /\ Answering => Answering'
    BY <1>1, <1>4, RunAnswering, EmitAnswering, SenderAnswering, ReaderAnswering
       DEF Answered, ThreadNext, SpeStep
  <2> QED BY <1>1, <2>2, <2>3, <2>4 DEF ThreadIInv, ThreadTypes
<1> QED BY <1>2, <1>3, <1>4

THEOREM ThreadInvariance == ThreadSpec => []ThreadIInv
BY InitThreadIInv, NextThreadIInv, PTL DEF ThreadSpec

\* Every variable of an SPE thread and of its callers keeps its type, and the
\* event pipe never holds more than it can.
THEOREM ThreadTypeCorrect == ThreadSpec => []ThreadTypeOK
<1>1. ThreadIInv => ThreadTypeOK BY DEF ThreadIInv
<1> QED BY <1>1, ThreadInvariance, PTL

\* An application that answers each event with SIGCONT receives every one, once
\* and in order, for any number of threads that send signals and any number of
\* runs, as long as pthread_cond_wait does not return by itself while an event
\* waits for its answer (spe.c:263): until then the three unsynchronised stores of
\* do_spe_run and the loads of spe_get_event never meet for two events.
THEOREM EventsInOrderHolds == ThreadSpec => []EventsInOrder
<1>1. ThreadIInv => EventsInOrder
  <2> SUFFICES ASSUME ThreadTypes, Answering PROVE InOrder
    BY DEF ThreadIInv, ThreadTypes, EventsInOrder, Answered
  <2> DEFINE s == [i \in DOMAIN seen |-> seen[i][1]]
             t == [i \in DOMAIN sent |-> sent[i][1]]
  <2>1. /\ sent \in Seq(Kinds \X (0 .. MaxRuns)) /\ seen \in Seq((Kinds \cup {"none"}) \X (0 .. MaxRuns))
        /\ DOMAIN sent = 1 .. Len(sent) /\ DOMAIN seen = 1 .. Len(seen)
    BY DEF ThreadTypes, ThreadTypeOK
  <2>2. s \in Seq(Kinds \cup {"none"}) /\ Len(s) = Len(seen) BY <2>1, Lengths
  <2>3. t \in Seq(Kinds) /\ Len(t) = Len(sent) BY <2>1, Lengths
  <2>4. Len(seen) <= Len(sent) /\ \A i \in 1 .. Len(seen) : s[i] = t[i]
    BY <2>1, Lengths DEF Answering, Order
  <2>5. SubSeq(s, 1, Len(s)) = SubSeq(t, 1, Len(s))
    <3>1. t \in Seq(Kinds \cup {"none"}) BY <2>3
    <3>2. /\ SubSeq(s, 1, Len(seen)) \in Seq(Kinds \cup {"none"}) /\ Len(SubSeq(s, 1, Len(seen))) = Len(seen)
          /\ \A i \in 1 .. Len(seen) : SubSeq(s, 1, Len(seen))[i] = s[i]
      BY <2>2, Lengths, SubSeqProperties
    <3>3. /\ SubSeq(t, 1, Len(seen)) \in Seq(Kinds \cup {"none"}) /\ Len(SubSeq(t, 1, Len(seen))) = Len(seen)
          /\ \A i \in 1 .. Len(seen) : SubSeq(t, 1, Len(seen))[i] = t[i]
      BY <2>3, <2>4, <3>1, Lengths, SubSeqProperties
    <3> HIDE DEF s, t
    <3>4. SubSeq(s, 1, Len(seen)) = SubSeq(t, 1, Len(seen)) BY <2>4, <3>2, <3>3, SeqEqual
    <3> QED BY <2>2, <3>4
  <2> QED BY <2>2, <2>3, <2>4, <2>5 DEF InOrder, IsPrefix
<1> QED BY <1>1, ThreadInvariance, PTL
=============================================================================
