-------------------------- MODULE LibraryCallProofs --------------------------
(***************************************************************************)
(* Proofs about the handlers of library calls.                             *)
(*   - C99Files, for any number of programs, any size of the table and any *)
(*     FILE objects: as long as tmpfile() did not run at the same time as  *)
(*     another change, what a program was given stays its own, no stream   *)
(*     is lost, and the counter counts.                                    *)
(*   - C99Format, for every format of printf and scanf, of any length, and *)
(*     any number of argument registers: the list built for the C library  *)
(*     is the one it takes, it fits what was allocated, and what the       *)
(*     library stores reaches the SPE program.                             *)
(*   - Posix1Calls and LibeaCalls, for words of any even size, any         *)
(*     addresses and sizes and calls without end: pointers come back as    *)
(*     they were, failures are seen, and nothing is stored through a null  *)
(*     pointer.                                                            *)
(* The last two are run together by LibraryCalls.                          *)
(***************************************************************************)
EXTENDS C99Files, LibraryCalls, FiniteSetTheorems, SequenceTheorems, WellFoundedInduction, TLAPS

-----------------------------------------------------------------------------
(* Streams (C99Files) *)

\* The values of pc.
Labels == {"idle", "fopen_lock", "fopen_find", "fopen_open",
           "tmp_find", "tmp_open", "tmp_load", "tmp_store",
           "freopen_lock", "freopen", "fclose_get",
           "fclose_lock", "fclose", "stream_get", "stream"}

\* Where the mutex is held.
Critical == {"fopen_find", "fopen_open", "freopen", "fclose"}

\* Where a handler has an index of the table, and where it has its stream.
Indexed == {"freopen_lock", "freopen", "fclose_get", "fclose_lock", "fclose",
            "stream_get", "stream"}
Closing == {"fclose_get", "fclose_lock", "fclose"}
Holding == {"fclose_lock", "fclose", "stream"}

Exclusion == \A c \in Contexts : pc[c] \in Critical <=> file_mutex = c

\* A handler that opens a stream does so in a slot; every other one works on an
\* entry of the table.
Arguments ==
  \A c \in Contexts : /\ pc[c] \in {"fopen_open", "tmp_open"} => arg[c] \in Slots
                      /\ pc[c] \in Indexed => arg[c] \in Indices

\* The standard streams never leave their entries, and no other gets there.
Shape == /\ \A i \in Std : ptrs[i] \in {i, None}
         /\ \A i \in Slots : ptrs[i] \in Files \cup {None}
         /\ \A c \in Contexts : pc[c] \in Holding /\ arg[c] \in Std => stream[c] = arg[c]

\* An index belongs to the program that may use it, and to the fclose() that it
\* has called for it.
Owns(c, i) == i \in held[c] \/ (pc[c] \in Closing /\ arg[c] = i /\ i \in Slots)

\* What belongs to somebody belongs to one, and is open.
Ownership ==
  /\ \A c, d \in Contexts : \A i \in Slots : Owns(c, i) /\ Owns(d, i) => c = d
  /\ \A c \in Contexts : \A i \in Slots : Owns(c, i) => ptrs[i] \in open
  /\ \A c, d \in Contexts : \A i, j \in Slots :
       Owns(c, i) /\ Owns(d, j) /\ ptrs[i] = ptrs[j] => i = j
  /\ \A f \in open \cap Files : \E c \in Contexts : \E i \in Slots : Owns(c, i) /\ ptrs[i] = f

\* What a handler does to the table it does to what belongs to it, or to a slot
\* that is free.
Uses(c) ==
  /\ pc[c] \in Closing => arg[c] \notin held[c]
  /\ pc[c] \in Indexed \ Closing /\ arg[c] \in Slots => arg[c] \in held[c]
  /\ pc[c] \in Holding /\ arg[c] \in Slots => stream[c] = ptrs[arg[c]]
  /\ pc[c] \in {"fopen_open", "tmp_open"} => ptrs[arg[c]] = None
Use == \A c \in Contexts : Uses(c)

\* A stream of tmpfile() is in the table before it is counted.
Uncounted == {c \in Contexts : pc[c] \in {"tmp_load", "tmp_store"}}

Count ==
  /\ nr = 3 + Cardinality(Occupied) + drift - (IF Uncounted = {} THEN 0 ELSE 1)
  /\ \A c \in Contexts : pc[c] = "tmp_store" => num[c] = nr

\* As long as tmpfile() ran alone.
Clean == ~ crashed /\ Ownership /\ Use /\ Count

IInv ==
  /\ TypeOK /\ Exclusion /\ Arguments /\ Shape
  /\ Overlap => raced
  /\ ~ raced => Clean

\* What Next adds to each step of a handler.
History(c) ==
  /\ ~ crashed /\ crashed' = PassesNull(c)
  /\ raced' = (raced \/ Overlap')

-----------------------------------------------------------------------------
(* Facts about the parts *)

\* The entries of the table.
LEMMA Entries ==
  /\ Std \subseteq Indices /\ Slots \subseteq Indices /\ Indices \subseteq Nat
  /\ Indices = Std \cup Slots /\ Std \cap Slots = {} /\ 0 \notin Indices
  /\ IsFiniteSet(Slots)
<1>1. SPE_FOPEN_MAX \in Nat /\ SPE_FOPEN_MAX > 4 BY C99Assumption DEF SPE_FOPEN_MIN
<1>2. IsFiniteSet(Slots) BY <1>1, FS_Interval DEF Slots, SPE_FOPEN_MIN
<1> QED BY <1>1, <1>2 DEF Std, Slots, Indices, SPE_FOPEN_MIN

LEMMA OccupiedFinite == IsFiniteSet(Occupied) /\ Cardinality(Occupied) \in Nat
<1>1. Occupied \subseteq Slots BY DEF Occupied
<1>2. IsFiniteSet(Occupied) BY <1>1, Entries, FS_Subset
<1> QED BY <1>2, FS_CardinalityType

\* Which operations there are for which indices.
LEMMA OperationKinds ==
  /\ DOMAIN First = {"fopen", "tmpfile", "freopen", "fclose"}
  /\ DOMAIN First \cap StreamOps = {}
  /\ \A name, i : <<name, i>> \in StdOps => i \in Std /\ name \notin DOMAIN First
<1>1. DOMAIN First = {"fopen", "tmpfile", "freopen", "fclose"} BY DEF First
<1>2. DOMAIN First \cap StreamOps = {}
  BY <1>1 DEF StreamOps, FormatOps, BufferOps, CharacterOps, BlockOps, PositionOps, StatusOps
<1>3. ASSUME NEW name, NEW i, <<name, i>> \in StdOps PROVE i \in Std /\ name \notin DOMAIN First
  <2>1. \/ name \in {"vscanf", "vprintf"} /\ i = StdFormatOps[name]
        \/ name \in {"getchar", "gets", "putchar"} /\ i = StdCharacterOps[name]
    BY <1>3 DEF StdOps, StdFormatOps, StdCharacterOps
  <2>2. i \in {1, 2} BY <2>1 DEF StdFormatOps, StdCharacterOps
  <2> QED BY <1>1, <2>1, <2>2 DEF Std
<1> QED BY <1>1, <1>2, <1>3

\* The call of an operation on an entry of the table.
LEMMA CallGoes ==
  ASSUME TypeOK, NEW c \in Contexts, NEW name \in Operations, NEW i \in Indices \cup {0}, Call(c, name, i)
  PROVE  /\ pc[c] = "idle" /\ arg'[c] = i
         /\ \/ pc'[c] \in {"fopen_lock", "tmp_find"} /\ held' = held
            \/ pc'[c] \in {"freopen_lock", "stream_get"} /\ i \in held[c] \cup Std /\ held' = held
            \/ pc'[c] = "fclose_get" /\ i \in held[c] /\ Loses(c, i)
            \/ pc'[c] = "fclose_get" /\ i \in Std /\ held' = held
<1>1. pc[c] = "idle" /\ arg'[c] = i BY DEF TypeOK, Call
<1>2. pc'[c] = IF name \in DOMAIN First THEN First[name] ELSE "stream_get"
  BY DEF TypeOK, Call, Goto
<1>3. CASE name \in {"fopen", "tmpfile"} /\ i = 0 /\ UNCHANGED held
  <2>1. pc'[c] \in {"fopen_lock", "tmp_find"} BY <1>2, <1>3 DEF First
  <2> QED BY <1>1, <1>3, <2>1
<1>4. CASE name = "freopen" /\ i \in held[c] \cup Std /\ UNCHANGED held
  <2>1. pc'[c] = "freopen_lock" BY <1>2, <1>4 DEF First
  <2> QED BY <1>1, <1>4, <2>1
<1>5. CASE name = "fclose" /\ i \in held[c] /\ Loses(c, i)
  <2>1. pc'[c] = "fclose_get" BY <1>2, <1>5 DEF First
  <2> QED BY <1>1, <1>5, <2>1
<1>6. CASE name = "fclose" /\ i \in Std /\ UNCHANGED held
  <2>1. pc'[c] = "fclose_get" BY <1>2, <1>6 DEF First
  <2> QED BY <1>1, <1>6, <2>1
<1>7. CASE name \in StreamOps /\ i \in held[c] \cup Std /\ UNCHANGED held
  <2>1. pc'[c] = "stream_get" BY <1>2, <1>7, OperationKinds
  <2> QED BY <1>1, <1>7, <2>1
<1>8. CASE <<name, i>> \in StdOps /\ UNCHANGED held
  <2>1. pc'[c] = "stream_get" /\ i \in Std BY <1>2, <1>8, OperationKinds
  <2> QED BY <1>1, <1>8, <2>1
<1> QED BY <1>3, <1>4, <1>5, <1>6, <1>7, <1>8 DEF Call

\* get_FILE of a standard stream is that stream.
LEMMA GetFileValue ==
  ASSUME TypeOK, Shape, NEW i \in Indices
  PROVE  /\ get_FILE(i) \in Std \cup Files \cup {None}
         /\ i \in Std => get_FILE(i) = i
         /\ i \in Slots => get_FILE(i) = ptrs[i]
<1>1. ptrs[i] \in Std \cup Files \cup {None} BY DEF TypeOK
<1>2. i \in Std => ptrs[i] \in {i, None} BY DEF Shape
<1>3. i \in Slots => i \notin Std BY Entries
<1> QED BY <1>1, <1>2, <1>3 DEF get_FILE

\* The holder of the mutex is alone with the table, unless tmpfile() runs.
LEMMA Alone ==
  ASSUME Exclusion, ~ Overlap, NEW c \in Contexts, NEW d \in Contexts \ {c}, pc[c] \in Critical
  PROVE  pc[d] \notin Critical /\ ~ InTmpfile(d)
<1>1. file_mutex = c /\ file_mutex # d BY DEF Exclusion
<1>2. pc[d] \notin Critical BY <1>1 DEF Exclusion
<1>3. ~ InTmpfile(d) BY <1>1 DEF Overlap
<1> QED BY <1>2, <1>3

\* So is tmpfile() then.
LEMMA AloneInTmpfile ==
  ASSUME Exclusion, ~ Overlap, NEW c \in Contexts, NEW d \in Contexts \ {c}, InTmpfile(c)
  PROVE  pc[d] \notin Critical /\ ~ InTmpfile(d)
<1>1. ~ InTmpfile(d) /\ file_mutex # d BY DEF Overlap
<1>2. pc[d] \notin Critical BY <1>1 DEF Exclusion
<1> QED BY <1>1, <1>2

\* Before a step that does not race, nothing did.
LEMMA NotRaced ==
  ASSUME IInv, NEW c \in Contexts, History(c), ~ raced'
  PROVE  ~ raced /\ ~ Overlap /\ ~ Overlap' /\ Clean
<1>1. ~ raced /\ ~ Overlap' BY DEF History, IInv, TypeOK
<1> QED BY <1>1 DEF IInv

LEMMA OwnershipStays ==
  ASSUME Ownership, UNCHANGED <<ptrs, open>>,
         \A c \in Contexts : \A i \in Slots : Owns(c, i)' <=> Owns(c, i)
  PROVE  Ownership'
BY DEF Ownership

LEMMA UsesStays ==
  ASSUME NEW d \in Contexts, Uses(d), pc'[d] = pc[d], arg'[d] = arg[d], stream'[d] = stream[d],
         held'[d] = held[d],
         (pc[d] \in Holding /\ arg[d] \in Slots) \/ pc[d] \in {"fopen_open", "tmp_open"}
           => ptrs'[arg[d]] = ptrs[arg[d]]
  PROVE  Uses(d)'
BY DEF Uses

\* What belongs to somebody is a FILE object of fopen() or tmpfile().
LEMMA OwnedIsOpen ==
  ASSUME TypeOK, Shape, Ownership, NEW c \in Contexts, NEW i \in Slots, Owns(c, i)
  PROVE  ptrs[i] \in open \cap Files /\ ptrs[i] # None
<1>1. ptrs[i] \in open /\ None \notin open BY C99Assumption DEF Ownership, TypeOK
<1> QED BY <1>1 DEF Shape

\* A step of c leaves the handlers of the others where they are.
Others(c) == \A d \in Contexts \ {c} : /\ pc'[d] = pc[d] /\ arg'[d] = arg[d] /\ num'[d] = num[d]
                                      /\ stream'[d] = stream[d] /\ held'[d] = held[d]

LEMMA OthersUse ==
  ASSUME Use, NEW c \in Contexts, Others(c),
         \A d \in Contexts \ {c} : \A i \in Slots : Owns(d, i) => ptrs'[i] = ptrs[i],
         \A d \in Contexts \ {c} : pc[d] \in {"fopen_open", "tmp_open"} => ptrs'[arg[d]] = ptrs[arg[d]],
         Uses(c)'
  PROVE  Use'
<1> SUFFICES ASSUME NEW d \in Contexts \ {c} PROVE Uses(d)' BY DEF Use
<1>1. Uses(d) BY DEF Use
<1>2. pc[d] \in Holding /\ arg[d] \in Slots => Owns(d, arg[d])
  BY <1>1 DEF Uses, Owns, Holding, Closing, Indexed
<1> QED BY <1>1, <1>2, UsesStays DEF Others

\* A new stream in a free slot, a stream that is closed, and a change of the
\* standard streams only.
LEMMA OwnershipGained ==
  ASSUME TypeOK, Shape, Ownership, NEW c \in Contexts, NEW i \in Slots, NEW f \in Files \ open,
         ptrs[i] = None, open' = open \cup {f}, ptrs' = [ptrs EXCEPT ![i] = f],
         \A d \in Contexts : \A j \in Slots : Owns(d, j)' <=> Owns(d, j) \/ (d = c /\ j = i)
  PROVE  Ownership'
<1>1. \A d \in Contexts : ~ Owns(d, i) BY OwnedIsOpen
<1>2. ptrs'[i] = f /\ \A j \in Slots \ {i} : ptrs'[j] = ptrs[j] BY Entries DEF TypeOK
<1>3. \A d \in Contexts : \A j \in Slots : Owns(d, j)' =>
        \/ Owns(d, j) /\ j # i /\ ptrs'[j] = ptrs[j]
        \/ d = c /\ j = i /\ ptrs'[j] = f
  BY <1>1, <1>2
<1>4. \A d, e \in Contexts : \A j \in Slots : Owns(d, j)' /\ Owns(e, j)' => d = e
  BY <1>3 DEF Ownership
<1>5. \A d \in Contexts : \A j \in Slots : Owns(d, j)' => ptrs'[j] \in open'
  BY <1>3 DEF Ownership
<1>6. ASSUME NEW d \in Contexts, NEW e \in Contexts, NEW j \in Slots, NEW k \in Slots,
             Owns(d, j)', Owns(e, k)', ptrs'[j] = ptrs'[k]
      PROVE  j = k
  BY <1>3, <1>6 DEF Ownership
<1>7. ASSUME NEW g \in open' \cap Files
      PROVE  \E d \in Contexts : \E j \in Slots : Owns(d, j)' /\ ptrs'[j] = g
  <2>1. CASE g = f BY <1>2, <2>1
  <2>2. CASE g # f
    <3>1. PICK d \in Contexts, j \in Slots : Owns(d, j) /\ ptrs[j] = g BY <2>2 DEF Ownership
    <3>2. j # i BY <1>1, <3>1
    <3> QED BY <1>2, <3>1, <3>2
  <2> QED BY <2>1, <2>2
<1> QED BY <1>4, <1>5, <1>6, <1>7 DEF Ownership

LEMMA OwnershipEnds ==
  ASSUME TypeOK, Shape, Ownership, NEW c \in Contexts, NEW i \in Slots, Owns(c, i),
         open' = open \ {ptrs[i]}, \A j \in Slots \ {i} : ptrs'[j] = ptrs[j],
         \A d \in Contexts : \A j \in Slots : Owns(d, j)' <=> Owns(d, j) /\ j # i
  PROVE  Ownership'
<1>1. \A d \in Contexts : \A j \in Slots : Owns(d, j)' =>
        Owns(d, j) /\ j # i /\ ptrs'[j] = ptrs[j] /\ ptrs[j] # ptrs[i]
  BY DEF Ownership
<1>2. \A d, e \in Contexts : \A j \in Slots : Owns(d, j)' /\ Owns(e, j)' => d = e
  BY <1>1 DEF Ownership
<1>3. \A d \in Contexts : \A j \in Slots : Owns(d, j)' => ptrs'[j] \in open'
  BY <1>1 DEF Ownership
<1>4. ASSUME NEW d \in Contexts, NEW e \in Contexts, NEW j \in Slots, NEW k \in Slots,
             Owns(d, j)', Owns(e, k)', ptrs'[j] = ptrs'[k]
      PROVE  j = k
  BY <1>1, <1>4 DEF Ownership
<1>5. ASSUME NEW g \in open' \cap Files
      PROVE  \E d \in Contexts : \E j \in Slots : Owns(d, j)' /\ ptrs'[j] = g
  <2>1. PICK d \in Contexts, j \in Slots : Owns(d, j) /\ ptrs[j] = g BY DEF Ownership
  <2>2. j # i BY <2>1
  <2> QED BY <2>1, <2>2
<1> QED BY <1>2, <1>3, <1>4, <1>5 DEF Ownership

LEMMA OwnershipOfSlots ==
  ASSUME TypeOK, Shape, Ownership, open' \cap Files = open \cap Files,
         \A j \in Slots : ptrs'[j] = ptrs[j],
         \A d \in Contexts : \A j \in Slots : Owns(d, j)' <=> Owns(d, j)
  PROVE  Ownership'
<1>1. \A d \in Contexts : \A j \in Slots : Owns(d, j)' =>
        Owns(d, j) /\ ptrs'[j] = ptrs[j] /\ ptrs'[j] \in open'
  BY OwnedIsOpen
<1>2. \A d, e \in Contexts : \A j \in Slots : Owns(d, j)' /\ Owns(e, j)' => d = e
  BY <1>1 DEF Ownership
<1>3. ASSUME NEW d \in Contexts, NEW e \in Contexts, NEW j \in Slots, NEW k \in Slots,
             Owns(d, j)', Owns(e, k)', ptrs'[j] = ptrs'[k]
      PROVE  j = k
  BY <1>1, <1>3 DEF Ownership
<1>4. \A g \in open' \cap Files : \E d \in Contexts : \E j \in Slots : Owns(d, j)' /\ ptrs'[j] = g
  BY DEF Ownership
<1> QED BY <1>1, <1>2, <1>3, <1>4 DEF Ownership

\* One stream more, and one less, in the table.
LEMMA OneMore ==
  ASSUME NEW i \in Slots \ Occupied, Occupied' = Occupied \cup {i}
  PROVE  Cardinality(Occupied') = Cardinality(Occupied) + 1
BY OccupiedFinite, FS_AddElement

LEMMA OneLess ==
  ASSUME NEW i \in Occupied, Occupied' = Occupied \ {i}
  PROVE  Cardinality(Occupied') = Cardinality(Occupied) - 1
BY OccupiedFinite, FS_RemoveElement

\* No handler passes NULL.
LEMMA NoNull ==
  ASSUME TypeOK, Arguments, Shape, Ownership, Use, NEW c \in Contexts
  PROVE  ~ PassesNull(c)
<1>1. ASSUME pc[c] \in {"freopen", "fclose", "stream"} PROVE arg[c] \in Std \cup Slots
  BY <1>1, Entries DEF Arguments, Indexed
<1>2. ASSUME pc[c] \in {"freopen", "fclose", "stream"}, arg[c] \in Slots PROVE ptrs[arg[c]] # None
  <2>1. Owns(c, arg[c]) BY <1>2 DEF Use, Uses, Owns, Closing, Indexed
  <2> QED BY <1>2, <2>1, OwnedIsOpen
<1>3. pc[c] = "freopen" => get_FILE(arg[c]) # None
  <2> HAVE pc[c] = "freopen"
  <2> QED BY <1>1, <1>2, Entries, GetFileValue, C99Assumption
<1>4. pc[c] \in {"fclose", "stream"} => stream[c] # None
  <2> HAVE pc[c] \in {"fclose", "stream"}
  <2>1. CASE arg[c] \in Std BY <2>1, C99Assumption DEF Shape, Holding
  <2>2. CASE arg[c] \in Slots BY <1>2, <2>2 DEF Use, Uses, Holding
  <2> QED BY <1>1, <2>1, <2>2
<1> QED BY <1>3, <1>4 DEF PassesNull

\* What is left to show of a step that only reads the table.
LEMMA TableKept ==
  ASSUME Clean, NEW c \in Contexts, Others(c), UNCHANGED <<nr, ptrs, open, drift>>,
         \A j \in Slots : Owns(c, j)' <=> Owns(c, j),
         Uses(c)',
         pc'[c] \in {"tmp_load", "tmp_store"} <=> pc[c] \in {"tmp_load", "tmp_store"},
         pc'[c] = "tmp_store" => num'[c] = nr
  PROVE  Ownership' /\ Use' /\ Count'
<1> USE DEF Clean
<1>1. \A d \in Contexts : \A j \in Slots : Owns(d, j)' <=> Owns(d, j) BY DEF Owns, Others
<1>2. Ownership' BY <1>1, OwnershipStays
<1>3. Use' BY OthersUse
<1>4. Occupied' = Occupied /\ Uncounted' = Uncounted BY DEF Occupied, Uncounted, Others
<1>5. Count' BY <1>4 DEF Count, Others
<1> QED BY <1>2, <1>3, <1>5

\* What is left to show of a step.
LEMMA StepKeeps ==
  ASSUME IInv, NEW c \in Contexts, History(c), TypeOK', Exclusion', Arguments', Shape',
         ~ raced' => Ownership' /\ Use' /\ Count'
  PROVE  IInv'
<1>1. Overlap' => raced' BY DEF History, IInv, TypeOK
<1>2. ~ raced' => ~ crashed' BY NotRaced, NoNull DEF IInv, Clean, History
<1> QED BY <1>1, <1>2 DEF IInv, Clean

LEMMA InitIInv == Init => IInv
<1> SUFFICES ASSUME Init PROVE IInv OBVIOUS
<1>1. TypeOK
  <2>1. ptrs \in [Indices -> Std \cup Files \cup {None}] BY DEF Init
  <2>2. /\ pc \in [Contexts -> Labels] /\ arg \in [Contexts -> Indices \cup {0}]
        /\ stream \in [Contexts -> Std \cup Files \cup {None}]
        /\ num \in [Contexts -> Int] /\ held \in [Contexts -> SUBSET Slots]
    BY DEF Init, Labels
  <2>3. file_mutex = None /\ nr = 3 /\ open = Std /\ drift = 0 BY DEF Init
  <2>4. crashed \in BOOLEAN /\ raced \in BOOLEAN BY DEF Init
  <2> QED BY <2>1, <2>2, <2>3, <2>4 DEF TypeOK, Labels
<1>2. Exclusion BY C99Assumption DEF Init, Exclusion, Critical
<1>3. Arguments BY DEF Init, Arguments, Indexed
<1>4. Shape BY Entries DEF Init, Shape, Holding
<1>5. ~ Overlap /\ ~ raced BY DEF Init, Overlap, InTmpfile
<1>6. Clean
  <2>1. \A c \in Contexts : \A i \in Slots : ~ Owns(c, i) BY DEF Init, Owns, Closing
  <2>2. Ownership BY <2>1, C99Assumption DEF Init, Ownership
  <2>3. Use BY DEF Init, Use, Uses, Closing, Indexed, Holding
  <2>4. Occupied = {} /\ Uncounted = {} BY Entries DEF Init, Occupied, Uncounted
  <2>5. Count BY <2>4, FS_EmptySet DEF Init, Count
  <2> QED BY <2>2, <2>3, <2>5 DEF Init, Clean
<1> QED BY <1>1, <1>2, <1>3, <1>4, <1>5, <1>6 DEF IInv

-----------------------------------------------------------------------------
(* The steps *)

LEMMA CallStep ==
  ASSUME IInv, NEW c \in Contexts, History(c), NEW name \in Operations, NEW i \in Indices \cup {0},
         Call(c, name, i)
  PROVE  IInv'
<1> USE DEF IInv
<1>1. /\ UNCHANGED <<file_mutex, nr, ptrs, open, stream, num, drift>> /\ Others(c)
      /\ pc'[c] \in {"fopen_lock", "tmp_find", "freopen_lock", "stream_get", "fclose_get"}
      /\ arg'[c] = i /\ pc[c] = "idle"
  <2>1. UNCHANGED <<file_mutex, nr, ptrs, open, stream, num, drift>>
    BY DEF Call, c99_table
  <2>2. Others(c) BY DEF Call, TypeOK, Others, Goto, Loses, c99_table
  <2> QED BY <2>1, <2>2, CallGoes
<1>2. TypeOK'
  <2>1. pc' \in [Contexts -> Labels] BY <1>1 DEF TypeOK, Call, Goto, Labels
  <2>2. arg' \in [Contexts -> Indices \cup {0}] BY DEF TypeOK, Call
  <2>3. held' \in [Contexts -> SUBSET Slots] BY DEF TypeOK, Call, Loses
  <2>4. crashed' \in BOOLEAN /\ raced' \in BOOLEAN BY DEF TypeOK, History, PassesNull, Overlap
  <2> QED BY <1>1, <2>1, <2>2, <2>3, <2>4 DEF TypeOK, Labels
<1>3. Exclusion' BY <1>1 DEF Exclusion, Others, Critical
<1>4. pc'[c] \in Indexed => i \in Indices
  BY CallGoes, Entries DEF TypeOK, Indexed
<1>5. Arguments' BY <1>1, <1>4 DEF Arguments, Others
<1>6. Shape' BY <1>1 DEF Shape, Others, Holding
<1>7. ASSUME ~ raced' PROVE Ownership' /\ Use' /\ Count'
  <2>1. Clean BY <1>7, NotRaced
  <2>2. /\ \A j \in Slots : Owns(c, j)' <=> Owns(c, j)
        /\ Uses(c)'
    <3>1. i \in Std => i \notin held[c] /\ i \notin Slots BY Entries DEF TypeOK
    <3>2. CASE pc'[c] \in {"fopen_lock", "tmp_find"} /\ held' = held
      BY <1>1, <3>2 DEF Owns, Uses, Closing, Indexed, Holding
    <3>3. CASE pc'[c] \in {"freopen_lock", "stream_get"} /\ i \in held[c] \cup Std /\ held' = held
      BY <1>1, <3>1, <3>3 DEF Owns, Uses, Closing, Indexed, Holding
    <3>4. CASE pc'[c] = "fclose_get" /\ i \in held[c] /\ Loses(c, i)
      <4>1. held'[c] = held[c] \ {i} BY <3>4 DEF Loses, TypeOK
      <4> QED BY <1>1, <3>4, <4>1 DEF Owns, Uses, Closing, Indexed, Holding
    <3>5. CASE pc'[c] = "fclose_get" /\ i \in Std /\ held' = held
      BY <1>1, <3>1, <3>5 DEF Owns, Uses, Closing, Indexed, Holding
    <3> QED BY <3>2, <3>3, <3>4, <3>5, CallGoes
  <2> QED BY <1>1, <2>1, <2>2, TableKept
<1> QED BY <1>2, <1>3, <1>5, <1>6, <1>7, StepKeeps

\* A step that takes the mutex for an operation.
LEMMA LockStep ==
  ASSUME IInv, NEW c \in Contexts, History(c), NEW from, NEW to, Lock(c, from, to),
         <<from, to>> \in {<<"fopen_lock", "fopen_find">>, <<"freopen_lock", "freopen">>, <<"fclose_lock", "fclose">>}
  PROVE  IInv'
<1> USE DEF IInv
<1>1. /\ pc[c] = from /\ pc'[c] = to /\ file_mutex = None /\ file_mutex' = c /\ Others(c)
      /\ UNCHANGED <<nr, ptrs, open, arg, stream, num, held, drift>>
  BY DEF Lock, Goto, TypeOK, Others
<1>2. TypeOK'
  <2>1. pc' \in [Contexts -> Labels] BY DEF TypeOK, Lock, Goto, Labels
  <2>2. crashed' \in BOOLEAN /\ raced' \in BOOLEAN BY DEF TypeOK, History, PassesNull, Overlap
  <2> QED BY <1>1, <2>1, <2>2 DEF TypeOK, Labels
<1>3. Exclusion' BY <1>1, C99Assumption DEF Exclusion, Others, Critical
<1>4. Arguments' BY <1>1 DEF Arguments, Others, Indexed
<1>5. Shape' BY <1>1 DEF Shape, Others, Holding
<1>6. ASSUME ~ raced' PROVE Ownership' /\ Use' /\ Count'
  <2>1. Clean BY <1>6, NotRaced
  <2>2. (\A j \in Slots : Owns(c, j)' <=> Owns(c, j)) /\ Uses(c)'
    BY <1>1, <2>1 DEF Clean, Owns, Use, Uses, Closing, Indexed, Holding
  <2> QED BY <1>1, <2>1, <2>2, TableKept
<1> QED BY <1>2, <1>3, <1>4, <1>5, <1>6, StepKeeps

\* A step that reads the table in a critical section of its own.
LEMMA GetFileStep ==
  ASSUME IInv, NEW c \in Contexts, History(c), NEW from, NEW to, GetFile(c, from, to),
         <<from, to>> \in {<<"fclose_get", "fclose_lock">>, <<"stream_get", "stream">>}
  PROVE  IInv'
<1> USE DEF IInv
<1>1. /\ pc[c] = from /\ pc'[c] = to /\ stream'[c] = get_FILE(arg[c]) /\ Others(c)
      /\ UNCHANGED <<file_mutex, nr, ptrs, open, arg, num, held, drift>>
  BY DEF GetFile, Goto, TypeOK, Others, c99_table
<1>2. arg[c] \in Indices BY <1>1 DEF Arguments, Indexed
<1>3. TypeOK'
  <2>1. pc' \in [Contexts -> Labels] BY DEF TypeOK, GetFile, Goto, Labels
  <2>2. stream' \in [Contexts -> Std \cup Files \cup {None}]
    BY <1>2, GetFileValue DEF TypeOK, GetFile
  <2>3. crashed' \in BOOLEAN /\ raced' \in BOOLEAN BY DEF TypeOK, History, PassesNull, Overlap
  <2> QED BY <1>1, <2>1, <2>2, <2>3 DEF TypeOK, Labels
<1>4. Exclusion' BY <1>1 DEF Exclusion, Others, Critical
<1>5. Arguments' BY <1>1 DEF Arguments, Others, Indexed
<1>6. Shape' BY <1>1, <1>2, GetFileValue DEF Shape, Others, Holding
<1>7. ASSUME ~ raced' PROVE Ownership' /\ Use' /\ Count'
  <2>1. Clean BY <1>7, NotRaced
  <2>2. arg[c] \in Slots => stream'[c] = ptrs[arg[c]] BY <1>1, <1>2, GetFileValue
  <2>3. (\A j \in Slots : Owns(c, j)' <=> Owns(c, j)) /\ Uses(c)'
    BY <1>1, <2>1, <2>2 DEF Clean, Owns, Use, Uses, Closing, Indexed, Holding
  <2> QED BY <1>1, <2>1, <2>3, TableKept
<1> QED BY <1>3, <1>4, <1>5, <1>6, <1>7, StepKeeps

\* What the return to the program leaves of a call.
LEMMA ResultIs ==
  ASSUME TypeOK, NEW c \in Contexts, Return(c)
  PROVE  /\ pc' \in [Contexts -> Labels] /\ arg' \in [Contexts -> Indices \cup {0}]
         /\ stream' \in [Contexts -> Std \cup Files \cup {None}] /\ num' \in [Contexts -> Int]
         /\ pc'[c] = "idle"
         /\ \A d \in Contexts \ {c} : pc'[d] = pc[d] /\ arg'[d] = arg[d] /\ num'[d] = num[d]
                                      /\ stream'[d] = stream[d]
<1>1. pc' \in [Contexts -> Labels] /\ pc'[c] = "idle" BY DEF Return, Goto, TypeOK, Labels
<1> QED BY <1>1 DEF Return, Goto, TypeOK

LEMMA StreamUseStep ==
  ASSUME IInv, NEW c \in Contexts, History(c), StreamUse(c)
  PROVE  IInv'
<1> USE DEF IInv
<1>1. /\ pc[c] = "stream" /\ pc'[c] = "idle" /\ Others(c)
      /\ UNCHANGED <<file_mutex, nr, ptrs, open, held, drift>>
  BY ResultIs DEF StreamUse, Others, c99_table
<1>2. TypeOK'
  <2>1. crashed' \in BOOLEAN /\ raced' \in BOOLEAN BY DEF TypeOK, History, PassesNull, Overlap
  <2> QED BY <1>1, <2>1, ResultIs DEF TypeOK, StreamUse, Labels
<1>3. Exclusion' BY <1>1 DEF Exclusion, Others, Critical
<1>4. Arguments' BY <1>1 DEF Arguments, Others, Indexed
<1>5. Shape' BY <1>1 DEF Shape, Others, Holding
<1>6. ASSUME ~ raced' PROVE Ownership' /\ Use' /\ Count'
  <2>1. Clean BY <1>6, NotRaced
  <2>2. (\A j \in Slots : Owns(c, j)' <=> Owns(c, j)) /\ Uses(c)'
    BY <1>1 DEF Owns, Uses, Closing, Indexed, Holding
  <2> QED BY <1>1, <2>1, <2>2, TableKept
<1> QED BY <1>2, <1>3, <1>4, <1>5, <1>6, StepKeeps

\* The search of fopen, and that of tmpfile.
LEMMA FopenFindStep ==
  ASSUME IInv, NEW c \in Contexts, History(c), FopenFind(c)
  PROVE  IInv'
<1> USE DEF IInv
<1>1. pc[c] = "fopen_find" /\ UNCHANGED <<nr, ptrs, open, held, drift>> /\ file_mutex = c
  BY DEF FopenFind, Exclusion, Critical
<1>2. crashed' \in BOOLEAN /\ raced' \in BOOLEAN BY DEF TypeOK, History, PassesNull, Overlap
<1>3. CASE \E i \in Indices : /\ IsFirstFree(i) /\ arg' = [arg EXCEPT ![c] = i]
                             /\ Goto(c, "fopen_open") /\ UNCHANGED <<file_mutex, stream, num>>
  <2>1. PICK i \in Slots : /\ ptrs[i] = None /\ arg' = [arg EXCEPT ![c] = i]
                           /\ Goto(c, "fopen_open") /\ UNCHANGED <<file_mutex, stream, num>>
    BY <1>3 DEF IsFirstFree, Occupied
  <2>2. pc'[c] = "fopen_open" /\ arg'[c] = i /\ Others(c)
    BY <1>1, <2>1 DEF TypeOK, Goto, Others
  <2>3. TypeOK'
    <3>1. pc' \in [Contexts -> Labels] BY <2>1 DEF TypeOK, Goto, Labels
    <3>2. arg' \in [Contexts -> Indices \cup {0}] BY <2>1, Entries DEF TypeOK
    <3> QED BY <1>1, <1>2, <2>1, <3>1, <3>2 DEF TypeOK, Labels
  <2>4. Exclusion' BY <1>1, <2>1, <2>2 DEF Exclusion, Others, Critical
  <2>5. Arguments' BY <2>2 DEF Arguments, Others, Indexed
  <2>6. Shape' BY <1>1, <2>1, <2>2 DEF Shape, Others, Holding
  <2>7. (\A j \in Slots : Owns(c, j)' <=> Owns(c, j)) /\ Uses(c)'
    BY <1>1, <2>1, <2>2 DEF Owns, Uses, Closing, Indexed, Holding
  <2>8. ~ raced' => Ownership' /\ Use' /\ Count'
    BY <1>1, <2>2, <2>7, NotRaced, TableKept
  <2> QED BY <2>3, <2>4, <2>5, <2>6, <2>8, StepKeeps
<1>4. CASE Unlock(c)
  <2>1. pc'[c] = "idle" /\ file_mutex' = None /\ Others(c)
    BY <1>1, <1>4, ResultIs DEF Unlock, Others
  <2>2. TypeOK' BY <1>1, <1>2, <1>4, ResultIs DEF TypeOK, Unlock, Labels
  <2>3. Exclusion' BY <1>1, <2>1, C99Assumption DEF Exclusion, Others, Critical
  <2>4. Arguments' BY <2>1 DEF Arguments, Others, Indexed
  <2>5. Shape' BY <1>1, <2>1 DEF Shape, Others, Holding
  <2>6. (\A j \in Slots : Owns(c, j)' <=> Owns(c, j)) /\ Uses(c)'
    BY <1>1, <2>1 DEF Owns, Uses, Closing, Indexed, Holding
  <2>7. ~ raced' => Ownership' /\ Use' /\ Count'
    BY <1>1, <2>1, <2>6, NotRaced, TableKept
  <2> QED BY <2>2, <2>3, <2>4, <2>5, <2>7, StepKeeps
<1> QED BY <1>3, <1>4 DEF FopenFind

LEMMA TmpFindStep ==
  ASSUME IInv, NEW c \in Contexts, History(c), TmpFind(c)
  PROVE  IInv'
<1> USE DEF IInv
<1>1. pc[c] = "tmp_find" /\ UNCHANGED <<file_mutex, nr, ptrs, open, held, drift>>
  BY DEF TmpFind, c99_table
<1>2. crashed' \in BOOLEAN /\ raced' \in BOOLEAN BY DEF TypeOK, History, PassesNull, Overlap
<1>3. CASE \E i \in Indices : /\ IsFirstFree(i) /\ arg' = [arg EXCEPT ![c] = i]
                             /\ Goto(c, "tmp_open") /\ UNCHANGED <<stream, num>>
  <2>1. PICK i \in Slots : /\ ptrs[i] = None /\ arg' = [arg EXCEPT ![c] = i]
                           /\ Goto(c, "tmp_open") /\ UNCHANGED <<stream, num>>
    BY <1>3 DEF IsFirstFree, Occupied
  <2>2. pc'[c] = "tmp_open" /\ arg'[c] = i /\ Others(c)
    BY <1>1, <2>1 DEF TypeOK, Goto, Others
  <2>3. TypeOK'
    <3>1. pc' \in [Contexts -> Labels] BY <2>1 DEF TypeOK, Goto, Labels
    <3>2. arg' \in [Contexts -> Indices \cup {0}] BY <2>1, Entries DEF TypeOK
    <3> QED BY <1>1, <1>2, <2>1, <3>1, <3>2 DEF TypeOK, Labels
  <2>4. Exclusion' BY <1>1, <2>2 DEF Exclusion, Others, Critical
  <2>5. Arguments' BY <2>2 DEF Arguments, Others, Indexed
  <2>6. Shape' BY <1>1, <2>1, <2>2 DEF Shape, Others, Holding
  <2>7. (\A j \in Slots : Owns(c, j)' <=> Owns(c, j)) /\ Uses(c)'
    BY <1>1, <2>1, <2>2 DEF Owns, Uses, Closing, Indexed, Holding
  <2>8. ~ raced' => Ownership' /\ Use' /\ Count'
    BY <1>1, <2>2, <2>7, NotRaced, TableKept
  <2> QED BY <2>3, <2>4, <2>5, <2>6, <2>8, StepKeeps
<1>4. CASE Return(c)
  <2>1. pc'[c] = "idle" /\ Others(c) BY <1>1, <1>4, ResultIs DEF Others
  <2>2. TypeOK' BY <1>1, <1>2, <1>4, ResultIs DEF TypeOK, Labels
  <2>3. Exclusion' BY <1>1, <2>1 DEF Exclusion, Others, Critical
  <2>4. Arguments' BY <2>1 DEF Arguments, Others, Indexed
  <2>5. Shape' BY <1>1, <2>1 DEF Shape, Others, Holding
  <2>6. (\A j \in Slots : Owns(c, j)' <=> Owns(c, j)) /\ Uses(c)'
    BY <1>1, <2>1 DEF Owns, Uses, Closing, Indexed, Holding
  <2>7. ~ raced' => Ownership' /\ Use' /\ Count'
    BY <1>1, <2>1, <2>6, NotRaced, TableKept
  <2> QED BY <2>2, <2>3, <2>4, <2>5, <2>7, StepKeeps
<1> QED BY <1>3, <1>4 DEF TmpFind

LEMMA FopenOpenStep ==
  ASSUME IInv, NEW c \in Contexts, History(c), FopenOpen(c)
  PROVE  IInv'
<1> USE DEF IInv
<1> DEFINE i == arg[c]
<1>1. /\ pc[c] = "fopen_open" /\ Unlock(c) /\ UNCHANGED drift /\ file_mutex = c /\ i \in Slots
  BY DEF FopenOpen, Exclusion, Critical, Arguments
<1>2. crashed' \in BOOLEAN /\ raced' \in BOOLEAN BY DEF TypeOK, History, PassesNull, Overlap
<1>3. pc'[c] = "idle" /\ file_mutex' = None /\ Return(c)
      /\ \A d \in Contexts \ {c} : pc'[d] = pc[d] /\ arg'[d] = arg[d] /\ num'[d] = num[d]
                                   /\ stream'[d] = stream[d]
  BY <1>1, ResultIs DEF Unlock
<1>4. Exclusion' BY <1>1, <1>3, C99Assumption DEF Exclusion, Critical
<1>5. Arguments' BY <1>3 DEF Arguments, Indexed
<1>6. CASE UNCHANGED <<open, ptrs, nr, held>>
  <2>1. Others(c) BY <1>3, <1>6 DEF Others
  <2>2. TypeOK' BY <1>1, <1>2, <1>3, <1>6, ResultIs DEF TypeOK, Labels
  <2>3. Shape' BY <1>3, <1>6 DEF Shape, Holding
  <2>4. (\A j \in Slots : Owns(c, j)' <=> Owns(c, j)) /\ Uses(c)'
    BY <1>1, <1>3, <1>6 DEF Owns, Uses, Closing, Indexed, Holding
  <2>5. ~ raced' => Ownership' /\ Use' /\ Count'
    BY <1>1, <1>3, <1>6, <2>1, <2>4, NotRaced, TableKept
  <2> QED BY <1>4, <1>5, <2>2, <2>3, <2>5, StepKeeps
<1>7. CASE /\ \E f \in Files \ open : open' = open \cup {f} /\ ptrs' = [ptrs EXCEPT ![i] = f]
           /\ nr' = nr + 1 /\ Gains(c, i)
  <2>1. PICK f \in Files \ open : open' = open \cup {f} /\ ptrs' = [ptrs EXCEPT ![i] = f] BY <1>7
  <2>2. held' \in [Contexts -> SUBSET Slots] /\ held'[c] = held[c] \cup {i} /\ Others(c)
    BY <1>1, <1>3, <1>7 DEF Gains, TypeOK, Others
  <2>3. ptrs'[i] = f /\ \A j \in Indices \ {i} : ptrs'[j] = ptrs[j]
    BY <1>1, <2>1, Entries DEF TypeOK
  <2>4. TypeOK'
    <3>1. ptrs' \in [Indices -> Std \cup Files \cup {None}] BY <2>1 DEF TypeOK
    <3> QED BY <1>1, <1>2, <1>3, <1>7, <2>1, <2>2, <3>1, ResultIs DEF TypeOK, Labels
  <2>5. Shape' BY <1>1, <1>3, <2>3, Entries DEF Shape, Holding
  <2>6. ASSUME ~ raced' PROVE Ownership' /\ Use' /\ Count'
    <3>1. Clean /\ ~ Overlap BY <2>6, NotRaced
    <3>2. ptrs[i] = None BY <1>1, <3>1 DEF Clean, Use, Uses
    <3>3. \A d \in Contexts : \A j \in Slots : Owns(d, j)' <=> Owns(d, j) \/ (d = c /\ j = i)
      BY <1>1, <1>3, <2>2 DEF Owns, Others, Closing
    <3>4. Ownership' BY <1>1, <2>1, <3>1, <3>2, <3>3, OwnershipGained DEF Clean
    <3>5. \A d \in Contexts : ~ Owns(d, i) BY <1>1, <3>1, <3>2, OwnedIsOpen DEF Clean
    <3>6. Uses(c)' BY <1>3 DEF Uses, Closing, Indexed, Holding
    <3>7. \A d \in Contexts \ {c} : \A j \in Slots : Owns(d, j) => ptrs'[j] = ptrs[j]
      BY <2>3, <3>5, Entries
    <3>8. \A d \in Contexts \ {c} : pc[d] \notin {"fopen_open", "tmp_open"}
      BY <1>1, <3>1, Alone DEF Critical, InTmpfile
    <3>9. Use' BY <2>2, <3>1, <3>6, <3>7, <3>8, OthersUse DEF Clean
    <3>10. Count'
      <4>1. i \in Slots \ Occupied /\ Occupied' = Occupied \cup {i}
        BY <1>1, <2>3, <3>2, Entries, C99Assumption DEF Occupied
      <4>2. Uncounted' = Uncounted BY <1>1, <1>3 DEF Uncounted
      <4>3. Cardinality(Occupied') = Cardinality(Occupied) + 1 BY <4>1, OneMore
      <4>4. \A d \in Contexts : pc'[d] # "tmp_store"
        BY <1>1, <1>3, <3>1, Alone DEF Critical, InTmpfile
      <4> QED BY <1>1, <1>7, <3>1, <4>2, <4>3, <4>4, OccupiedFinite DEF Clean, Count, TypeOK
    <3> QED BY <3>4, <3>9, <3>10
  <2> QED BY <1>4, <1>5, <2>4, <2>5, <2>6, StepKeeps
<1> QED BY <1>6, <1>7 DEF FopenOpen

LEMMA TmpOpenStep ==
  ASSUME IInv, NEW c \in Contexts, History(c), TmpOpen(c)
  PROVE  IInv'
<1> USE DEF IInv
<1> DEFINE i == arg[c]
<1>1. pc[c] = "tmp_open" /\ UNCHANGED <<file_mutex, nr, drift>> /\ i \in Slots
  BY DEF TmpOpen, Arguments
<1>2. crashed' \in BOOLEAN /\ raced' \in BOOLEAN BY DEF TypeOK, History, PassesNull, Overlap
<1>3. ~ raced' => \A d \in Contexts \ {c} : pc[d] \notin {"fopen_open", "tmp_open", "tmp_load", "tmp_store"}
  BY <1>1, NotRaced, AloneInTmpfile DEF Critical, InTmpfile
<1>4. CASE ptrs' = [ptrs EXCEPT ![i] = None] /\ Return(c) /\ UNCHANGED <<open, held>>
  <2>1. pc'[c] = "idle" /\ Others(c) BY <1>4, ResultIs DEF Others
  <2>2. TypeOK'
    <3>1. ptrs' \in [Indices -> Std \cup Files \cup {None}] BY <1>4 DEF TypeOK
    <3> QED BY <1>1, <1>2, <1>4, <3>1, ResultIs DEF TypeOK, Labels
  <2>3. Exclusion' BY <1>1, <2>1 DEF Exclusion, Others, Critical
  <2>4. Arguments' BY <2>1 DEF Arguments, Others, Indexed
  <2>5. Shape'
    <3>1. \A j \in Indices : ptrs'[j] \in {ptrs[j], None} BY <1>4 DEF TypeOK
    <3> QED BY <1>4, <2>1, <3>1, Entries DEF Shape, Others, Holding
  <2>6. (\A j \in Slots : Owns(c, j)' <=> Owns(c, j)) /\ Uses(c)'
    BY <1>1, <1>4, <2>1 DEF Owns, Uses, Closing, Indexed, Holding
  <2>7. ASSUME ~ raced' PROVE Ownership' /\ Use' /\ Count'
    <3>1. Clean BY <2>7, NotRaced
    <3>2. ptrs[i] = None BY <1>1, <3>1 DEF Clean, Use, Uses
    <3>3. ptrs' = ptrs BY <1>1, <1>4, <3>2, Entries DEF TypeOK
    <3> QED BY <1>1, <1>4, <2>1, <2>6, <3>1, <3>3, TableKept
  <2> QED BY <2>2, <2>3, <2>4, <2>5, <2>7, StepKeeps
<1>5. CASE /\ \E f \in Files \ open : open' = open \cup {f} /\ ptrs' = [ptrs EXCEPT ![i] = f]
           /\ Gains(c, i) /\ Goto(c, "tmp_load") /\ UNCHANGED <<arg, stream, num>>
  <2>1. PICK f \in Files \ open : open' = open \cup {f} /\ ptrs' = [ptrs EXCEPT ![i] = f] BY <1>5
  <2>2. /\ held' \in [Contexts -> SUBSET Slots] /\ pc' \in [Contexts -> Labels]
        /\ held'[c] = held[c] \cup {i} /\ pc'[c] = "tmp_load" /\ Others(c)
    <3>1. held' \in [Contexts -> SUBSET Slots] /\ held'[c] = held[c] \cup {i}
      BY <1>1, <1>5 DEF Gains, TypeOK
    <3>2. pc' \in [Contexts -> Labels] /\ pc'[c] = "tmp_load" BY <1>5 DEF Goto, TypeOK, Labels
    <3>3. Others(c) BY <1>5 DEF Gains, Goto, TypeOK, Others
    <3> QED BY <3>1, <3>2, <3>3
  <2>3. ptrs'[i] = f /\ \A j \in Indices \ {i} : ptrs'[j] = ptrs[j]
    BY <1>1, <2>1, Entries DEF TypeOK
  <2>4. TypeOK'
    <3>1. ptrs' \in [Indices -> Std \cup Files \cup {None}] BY <2>1 DEF TypeOK
    <3> QED BY <1>1, <1>2, <1>5, <2>1, <2>2, <3>1 DEF TypeOK, Labels
  <2>5. Exclusion' BY <1>1, <2>2 DEF Exclusion, Others, Critical
  <2>6. Arguments' BY <2>2 DEF Arguments, Others, Indexed
  <2>7. Shape' BY <1>1, <2>2, <2>3, Entries DEF Shape, Others, Holding
  <2>8. ASSUME ~ raced' PROVE Ownership' /\ Use' /\ Count'
    <3>1. Clean BY <2>8, NotRaced
    <3>2. ptrs[i] = None BY <1>1, <3>1 DEF Clean, Use, Uses
    <3>3. \A d \in Contexts : \A j \in Slots : Owns(d, j)' <=> Owns(d, j) \/ (d = c /\ j = i)
      BY <1>1, <2>2 DEF Owns, Others, Closing
    <3>4. Ownership' BY <1>1, <2>1, <3>1, <3>2, <3>3, OwnershipGained DEF Clean
    <3>5. \A d \in Contexts : ~ Owns(d, i) BY <1>1, <3>1, <3>2, OwnedIsOpen DEF Clean
    <3>6. Uses(c)' BY <2>2 DEF Uses, Closing, Indexed, Holding
    <3>7. \A d \in Contexts \ {c} : \A j \in Slots : Owns(d, j) => ptrs'[j] = ptrs[j]
      BY <2>3, <3>5, Entries
    <3>8. Use' BY <1>3, <2>2, <2>8, <3>1, <3>6, <3>7, OthersUse DEF Clean
    <3>9. Count'
      <4>1. i \in Slots \ Occupied /\ Occupied' = Occupied \cup {i}
        BY <1>1, <2>3, <3>2, Entries, C99Assumption DEF Occupied
      <4>2. Uncounted = {} /\ Uncounted' # {}
        BY <1>1, <1>3, <2>2, <2>8 DEF Uncounted
      <4>3. Cardinality(Occupied') = Cardinality(Occupied) + 1 BY <4>1, OneMore
      <4>4. \A d \in Contexts : pc'[d] # "tmp_store" BY <1>3, <2>2, <2>8 DEF Others
      <4> QED BY <1>1, <3>1, <4>2, <4>3, <4>4, OccupiedFinite DEF Clean, Count, TypeOK
    <3> QED BY <3>4, <3>8, <3>9
  <2> QED BY <2>4, <2>5, <2>6, <2>7, <2>8, StepKeeps
<1> QED BY <1>4, <1>5 DEF TmpOpen

LEMMA TmpLoadStep ==
  ASSUME IInv, NEW c \in Contexts, History(c), TmpLoad(c)
  PROVE  IInv'
<1> USE DEF IInv
<1>1. /\ pc[c] = "tmp_load" /\ pc'[c] = "tmp_store" /\ num'[c] = nr /\ Others(c)
      /\ UNCHANGED <<file_mutex, nr, ptrs, open, arg, stream, held, drift>>
  BY DEF TmpLoad, Goto, TypeOK, Others, c99_table
<1>2. TypeOK'
  <2>1. pc' \in [Contexts -> Labels] BY DEF TypeOK, TmpLoad, Goto, Labels
  <2>2. num' \in [Contexts -> Int] BY DEF TypeOK, TmpLoad
  <2>3. crashed' \in BOOLEAN /\ raced' \in BOOLEAN BY DEF TypeOK, History, PassesNull, Overlap
  <2> QED BY <1>1, <2>1, <2>2, <2>3 DEF TypeOK, Labels
<1>3. Exclusion' BY <1>1 DEF Exclusion, Others, Critical
<1>4. Arguments' BY <1>1 DEF Arguments, Others, Indexed
<1>5. Shape' BY <1>1 DEF Shape, Others, Holding
<1>6. (\A j \in Slots : Owns(c, j)' <=> Owns(c, j)) /\ Uses(c)'
  BY <1>1 DEF Owns, Uses, Closing, Indexed, Holding
<1>7. ~ raced' => Ownership' /\ Use' /\ Count' BY <1>1, <1>6, NotRaced, TableKept
<1> QED BY <1>2, <1>3, <1>4, <1>5, <1>7, StepKeeps

LEMMA TmpStoreStep ==
  ASSUME IInv, NEW c \in Contexts, History(c), TmpStore(c)
  PROVE  IInv'
<1> USE DEF IInv
<1>1. /\ pc[c] = "tmp_store" /\ pc'[c] = "idle" /\ nr' = num[c] + 1 /\ Others(c)
      /\ UNCHANGED <<file_mutex, ptrs, open, held, drift>>
  BY ResultIs DEF TmpStore, Others
<1>2. TypeOK'
  <2>1. crashed' \in BOOLEAN /\ raced' \in BOOLEAN BY DEF TypeOK, History, PassesNull, Overlap
  <2>2. nr' \in Int BY <1>1 DEF TypeOK
  <2> QED BY <1>1, <2>1, <2>2, ResultIs DEF TypeOK, TmpStore, Labels
<1>3. Exclusion' BY <1>1 DEF Exclusion, Others, Critical
<1>4. Arguments' BY <1>1 DEF Arguments, Others, Indexed
<1>5. Shape' BY <1>1 DEF Shape, Others, Holding
<1>6. ASSUME ~ raced' PROVE Ownership' /\ Use' /\ Count'
  <2>1. Clean BY <1>6, NotRaced
  <2>2. \A d \in Contexts \ {c} : pc[d] \notin {"tmp_load", "tmp_store"}
    BY <1>1, <1>6, NotRaced, AloneInTmpfile DEF InTmpfile
  <2>3. Uses(c)' BY <1>1 DEF Uses, Closing, Indexed, Holding
  <2>4. \A d \in Contexts : \A j \in Slots : Owns(d, j)' <=> Owns(d, j)
    BY <1>1 DEF Owns, Others, Closing
  <2>5. Ownership' BY <1>1, <2>1, <2>4, OwnershipStays DEF Clean
  <2>6. Use' BY <1>1, <2>1, <2>3, OthersUse DEF Clean
  <2>7. Count'
    <3>1. Occupied' = Occupied BY <1>1 DEF Occupied
    <3>2. Uncounted # {} /\ Uncounted' = {} BY <1>1, <2>2 DEF Uncounted, Others
    <3>3. \A d \in Contexts : pc'[d] # "tmp_store" BY <1>1, <2>2 DEF Others
    <3> QED BY <1>1, <2>1, <3>1, <3>2, <3>3, OccupiedFinite DEF Clean, Count, TypeOK
  <2> QED BY <2>5, <2>6, <2>7
<1> QED BY <1>2, <1>3, <1>4, <1>5, <1>6, StepKeeps

\* The mutex is released with the return.
LEMMA Unlocked ==
  ASSUME TypeOK, Exclusion, Arguments, NEW c \in Contexts, pc[c] \in Critical, Unlock(c)
  PROVE  /\ pc'[c] = "idle" /\ file_mutex = c /\ file_mutex' = None
         /\ \A d \in Contexts \ {c} : pc'[d] = pc[d] /\ arg'[d] = arg[d] /\ num'[d] = num[d]
                                      /\ stream'[d] = stream[d]
         /\ Exclusion' /\ Arguments'
<1>1. /\ pc'[c] = "idle" /\ file_mutex = c /\ file_mutex' = None
      /\ \A d \in Contexts \ {c} : pc'[d] = pc[d] /\ arg'[d] = arg[d] /\ num'[d] = num[d]
                                   /\ stream'[d] = stream[d]
  BY ResultIs DEF Unlock, Exclusion
<1>2. Exclusion' BY <1>1, C99Assumption DEF Exclusion, Critical
<1>3. Arguments' BY <1>1 DEF Arguments, Indexed
<1> QED BY <1>1, <1>2, <1>3

\* A step in a critical section that changes no entry but that of an index of c
\* leaves what every other program works on.
LEMMA OthersKept ==
  ASSUME TypeOK, Exclusion, Shape, Clean, ~ Overlap, NEW c \in Contexts, pc[c] \in Critical,
         Others(c), pc'[c] = "idle", NEW i \in Indices, i \in Slots => Owns(c, i),
         \A j \in Indices \ {i} : ptrs'[j] = ptrs[j]
  PROVE  Use' /\ Uncounted' = Uncounted /\ \A d \in Contexts : pc'[d] # "tmp_store"
<1> USE DEF Clean
<1>1. \A d \in Contexts \ {c} : \A j \in Slots : Owns(d, j) => ptrs'[j] = ptrs[j]
  BY Entries DEF Ownership
<1>2. \A d \in Contexts \ {c} : pc[d] \notin {"fopen_open", "tmp_open", "tmp_store"}
  BY Alone DEF Critical, InTmpfile
<1>3. Uses(c)' BY DEF Uses, Closing, Indexed, Holding
<1>4. Use' BY <1>1, <1>2, <1>3, OthersUse
<1>5. Uncounted' = Uncounted BY DEF Uncounted, Others, Critical
<1>6. \A d \in Contexts : pc'[d] # "tmp_store" BY <1>2 DEF Others
<1> QED BY <1>4, <1>5, <1>6

LEMMA FreopenStep ==
  ASSUME IInv, NEW c \in Contexts, History(c), Freopen(c)
  PROVE  IInv'
<1> USE DEF IInv
<1> DEFINE i == arg[c]
           f == get_FILE(i)
<1>1. pc[c] = "freopen" /\ pc[c] \in Critical /\ Unlock(c) /\ UNCHANGED nr /\ i \in Indices
  BY DEF Freopen, Arguments, Critical, Indexed
<1>2. crashed' \in BOOLEAN /\ raced' \in BOOLEAN BY DEF TypeOK, History, PassesNull, Overlap
<1>3. /\ f \in Std \cup Files \cup {None} /\ (i \in Std => f = i) /\ (i \in Slots => f = ptrs[i])
  BY <1>1, GetFileValue
<1>4. /\ pc'[c] = "idle" /\ file_mutex' = None /\ Exclusion' /\ Arguments' /\ Return(c)
      /\ \A d \in Contexts \ {c} : pc'[d] = pc[d] /\ arg'[d] = arg[d] /\ num'[d] = num[d]
                                   /\ stream'[d] = stream[d]
  BY <1>1, Unlocked DEF Unlock
<1>5. Clean => (i \in Slots => i \in held[c] /\ Owns(c, i))
  BY <1>1 DEF Clean, Use, Uses, Owns, Closing, Indexed
<1>6. CASE ptrs' = [ptrs EXCEPT ![i] = f] /\ open' = (open \cup {f}) \ {None} /\ UNCHANGED <<held, drift>>
  <2>1. Others(c) BY <1>4, <1>6 DEF Others
  <2>2. ptrs'[i] = f /\ \A j \in Indices \ {i} : ptrs'[j] = ptrs[j] BY <1>1, <1>6 DEF TypeOK
  <2>3. TypeOK'
    <3>1. ptrs' \in [Indices -> Std \cup Files \cup {None}] BY <1>3, <1>6 DEF TypeOK
    <3>2. open' \subseteq Std \cup Files BY <1>3, <1>6 DEF TypeOK
    <3> QED BY <1>1, <1>2, <1>4, <1>6, <3>1, <3>2, ResultIs DEF TypeOK, Labels
  <2>4. Shape'
    <3>1. \A j \in Std : ptrs'[j] \in {j, None} BY <1>1, <1>3, <2>2, Entries DEF Shape
    <3>2. \A j \in Slots : ptrs'[j] \in Files \cup {None} BY <1>1, <1>3, <2>2, Entries DEF Shape
    <3> QED BY <1>4, <3>1, <3>2 DEF Shape, Holding
  <2>5. ASSUME ~ raced' PROVE Ownership' /\ Use' /\ Count'
    <3>1. Clean /\ ~ Overlap BY <2>5, NotRaced
    <3>2. \A j \in Slots : ptrs'[j] = ptrs[j] BY <1>3, <2>2, Entries
    <3>3. \A d \in Contexts : \A j \in Slots : Owns(d, j)' <=> Owns(d, j)
      BY <1>1, <1>4, <1>6, <2>1 DEF Owns, Others, Closing
    <3>4. open' \cap Files = open \cap Files
      <4>1. CASE i \in Std BY <1>3, <1>6, <4>1, C99Assumption
      <4>2. CASE i \in Slots
        <5>1. f \in open BY <1>3, <1>5, <3>1, <4>2, OwnedIsOpen DEF Clean
        <5> QED BY <1>6, <5>1, C99Assumption
      <4> QED BY <1>1, <4>1, <4>2, Entries
    <3>5. Ownership' BY <3>1, <3>2, <3>3, <3>4, OwnershipOfSlots DEF Clean
    <3>6. Use' /\ Uncounted' = Uncounted /\ \A d \in Contexts : pc'[d] # "tmp_store"
      BY <1>1, <1>4, <1>5, <2>1, <2>2, <3>1, OthersKept
    <3>7. Occupied' = Occupied BY <3>2 DEF Occupied
    <3>8. Count' BY <1>1, <1>6, <3>1, <3>6, <3>7 DEF Clean, Count
    <3> QED BY <3>5, <3>6, <3>8
  <2> QED BY <1>4, <2>3, <2>4, <2>5, StepKeeps
<1>7. CASE /\ ptrs' = [ptrs EXCEPT ![i] = None] /\ open' = open \ {f} /\ Loses(c, i)
           /\ drift' = IF i \in Slots THEN drift + 1 ELSE drift
  <2>1. held' \in [Contexts -> SUBSET Slots] /\ held'[c] = held[c] \ {i} /\ Others(c)
    BY <1>4, <1>7 DEF Loses, TypeOK, Others
  <2>2. ptrs'[i] = None /\ \A j \in Indices \ {i} : ptrs'[j] = ptrs[j] BY <1>1, <1>7 DEF TypeOK
  <2>3. TypeOK'
    <3>1. ptrs' \in [Indices -> Std \cup Files \cup {None}] BY <1>7 DEF TypeOK
    <3>2. open' \subseteq Std \cup Files BY <1>7 DEF TypeOK
    <3>3. drift' \in Int BY <1>7 DEF TypeOK
    <3> QED BY <1>1, <1>2, <1>4, <2>1, <3>1, <3>2, <3>3, ResultIs DEF TypeOK, Labels
  <2>4. Shape'
    <3>1. \A j \in Indices : ptrs'[j] \in {ptrs[j], None} BY <2>2
    <3> QED BY <1>4, <3>1, Entries DEF Shape, Holding
  <2>5. ASSUME ~ raced' PROVE Ownership' /\ Use' /\ Count'
    <3>1. Clean /\ ~ Overlap BY <2>5, NotRaced
    <3>2. Use' /\ Uncounted' = Uncounted /\ \A d \in Contexts : pc'[d] # "tmp_store"
      BY <1>1, <1>4, <1>5, <2>1, <2>2, <3>1, OthersKept
    <3>3. CASE i \in Std
      <4>1. i \notin Slots /\ i \notin held[c] BY <3>3, Entries DEF TypeOK
      <4>2. \A j \in Slots : ptrs'[j] = ptrs[j] BY <2>2, <4>1, Entries
      <4>3. open' \cap Files = open \cap Files BY <1>3, <1>7, <3>3, C99Assumption
      <4>4. \A d \in Contexts : \A j \in Slots : Owns(d, j)' <=> Owns(d, j)
        BY <1>1, <1>4, <2>1, <4>1 DEF Owns, Others, Closing
      <4>5. Ownership' BY <3>1, <4>2, <4>3, <4>4, OwnershipOfSlots DEF Clean
      <4>6. Occupied' = Occupied BY <4>2 DEF Occupied
      <4>7. Count' BY <1>1, <1>7, <3>1, <3>2, <4>1, <4>6 DEF Clean, Count
      <4> QED BY <3>2, <4>5, <4>7
    <3>4. CASE i \in Slots
      <4>1. Owns(c, i) /\ ptrs[i] # None /\ open' = open \ {ptrs[i]}
        BY <1>3, <1>5, <1>7, <3>1, <3>4, OwnedIsOpen DEF Clean
      <4>2. \A d \in Contexts : \A j \in Slots : Owns(d, j)' <=> Owns(d, j) /\ j # i
        <5>1. \A d \in Contexts \ {c} : ~ Owns(d, i) BY <3>1, <3>4, <4>1 DEF Clean, Ownership
        <5> QED BY <1>1, <1>4, <2>1, <3>4, <5>1 DEF Owns, Others, Closing
      <4>3. \A j \in Slots \ {i} : ptrs'[j] = ptrs[j] BY <2>2, Entries
      <4>4. Ownership' BY <3>1, <3>4, <4>1, <4>2, <4>3, OwnershipEnds DEF Clean
      <4>5. i \in Occupied /\ Occupied' = Occupied \ {i}
        BY <2>2, <3>4, <4>1, <4>3 DEF Occupied
      <4>6. Cardinality(Occupied') = Cardinality(Occupied) - 1 BY <4>5, OneLess
      <4>7. Count'
        BY <1>1, <1>7, <3>1, <3>2, <3>4, <4>6, OccupiedFinite DEF Clean, Count, TypeOK
      <4> QED BY <3>2, <4>4, <4>7
    <3> QED BY <1>1, <3>3, <3>4, Entries
  <2> QED BY <1>4, <2>3, <2>4, <2>5, StepKeeps
<1> QED BY <1>6, <1>7 DEF Freopen

LEMMA FcloseStep ==
  ASSUME IInv, NEW c \in Contexts, History(c), Fclose(c)
  PROVE  IInv'
<1> USE DEF IInv
<1> DEFINE i == arg[c]
<1>1. /\ pc[c] = "fclose" /\ pc[c] \in Critical /\ Unlock(c) /\ UNCHANGED held /\ i \in Indices
      /\ open' = open \ {stream[c]}
  BY DEF Fclose, Arguments, Critical, Indexed
<1>2. crashed' \in BOOLEAN /\ raced' \in BOOLEAN BY DEF TypeOK, History, PassesNull, Overlap
<1>3. i \in Std => stream[c] = i BY <1>1 DEF Shape, Holding
<1>4. /\ pc'[c] = "idle" /\ file_mutex' = None /\ Exclusion' /\ Arguments' /\ Return(c) /\ Others(c)
  BY <1>1, Unlocked DEF Unlock, Others
<1>5. Clean => (i \in Slots => i \notin held[c] /\ Owns(c, i) /\ stream[c] = ptrs[i])
  BY <1>1 DEF Clean, Use, Uses, Owns, Closing, Holding
<1>6. /\ \/ ptrs'[i] = None /\ nr' = nr - 1 /\ drift' = IF i \in Std THEN drift - 1 ELSE drift
         \/ ptrs' = ptrs /\ UNCHANGED <<nr, drift>>
      /\ \A j \in Indices \ {i} : ptrs'[j] = ptrs[j]
      /\ ptrs' \in [Indices -> Std \cup Files \cup {None}]
  BY <1>1 DEF Fclose, TypeOK
<1>7. TypeOK'
  <2>1. open' \subseteq Std \cup Files BY <1>1 DEF TypeOK
  <2>2. nr' \in Int /\ drift' \in Int BY <1>6 DEF TypeOK
  <2> QED BY <1>1, <1>2, <1>4, <1>6, <2>1, <2>2, ResultIs DEF TypeOK, Labels
<1>8. Shape'
  <2>1. \A j \in Indices : ptrs'[j] \in {ptrs[j], None} BY <1>6
  <2> QED BY <1>4, <2>1, Entries DEF Shape, Others, Holding
<1>9. ASSUME ~ raced' PROVE Ownership' /\ Use' /\ Count'
  <2>1. Clean /\ ~ Overlap BY <1>9, NotRaced
  <2>2. Use' /\ Uncounted' = Uncounted /\ \A d \in Contexts : pc'[d] # "tmp_store"
    BY <1>1, <1>4, <1>5, <1>6, <2>1, OthersKept
  <2>3. CASE i \in Std
    <3>1. i \notin Slots BY <2>3, Entries
    <3>2. \A j \in Slots : ptrs'[j] = ptrs[j] BY <1>6, <3>1, Entries
    <3>3. open' \cap Files = open \cap Files BY <1>1, <1>3, <2>3, C99Assumption
    <3>4. \A d \in Contexts : \A j \in Slots : Owns(d, j)' <=> Owns(d, j)
      BY <1>1, <1>4, <3>1 DEF Owns, Others, Closing
    <3>5. Ownership' BY <2>1, <3>2, <3>3, <3>4, OwnershipOfSlots DEF Clean
    <3>6. Occupied' = Occupied BY <3>2 DEF Occupied
    <3>7. Count' BY <1>6, <2>1, <2>2, <2>3, <3>6, OccupiedFinite DEF Clean, Count, TypeOK
    <3> QED BY <2>2, <3>5, <3>7
  <2>4. CASE i \in Slots
    <3>1. Owns(c, i) /\ ptrs[i] # None /\ open' = open \ {ptrs[i]}
      BY <1>1, <1>5, <2>1, <2>4, OwnedIsOpen DEF Clean
    <3>2. \A d \in Contexts : \A j \in Slots : Owns(d, j)' <=> Owns(d, j) /\ j # i
      <4>1. \A d \in Contexts \ {c} : ~ Owns(d, i) BY <2>1, <2>4, <3>1 DEF Clean, Ownership
      <4> QED BY <1>1, <1>4, <1>5, <2>1, <2>4, <4>1 DEF Owns, Others, Closing
    <3>3. \A j \in Slots \ {i} : ptrs'[j] = ptrs[j] BY <1>6, Entries
    <3>4. Ownership' BY <2>1, <2>4, <3>1, <3>2, <3>3, OwnershipEnds DEF Clean
    <3>5. CASE ptrs'[i] = None /\ nr' = nr - 1 /\ drift' = IF i \in Std THEN drift - 1 ELSE drift
      <4>1. i \in Occupied /\ Occupied' = Occupied \ {i}
        BY <2>4, <3>1, <3>3, <3>5 DEF Occupied
      <4>2. Cardinality(Occupied') = Cardinality(Occupied) - 1 BY <4>1, OneLess
      <4>3. i \notin Std BY <2>4, Entries
      <4>4. Count'
        BY <2>1, <2>2, <3>5, <4>2, <4>3, OccupiedFinite DEF Clean, Count, TypeOK
      <4> QED BY <2>2, <3>4, <4>4
    <3>6. CASE ptrs' = ptrs /\ UNCHANGED <<nr, drift>>
      <4>1. Occupied' = Occupied BY <3>6 DEF Occupied
      <4>2. Count' BY <2>1, <2>2, <3>6, <4>1 DEF Clean, Count
      <4> QED BY <2>2, <3>4, <4>2
    <3> QED BY <1>6, <3>5, <3>6
  <2> QED BY <1>1, <2>3, <2>4, Entries
<1> QED BY <1>4, <1>7, <1>8, <1>9, StepKeeps

-----------------------------------------------------------------------------
(* The theorems *)

LEMMA NextIInv == IInv /\ [Next]_c99_vars => IInv'
<1> SUFFICES ASSUME IInv, [Next]_c99_vars PROVE IInv' OBVIOUS
<1>1. CASE UNCHANGED c99_vars
  BY <1>1 DEF IInv, TypeOK, Exclusion, Arguments, Shape, Overlap, InTmpfile, Clean, Ownership, Owns,
              Use, Uses, Count, Occupied, Uncounted, c99_vars, c99_table, c99_local
<1>2. CASE Next
  <2>1. PICK c \in Contexts : /\ \/ \E name \in Operations, i \in Indices \cup {0} : Call(c, name, i)
                                \/ Handler(c)
                             /\ History(c)
    BY <1>2 DEF Next, History
  <2>2. CASE \E name \in Operations, i \in Indices \cup {0} : Call(c, name, i) BY <2>1, <2>2, CallStep
  <2>3. CASE FopenLock(c) BY <2>1, <2>3, LockStep DEF FopenLock
  <2>4. CASE FopenFind(c) BY <2>1, <2>4, FopenFindStep
  <2>5. CASE FopenOpen(c) BY <2>1, <2>5, FopenOpenStep
  <2>6. CASE TmpFind(c) BY <2>1, <2>6, TmpFindStep
  <2>7. CASE TmpOpen(c) BY <2>1, <2>7, TmpOpenStep
  <2>8. CASE TmpLoad(c) BY <2>1, <2>8, TmpLoadStep
  <2>9. CASE TmpStore(c) BY <2>1, <2>9, TmpStoreStep
  <2>10. CASE FreopenLock(c) BY <2>1, <2>10, LockStep DEF FreopenLock
  <2>11. CASE Freopen(c) BY <2>1, <2>11, FreopenStep
  <2>12. CASE FcloseGet(c) BY <2>1, <2>12, GetFileStep DEF FcloseGet
  <2>13. CASE FcloseLock(c) BY <2>1, <2>13, LockStep DEF FcloseLock
  <2>14. CASE Fclose(c) BY <2>1, <2>14, FcloseStep
  <2>15. CASE StreamGet(c) BY <2>1, <2>15, GetFileStep DEF StreamGet
  <2>16. CASE StreamUse(c) BY <2>1, <2>16, StreamUseStep
  <2> QED BY <2>1, <2>2, <2>3, <2>4, <2>5, <2>6, <2>7, <2>8, <2>9, <2>10, <2>11, <2>12, <2>13, <2>14,
             <2>15, <2>16 DEF Handler
<1> QED BY <1>1, <1>2

THEOREM Invariance == Spec => []IInv
BY InitIInv, NextIInv, PTL DEF Spec

\* The state of the table and of its handlers has its type.
THEOREM TypeCorrect == Spec => []TypeOK
<1>1. IInv => TypeOK BY DEF IInv
<1> QED BY <1>1, Invariance, PTL

\* What a program was given stays its own, is open, and no handler passes NULL
\* to the C library (get_FILE and the operations of default_c99_handler.c).
THEOREM OwnStreamsHolds == Spec => []OwnStreams
<1>1. IInv => OwnStreams
  <2> SUFFICES ASSUME IInv, ~ raced PROVE OwnStreams!2 BY DEF OwnStreams
  <2>1. TypeOK /\ Shape /\ Clean BY DEF IInv
  <2>2. \A c \in Contexts : held[c] \subseteq Slots BY <2>1 DEF TypeOK
  <2>3. \A c \in Contexts : \A i \in held[c] : Owns(c, i) BY DEF Owns
  <2>4. \A c, d \in Contexts : c # d => held[c] \cap held[d] = {}
    BY <2>1, <2>2, <2>3 DEF Clean, Ownership
  <2>5. \A c \in Contexts : \A i \in held[c] :
          ptrs[i] \in open /\ \A d \in Contexts : \A j \in held[d] : ptrs[j] = ptrs[i] => j = i
    BY <2>1, <2>2, <2>3 DEF Clean, Ownership
  <2>6. ASSUME NEW c \in Contexts, pc[c] \in {"stream", "fclose_lock", "fclose"}, arg[c] \in Slots
        PROVE  stream[c] \in open /\ stream[c] = ptrs[arg[c]]
    <3>1. stream[c] = ptrs[arg[c]] /\ Owns(c, arg[c])
      BY <2>1, <2>6 DEF Clean, Use, Uses, Owns, Holding, Closing, Indexed
    <3> QED BY <2>1, <2>6, <3>1 DEF Clean, Ownership
  <2> QED BY <2>1, <2>4, <2>5, <2>6 DEF Clean
<1> QED BY <1>1, Invariance, PTL

\* Every stream that fopen or tmpfile opened can still be closed by a program.
THEOREM NoLostStreamHolds == Spec => []NoLostStream
<1>1. IInv => NoLostStream
  <2> SUFFICES ASSUME IInv, ~ raced, NEW f \in open \cap Files
               PROVE  \E c \in Contexts :
                        \/ \E i \in held[c] : ptrs[i] = f
                        \/ pc[c] \in {"fclose_get", "fclose_lock", "fclose"} /\ ptrs[arg[c]] = f
    BY DEF NoLostStream
  <2>1. PICK c \in Contexts, i \in Slots : Owns(c, i) /\ ptrs[i] = f BY DEF IInv, Clean, Ownership
  <2> QED BY <2>1 DEF Owns, Closing
<1> QED BY <1>1, Invariance, PTL

\* nr_spe_FILE_ptrs is the number of streams in the table, but for what freopen
\* and fclose get wrong.
THEOREM CountsStreamsHolds == Spec => []CountsStreams
<1>1. IInv => CountsStreams
  <2> SUFFICES ASSUME IInv, ~ raced, \A c \in Contexts : ~ InTmpfile(c)
               PROVE  nr = 3 + Cardinality(Occupied) + drift
    BY DEF CountsStreams
  <2>1. Uncounted = {} BY DEF Uncounted, InTmpfile
  <2> QED BY <2>1, OccupiedFinite DEF IInv, Clean, Count, TypeOK
<1> QED BY <1>1, Invariance, PTL

-----------------------------------------------------------------------------
(* Induction *)

\* A set of numbers that is not empty has a least one.
LEMMA Least ==
  ASSUME NEW T \in SUBSET Nat, T # {}
  PROVE  \E m \in T : \A k \in T : ~ (k < m)
<1>1. \A x, y \in Nat : <<x, y>> \in OpToRel(<, Nat) <=> x < y BY DEF OpToRel
<1>2. PICK x \in T : \A y \in T : ~ (<<y, x>> \in OpToRel(<, Nat)) BY NatLessThanWellFounded, WFMin
<1> QED BY <1>1, <1>2

LEMMA SetInduction ==
  ASSUME NEW T \in SUBSET Nat, 0 \in T, \A n \in T : n + 1 \in T
  PROVE  T = Nat
<1> SUFFICES ASSUME Nat \ T # {} PROVE FALSE OBVIOUS
<1>1. PICK m \in Nat \ T : \A k \in Nat \ T : ~ (k < m) BY Least
<1>2. m # 0 /\ m - 1 \in Nat BY <1>1
<1>3. m - 1 \in T BY <1>1, <1>2
<1>4. (m - 1) + 1 \in T BY <1>3
<1> QED BY <1>1, <1>4

\* There is a function that takes what the directives before it take.
LEMMA TakesToIs ==
  ASSUME format \in Seq(Directive)
  PROVE  TakesTo = [i \in 0 .. Len(format) |-> IF i = 0 THEN <<>> ELSE TakesTo[i - 1] \o TakesOf(format[i])]
<1> DEFINE Upto(n) == \E f : f = [i \in 0 .. n |-> IF i = 0 THEN <<>> ELSE f[i - 1] \o TakesOf(format[i])]
           P == {n \in Nat : Upto(n)}
<1>1. 0 \in P
  <2> DEFINE f == [i \in 0 .. 0 |-> <<>>]
  <2>1. f = [i \in 0 .. 0 |-> IF i = 0 THEN <<>> ELSE f[i - 1] \o TakesOf(format[i])]
    <3>1. \A i \in 0 .. 0 : i = 0 OBVIOUS
    <3> QED BY <3>1
  <2> HIDE DEF f
  <2> QED BY <2>1
<1>2. ASSUME NEW n \in P PROVE n + 1 \in P
  <2>1. PICK f : f = [i \in 0 .. n |-> IF i = 0 THEN <<>> ELSE f[i - 1] \o TakesOf(format[i])] OBVIOUS
  <2> DEFINE g == [i \in 0 .. n + 1 |-> IF i = 0 THEN <<>> ELSE f[i - 1] \o TakesOf(format[i])]
  <2>2. \A i \in 0 .. n : g[i] = f[i] BY <2>1
  <2>3. g = [i \in 0 .. n + 1 |-> IF i = 0 THEN <<>> ELSE g[i - 1] \o TakesOf(format[i])]
    <3>1. \A i \in 0 .. n + 1 : i # 0 => i - 1 \in 0 .. n OBVIOUS
    <3> QED BY <2>2, <3>1
  <2> HIDE DEF g
  <2> QED BY <2>3
<1>3. P = Nat
  <2> HIDE DEF Upto
  <2>1. P \in SUBSET Nat OBVIOUS
  <2> QED BY <1>1, <1>2, <2>1, SetInduction
<1>4. Len(format) \in Nat OBVIOUS
<1>5. Upto(Len(format)) BY <1>3, <1>4
<1> QED BY <1>5 DEF TakesTo

LEMMA TakesUnchanged ==
  ASSUME UNCHANGED call
  PROVE  TakesTo' = TakesTo /\ Takes' = Takes
BY DEF call, Takes, TakesTo, TakesOf, PrintfTakes, PrintfConverts, ScanfTakes, Star, Value, Object, Word, SameSize

-----------------------------------------------------------------------------
(* The list *)

How == {"same", "sign", "zero", "ls"}
VaEntries == [off : Nat, size : {4, 8}, arg : 0 .. MaxArgs, as : How \cup {"temp"}, temp : Nat]
Temps == [ptr : 0 .. MaxArgs, llval : {"garbage", "new"}]
Lists == [next_arg : Nat, vlist : Seq(VaEntries), vtemps : Seq(Temps)]

\* Each entry takes eight bytes at most, whatever comes before it.
Within(a) == /\ a \in Lists
             /\ End(a.vlist) <= 8 * Len(a.vlist)
             /\ Len(a.vtemps) <= Len(a.vlist)

LEMMA MaxIs == MaxArgs \in Nat /\ RegArgs \in Nat /\ RegArgs > 0
BY FormatAssumption DEF MaxArgs

LEMMA EndIs ==
  ASSUME NEW vlist \in Seq(VaEntries)
  PROVE  End(vlist) \in Nat
<1>1. CASE vlist = <<>> BY <1>1 DEF End
<1>2. CASE vlist # <<>>
  <2>1. Last(vlist) \in VaEntries BY <1>2 DEF Last
  <2> QED BY <1>2, <2>1 DEF End, VaEntries
<1> QED BY <1>1, <1>2

LEMMA PlaceIs ==
  ASSUME abi \in {32, 64}, NEW size \in {4, 8}, NEW end \in Nat, NEW n \in Nat, end <= 8 * n
  PROVE  Place(end, size) \in Nat /\ Place(end, size) + size <= 8 * (n + 1)
<1>1. CASE abi = 64 BY <1>1 DEF Place
<1>2. CASE abi = 32 /\ size = 4 BY <1>2 DEF Place
<1>3. CASE abi = 32 /\ size = 8 BY <1>3 DEF Place
<1> QED BY <1>1, <1>2, <1>3

LEMMA ArgAtIs == \A address : ArgAt(address) \in 0 .. MaxArgs
BY MaxIs DEF ArgAt

LEMMA ArgIs == \A next_arg \in Nat : GET_LS_VARG(next_arg) \in Nat
BY MaxIs DEF GET_LS_VARG, caller_stack

\* The list v is that of a, with one more entry.
Longer(a, v, size, from, as, temp) ==
  /\ v \in Seq(VaEntries) /\ Len(v) = Len(a.vlist) + 1
  /\ \A k \in 1 .. Len(a.vlist) : v[k] = a.vlist[k]
  /\ v[Len(v)] = [off |-> Place(End(a.vlist), size), size |-> size, arg |-> from, as |-> as, temp |-> temp]
  /\ End(v) <= 8 * Len(v)

\* What a list is after another entry.
LEMMA PutWithin ==
  ASSUME abi \in {32, 64}, NEW a, Within(a)
  PROVE  \A size \in {4, 8}, as \in How \cup {"temp"}, from \in 0 .. MaxArgs, temp \in Nat :
           Longer(a, VA_LIST_PUT(a.vlist, size, from, as, temp), size, from, as, temp)
<1> TAKE size \in {4, 8}, as \in How \cup {"temp"}, from \in 0 .. MaxArgs, temp \in Nat
<1> DEFINE e == [off |-> Place(End(a.vlist), size), size |-> size, arg |-> from, as |-> as, temp |-> temp]
           vlist == VA_LIST_PUT(a.vlist, size, from, as, temp)
<1>1. a.vlist \in Seq(VaEntries) /\ Len(a.vlist) \in Nat BY DEF Lists, Within
<1>2. End(a.vlist) \in Nat /\ End(a.vlist) <= 8 * Len(a.vlist) BY <1>1, EndIs DEF Within
<1>3. Place(End(a.vlist), size) \in Nat /\ Place(End(a.vlist), size) + size <= 8 * (Len(a.vlist) + 1)
  BY <1>1, <1>2, PlaceIs
<1>4. e \in VaEntries /\ e.off + e.size <= 8 * (Len(a.vlist) + 1) BY <1>3 DEF VaEntries
<1>7. vlist = Append(a.vlist, e) BY DEF VA_LIST_PUT
<1> HIDE DEF e, vlist
<1>5. /\ vlist \in Seq(VaEntries) /\ Len(vlist) = Len(a.vlist) + 1 /\ vlist # <<>>
      /\ \A k \in 1 .. Len(a.vlist) : vlist[k] = a.vlist[k]
      /\ vlist[Len(vlist)] = e
  BY <1>1, <1>4, <1>7
<1>6. End(vlist) = e.off + e.size BY <1>5 DEF End, Last
<1> QED BY <1>4, <1>5, <1>6, <1>1 DEF e, vlist, Longer

LEMMA PassWithin ==
  ASSUME abi \in {32, 64}, NEW a, Within(a), NEW size \in {4, 8}, NEW as \in How
  PROVE  LET b == Pass(a, size, as) IN
         /\ Within(b) /\ Len(b.vlist) = Len(a.vlist) + 1 /\ b.vtemps = a.vtemps
         /\ b.next_arg = GET_LS_VARG(a.next_arg)
         /\ \A k \in 1 .. Len(a.vlist) : b.vlist[k] = a.vlist[k]
         /\ b.vlist[Len(b.vlist)] = [off |-> Place(End(a.vlist), size), size |-> size, arg |-> ArgAt(a.next_arg),
                                     as |-> as, temp |-> 0]
<1> DEFINE b == Pass(a, size, as)
           v == VA_LIST_PUT(a.vlist, size, ArgAt(a.next_arg), as, 0)
<1>1. a \in Lists /\ Len(a.vtemps) <= Len(a.vlist) BY DEF Within
<1>2. b.vlist = v /\ b.vtemps = a.vtemps /\ b.next_arg = GET_LS_VARG(a.next_arg)
      /\ b = [next_arg |-> GET_LS_VARG(a.next_arg), vlist |-> v, vtemps |-> a.vtemps]
  <2>1. a = [next_arg |-> a.next_arg, vlist |-> a.vlist, vtemps |-> a.vtemps] BY <1>1 DEF Lists
  <2>2. b = [a EXCEPT !.next_arg = GET_LS_VARG(a.next_arg), !.vlist = v] BY DEF Pass
  <2> HIDE DEF b, v
  <2>3. b = [next_arg |-> GET_LS_VARG(a.next_arg), vlist |-> v, vtemps |-> a.vtemps] BY <2>1, <2>2
  <2> QED BY <2>3
<1>3. /\ v \in Seq(VaEntries) /\ Len(v) = Len(a.vlist) + 1
      /\ \A k \in 1 .. Len(a.vlist) : v[k] = a.vlist[k]
      /\ v[Len(v)] = [off |-> Place(End(a.vlist), size), size |-> size, arg |-> ArgAt(a.next_arg), as |-> as, temp |-> 0]
      /\ End(v) <= 8 * Len(v)
  <2>1. ArgAt(a.next_arg) \in 0 .. MaxArgs /\ 0 \in Nat /\ as \in How \cup {"temp"} /\ size \in {4, 8} BY ArgAtIs
  <2>2. Longer(a, v, size, ArgAt(a.next_arg), as, 0) BY <2>1, PutWithin
  <2> QED BY <2>2 DEF Longer
<1> HIDE DEF v, b
<1>4. b \in Lists /\ Len(b.vtemps) \in Nat /\ Len(a.vlist) \in Nat
  <2>1. a.next_arg \in Nat /\ a.vtemps \in Seq(Temps) /\ Len(a.vlist) \in Nat BY <1>1 DEF Lists
  <2>2. GET_LS_VARG(a.next_arg) \in Nat BY <2>1, ArgIs
  <2> QED BY <1>2, <1>3, <2>1, <2>2 DEF Lists
<1>5. Within(b) BY <1>1, <1>2, <1>3, <1>4 DEF Within
<1> QED BY <1>2, <1>3, <1>5 DEF b

LEMMA PassTempWithin ==
  ASSUME abi \in {32, 64}, NEW a, Within(a)
  PROVE  LET b == PassTemp(a) IN
         /\ Within(b) /\ Len(b.vlist) = Len(a.vlist) + 1
         /\ b.next_arg = GET_LS_VARG(a.next_arg)
         /\ b.vtemps = Append(a.vtemps, [ptr |-> ArgAt(a.next_arg), llval |-> "garbage"])
         /\ \A k \in 1 .. Len(a.vlist) : b.vlist[k] = a.vlist[k]
         /\ b.vlist[Len(b.vlist)] = [off |-> Place(End(a.vlist), Word), size |-> Word, arg |-> ArgAt(a.next_arg),
                                     as |-> "temp", temp |-> Len(a.vtemps) + 1]
<1> DEFINE b == PassTemp(a)
           v == VA_LIST_PUT(a.vlist, Word, ArgAt(a.next_arg), "temp", Len(a.vtemps) + 1)
           t == Append(a.vtemps, [ptr |-> ArgAt(a.next_arg), llval |-> "garbage"])
<1>1. a \in Lists /\ Len(a.vtemps) <= Len(a.vlist) /\ Len(a.vtemps) \in Nat /\ Len(a.vlist) \in Nat
  BY DEF Within, Lists
<1>2. b = [next_arg |-> GET_LS_VARG(a.next_arg), vlist |-> v, vtemps |-> t]
  <2>1. a = [next_arg |-> a.next_arg, vlist |-> a.vlist, vtemps |-> a.vtemps] BY <1>1 DEF Lists
  <2>2. b = [a EXCEPT !.next_arg = GET_LS_VARG(a.next_arg), !.vlist = v, !.vtemps = t] BY DEF PassTemp
  <2> HIDE DEF b, v, t
  <2> QED BY <2>1, <2>2
<1>3. Word \in {4, 8} BY DEF Word
<1>4. /\ v \in Seq(VaEntries) /\ Len(v) = Len(a.vlist) + 1
      /\ \A k \in 1 .. Len(a.vlist) : v[k] = a.vlist[k]
      /\ v[Len(v)] = [off |-> Place(End(a.vlist), Word), size |-> Word, arg |-> ArgAt(a.next_arg),
                      as |-> "temp", temp |-> Len(a.vtemps) + 1]
      /\ End(v) <= 8 * Len(v)
  <2>1. /\ ArgAt(a.next_arg) \in 0 .. MaxArgs /\ Len(a.vtemps) + 1 \in Nat
        /\ "temp" \in How \cup {"temp"}
    BY <1>1, ArgAtIs
  <2>2. Longer(a, v, Word, ArgAt(a.next_arg), "temp", Len(a.vtemps) + 1) BY <1>3, <2>1, PutWithin
  <2> QED BY <2>2 DEF Longer
<1>5. t \in Seq(Temps) /\ Len(t) = Len(a.vtemps) + 1
  <2>1. [ptr |-> ArgAt(a.next_arg), llval |-> "garbage"] \in Temps BY ArgAtIs DEF Temps
  <2> QED BY <1>1, <2>1 DEF Lists
<1> HIDE DEF v, t
<1>6. b \in Lists BY <1>1, <1>2, <1>4, <1>5, ArgIs DEF Lists
<1>7. b.vlist = v /\ b.vtemps = t /\ b.next_arg = GET_LS_VARG(a.next_arg) BY <1>2
<1> HIDE DEF b
<1>8. Within(b)
  <2>1. Len(v) = Len(a.vlist) + 1 /\ End(v) <= 8 * Len(v) BY <1>4
  <2>2. Len(t) <= Len(v) BY <1>1, <1>5, <2>1
  <2> QED BY <1>6, <1>7, <2>1, <2>2 DEF Within
<1> QED BY <1>4, <1>7, <1>8 DEF b, t

-----------------------------------------------------------------------------
(* The arguments *)

\* What the C library takes, when nothing is a long double.
Wants == [size : {4, 8}, as : How \cup {"temp"}, stores : BOOLEAN]
Want(size, as, stores) == [size |-> size, as |-> as, stores |-> stores]

\* The entries of v are those the C library takes by s, the k-th for argument k.
Matches(v, s) ==
  /\ Len(v) = Len(s)
  /\ \A k \in 1 .. Len(s) :
       /\ v[k].arg = k /\ v[k].size = s[k].size /\ v[k].as = s[k].as
       /\ v[k].off = Place(IF k = 1 THEN 0 ELSE v[k - 1].off + v[k - 1].size, s[k].size)

\* Each argument to be stored through a temporary has one of its own.
OwnTemps(v, vtemps, s) ==
  /\ \A k \in 1 .. Len(s) :
       IF s[k].as = "temp" THEN v[k].temp \in 1 .. Len(vtemps) /\ vtemps[v[k].temp].ptr = k
                           ELSE v[k].temp = 0
  /\ \A i \in 1 .. Len(vtemps) : vtemps[i].ptr \in 1 .. Len(s) /\ v[vtemps[i].ptr].temp = i

\* The types of what is taken.
Taken(s) ==
  /\ s \in Seq(Wants)
  /\ \A k \in 1 .. Len(s) : /\ s[k].as = "temp" => abi = 64
                            /\ s[k].stores => s[k].as \in {"ls", "temp"}

\* The parser fetched the arguments of s and stands before the next.
Tracks(a, s) ==
  /\ Within(a) /\ Taken(s)
  /\ Matches(a.vlist, s) /\ OwnTemps(a.vlist, a.vtemps, s)
  /\ a.next_arg = ArgAddress(Len(s) + 1)

LEMMA AddressIs ==
  \A k \in 1 .. MaxArgs :
    ArgAt(ArgAddress(k)) = k /\ GET_LS_VARG(ArgAddress(k)) = ArgAddress(k + 1)
<1> TAKE k \in 1 .. MaxArgs
<1>1. k \in Nat /\ k >= 1 BY MaxIs
<1>2. \A j \in 1 .. MaxArgs : ArgAddress(j) = ArgAddress(k) => j = k
  <2>1. \A j \in 1 .. MaxArgs : j \in Int BY MaxIs
  <2> QED BY <1>1, <2>1, MaxIs DEF ArgAddress
<1>3. ArgAt(ArgAddress(k)) = k BY <1>2 DEF ArgAt
<1>4. GET_LS_VARG(ArgAddress(k)) = ArgAddress(k + 1)
  <2>1. CASE k < RegArgs BY <1>1, <2>1, MaxIs DEF ArgAddress, GET_LS_VARG, caller_stack
  <2>2. CASE k = RegArgs BY <1>1, <2>2, MaxIs DEF ArgAddress, GET_LS_VARG, caller_stack
  <2>3. CASE k > RegArgs BY <1>1, <2>3, MaxIs DEF ArgAddress, GET_LS_VARG, caller_stack
  <2> QED BY <1>1, <2>1, <2>2, <2>3, MaxIs
<1> QED BY <1>3, <1>4

\* One more entry of a list, and of what is taken.
LEMMA MatchesMore ==
  ASSUME NEW v \in Seq(VaEntries), NEW w \in Seq(VaEntries), NEW s \in Seq(Wants), NEW e \in Wants, Matches(v, s),
         Len(w) = Len(v) + 1, \A k \in 1 .. Len(v) : w[k] = v[k],
         w[Len(w)].off = Place(End(v), e.size), w[Len(w)].size = e.size, w[Len(w)].arg = Len(s) + 1,
         w[Len(w)].as = e.as
  PROVE  Matches(w, Append(s, e))
<1> DEFINE t == Append(s, e)
<1>1. Len(s) \in Nat /\ Len(v) = Len(s) /\ Len(t) = Len(s) + 1 BY DEF Matches
<1>2. t[Len(t)] = e /\ \A k \in 1 .. Len(s) : t[k] = s[k] BY <1>1
<1> HIDE DEF t
<1>3. ASSUME NEW k \in 1 .. Len(s)
      PROVE  /\ w[k].arg = k /\ w[k].size = t[k].size /\ w[k].as = t[k].as
             /\ w[k].off = Place(IF k = 1 THEN 0 ELSE w[k - 1].off + w[k - 1].size, t[k].size)
  <2>1. w[k] = v[k] /\ t[k] = s[k] BY <1>1, <1>2
  <2>2. k # 1 => w[k - 1] = v[k - 1] BY <1>1
  <2> QED BY <2>1, <2>2 DEF Matches
<1>4. End(v) = IF Len(w) = 1 THEN 0 ELSE w[Len(w) - 1].off + w[Len(w) - 1].size
  <2>1. CASE v = <<>> BY <1>1, <2>1 DEF End
  <2>2. CASE v # <<>>
    <3>1. Len(v) >= 1 BY <1>1, <2>2
    <3>2. w[Len(v)] = v[Len(v)] BY <1>1, <3>1
    <3> QED BY <1>1, <2>2, <3>1, <3>2 DEF End, Last
  <2> QED BY <2>1, <2>2
<1>5. ASSUME NEW k \in 1 .. Len(t), k = Len(t)
      PROVE  /\ w[k].arg = k /\ w[k].size = t[k].size /\ w[k].as = t[k].as
             /\ w[k].off = Place(IF k = 1 THEN 0 ELSE w[k - 1].off + w[k - 1].size, t[k].size)
  BY <1>1, <1>2, <1>4, <1>5
<1>6. \A k \in 1 .. Len(t) : k \in 1 .. Len(s) \/ k = Len(t) BY <1>1
<1> QED BY <1>1, <1>3, <1>5, <1>6 DEF Matches, t

LEMMA TakenMore ==
  ASSUME NEW s, Taken(s), NEW e \in Wants, e.as = "temp" => abi = 64, e.stores => e.as \in {"ls", "temp"}
  PROVE  Taken(Append(s, e)) /\ Append(s, e) \in Seq(Wants) /\ Len(Append(s, e)) = Len(s) + 1
<1>1. s \in Seq(Wants) /\ Len(s) \in Nat BY DEF Taken
<1>2. Append(s, e) \in Seq(Wants) /\ Len(Append(s, e)) = Len(s) + 1 BY <1>1
<1>3. ASSUME NEW k \in 1 .. Len(Append(s, e))
      PROVE  /\ Append(s, e)[k].as = "temp" => abi = 64
             /\ Append(s, e)[k].stores => Append(s, e)[k].as \in {"ls", "temp"}
  <2>1. CASE k = Len(s) + 1 BY <1>1, <2>1
  <2>2. CASE k # Len(s) + 1
    <3>1. k \in 1 .. Len(s) BY <1>1, <1>2, <2>2
    <3> QED BY <1>1, <3>1 DEF Taken
  <2> QED BY <2>1, <2>2
<1> QED BY <1>2, <1>3 DEF Taken

LEMMA PassTracks ==
  ASSUME abi \in {32, 64}, NEW a, NEW s, Tracks(a, s), Len(s) < MaxArgs,
         NEW size \in {4, 8}, NEW as \in How, NEW stores \in BOOLEAN, stores => as = "ls"
  PROVE  Tracks(Pass(a, size, as), s \o <<Want(size, as, stores)>>)
<1> DEFINE b == Pass(a, size, as)
           e == Want(size, as, stores)
           t == Append(s, e)
<1>1. /\ Within(a) /\ a \in Lists /\ a.vlist \in Seq(VaEntries) /\ a.vtemps \in Seq(Temps) /\ s \in Seq(Wants)
      /\ Len(s) \in Nat /\ Len(a.vlist) = Len(s) /\ Len(a.vtemps) \in Nat
  BY DEF Tracks, Within, Lists, Taken, Matches
<1>2. ArgAt(a.next_arg) = Len(s) + 1 /\ GET_LS_VARG(a.next_arg) = ArgAddress(Len(s) + 2)
  <2>1. Len(s) + 1 \in 1 .. MaxArgs BY <1>1, MaxIs
  <2>2. (Len(s) + 1) + 1 = Len(s) + 2 BY <1>1
  <2> QED BY <2>1, <2>2, AddressIs DEF Tracks
<1>3. e \in Wants /\ e.as = as /\ e.size = size /\ e.stores = stores BY DEF Want, Wants
<1>4. s \o <<e>> = t BY <1>1, <1>3, AppendIsConcat
<1>5. Taken(t) /\ t \in Seq(Wants) /\ Len(t) = Len(s) + 1
  BY <1>3, TakenMore DEF How, Tracks
<1>6. /\ Within(b) /\ Len(b.vlist) = Len(a.vlist) + 1 /\ b.vtemps = a.vtemps
      /\ b.next_arg = GET_LS_VARG(a.next_arg)
      /\ \A k \in 1 .. Len(a.vlist) : b.vlist[k] = a.vlist[k]
      /\ b.vlist[Len(b.vlist)] = [off |-> Place(End(a.vlist), size), size |-> size, arg |-> ArgAt(a.next_arg),
                                  as |-> as, temp |-> 0]
  BY <1>1, PassWithin
<1>7. b.vlist \in Seq(VaEntries) BY <1>6 DEF Within, Lists
<1> HIDE DEF e
<1>8. t[Len(s) + 1] = e /\ \A k \in 1 .. Len(s) : t[k] = s[k] BY <1>1, <1>3
<1> HIDE DEF b, t
<1>9. Matches(b.vlist, t)
  <2>1. Matches(a.vlist, s) BY DEF Tracks
  <2>2. LET w == b.vlist IN
        /\ w[Len(w)].off = Place(End(a.vlist), e.size) /\ w[Len(w)].size = e.size
        /\ w[Len(w)].arg = Len(s) + 1 /\ w[Len(w)].as = e.as
    BY <1>2, <1>3, <1>6
  <2> QED BY <1>1, <1>3, <1>6, <1>7, <2>1, <2>2, MatchesMore DEF t
<1>10. OwnTemps(b.vlist, b.vtemps, t)
  <2>1. ASSUME NEW k \in 1 .. Len(t)
        PROVE  IF t[k].as = "temp" THEN b.vlist[k].temp \in 1 .. Len(b.vtemps) /\ b.vtemps[b.vlist[k].temp].ptr = k
                                   ELSE b.vlist[k].temp = 0
    <3>1. CASE k = Len(t)
      <4>1. t[k].as # "temp" BY <1>3, <1>5, <1>8, <3>1 DEF How
      <4>2. b.vlist[k].temp = 0 BY <1>1, <1>5, <1>6, <3>1
      <4> QED BY <4>1, <4>2
    <3>2. CASE k # Len(t)
      <4>1. k \in 1 .. Len(s) BY <1>1, <1>5, <3>2
      <4>2. t[k] = s[k] /\ b.vlist[k] = a.vlist[k] BY <1>1, <1>6, <1>8, <4>1
      <4> QED BY <1>6, <4>1, <4>2 DEF Tracks, OwnTemps
    <3> QED BY <3>1, <3>2
  <2>2. ASSUME NEW i \in 1 .. Len(b.vtemps)
        PROVE  b.vtemps[i].ptr \in 1 .. Len(t) /\ b.vlist[b.vtemps[i].ptr].temp = i
    <3>1. a.vtemps[i].ptr \in 1 .. Len(s) /\ a.vlist[a.vtemps[i].ptr].temp = i
      BY <1>6 DEF Tracks, OwnTemps
    <3> QED BY <1>1, <1>5, <1>6, <3>1
  <2> QED BY <2>1, <2>2 DEF OwnTemps
<1>11. b.next_arg = ArgAddress(Len(t) + 1)
  <2>1. Len(t) + 1 = Len(s) + 2 BY <1>1, <1>5
  <2> QED BY <1>2, <1>6, <2>1
<1> QED BY <1>4, <1>5, <1>6, <1>9, <1>10, <1>11 DEF Tracks, b, e

LEMMA PassTempTracks ==
  ASSUME abi = 64, NEW a, NEW s, Tracks(a, s), Len(s) < MaxArgs
  PROVE  Tracks(PassTemp(a), s \o <<Want(Word, "temp", TRUE)>>)
<1> DEFINE b == PassTemp(a)
           e == Want(Word, "temp", TRUE)
           t == Append(s, e)
           u == [ptr |-> ArgAt(a.next_arg), llval |-> "garbage"]
<1>1. /\ Within(a) /\ a \in Lists /\ a.vlist \in Seq(VaEntries) /\ a.vtemps \in Seq(Temps) /\ s \in Seq(Wants)
      /\ Len(s) \in Nat /\ Len(a.vlist) = Len(s) /\ Len(a.vtemps) \in Nat
  BY DEF Tracks, Within, Lists, Taken, Matches
<1>2. ArgAt(a.next_arg) = Len(s) + 1 /\ GET_LS_VARG(a.next_arg) = ArgAddress(Len(s) + 2)
  <2>1. Len(s) + 1 \in 1 .. MaxArgs BY <1>1, MaxIs
  <2>2. (Len(s) + 1) + 1 = Len(s) + 2 BY <1>1
  <2> QED BY <2>1, <2>2, AddressIs DEF Tracks
<1>3. e \in Wants /\ e.as = "temp" /\ e.size = Word /\ e.stores = TRUE BY DEF Want, Wants, Word
<1>4. s \o <<e>> = t BY <1>1, <1>3, AppendIsConcat
<1>5. Taken(t) /\ t \in Seq(Wants) /\ Len(t) = Len(s) + 1
  BY <1>3, TakenMore DEF How, Tracks
<1>6. /\ Within(b) /\ Len(b.vlist) = Len(a.vlist) + 1
      /\ b.next_arg = GET_LS_VARG(a.next_arg)
      /\ b.vtemps = Append(a.vtemps, u)
      /\ \A k \in 1 .. Len(a.vlist) : b.vlist[k] = a.vlist[k]
      /\ b.vlist[Len(b.vlist)] = [off |-> Place(End(a.vlist), Word), size |-> Word, arg |-> ArgAt(a.next_arg),
                                  as |-> "temp", temp |-> Len(a.vtemps) + 1]
  BY <1>1, PassTempWithin
<1>7. b.vlist \in Seq(VaEntries) BY <1>6 DEF Within, Lists
<1> HIDE DEF e
<1>8. t[Len(s) + 1] = e /\ \A k \in 1 .. Len(s) : t[k] = s[k] BY <1>1, <1>3
<1>12. u.ptr = Len(s) + 1 BY <1>2
<1> HIDE DEF b, t, u
<1>13. /\ Len(b.vtemps) = Len(a.vtemps) + 1 /\ b.vtemps[Len(a.vtemps) + 1] = u
       /\ \A i \in 1 .. Len(a.vtemps) : b.vtemps[i] = a.vtemps[i]
  BY <1>1, <1>6
<1>9. Matches(b.vlist, t)
  <2>1. Matches(a.vlist, s) BY DEF Tracks
  <2>2. LET w == b.vlist IN
        /\ w[Len(w)].off = Place(End(a.vlist), e.size) /\ w[Len(w)].size = e.size
        /\ w[Len(w)].arg = Len(s) + 1 /\ w[Len(w)].as = e.as
    BY <1>2, <1>3, <1>6
  <2> QED BY <1>1, <1>3, <1>6, <1>7, <2>1, <2>2, MatchesMore DEF t
<1>10. OwnTemps(b.vlist, b.vtemps, t)
  <2>1. ASSUME NEW k \in 1 .. Len(t)
        PROVE  IF t[k].as = "temp" THEN b.vlist[k].temp \in 1 .. Len(b.vtemps) /\ b.vtemps[b.vlist[k].temp].ptr = k
                                   ELSE b.vlist[k].temp = 0
    <3>1. CASE k = Len(t)
      <4>1. b.vlist[k].temp = Len(a.vtemps) + 1 BY <1>1, <1>5, <1>6, <3>1
      <4> QED BY <1>1, <1>3, <1>5, <1>8, <1>12, <1>13, <3>1, <4>1
    <3>2. CASE k # Len(t)
      <4>1. k \in 1 .. Len(s) BY <1>1, <1>5, <3>2
      <4>2. t[k] = s[k] /\ b.vlist[k] = a.vlist[k] BY <1>1, <1>6, <1>8, <4>1
      <4>3. IF s[k].as = "temp" THEN a.vlist[k].temp \in 1 .. Len(a.vtemps) /\ a.vtemps[a.vlist[k].temp].ptr = k
                                ELSE a.vlist[k].temp = 0
        BY <4>1 DEF Tracks, OwnTemps
      <4>4. CASE s[k].as = "temp"
        <5>1. a.vlist[k].temp \in 1 .. Len(a.vtemps) /\ a.vtemps[a.vlist[k].temp].ptr = k BY <4>3, <4>4
        <5>2. b.vtemps[a.vlist[k].temp] = a.vtemps[a.vlist[k].temp] BY <1>13, <5>1
        <5> QED BY <1>1, <1>13, <4>2, <4>4, <5>1, <5>2
      <4> QED BY <4>2, <4>3, <4>4
    <3> QED BY <3>1, <3>2
  <2>2. ASSUME NEW i \in 1 .. Len(b.vtemps)
        PROVE  b.vtemps[i].ptr \in 1 .. Len(t) /\ b.vlist[b.vtemps[i].ptr].temp = i
    <3>1. CASE i = Len(a.vtemps) + 1
      <4>1. b.vtemps[i].ptr = Len(s) + 1 BY <1>12, <1>13, <3>1
      <4>2. b.vlist[Len(s) + 1].temp = i BY <1>1, <1>6, <3>1
      <4> QED BY <1>1, <1>5, <4>1, <4>2
    <3>2. CASE i # Len(a.vtemps) + 1
      <4>1. i \in 1 .. Len(a.vtemps) BY <1>1, <1>13, <3>2
      <4>2. b.vtemps[i] = a.vtemps[i] BY <1>13, <4>1
      <4>3. a.vtemps[i].ptr \in 1 .. Len(s) /\ a.vlist[a.vtemps[i].ptr].temp = i
        BY <4>1 DEF Tracks, OwnTemps
      <4>4. b.vlist[a.vtemps[i].ptr] = a.vlist[a.vtemps[i].ptr] BY <1>1, <1>6, <4>3
      <4> QED BY <1>1, <1>5, <4>2, <4>3, <4>4
    <3> QED BY <3>1, <3>2
  <2> QED BY <2>1, <2>2 DEF OwnTemps
<1>11. b.next_arg = ArgAddress(Len(t) + 1)
  <2>1. Len(t) + 1 = Len(s) + 2 BY <1>1, <1>5
  <2> QED BY <1>2, <1>6, <2>1
<1> QED BY <1>4, <1>5, <1>6, <1>9, <1>10, <1>11 DEF Tracks, b, e

-----------------------------------------------------------------------------
(* Directives *)

Plain == {"", "h"}
Twice == {"ll", "j"}
Long == {"l", "z"}

LEMMA Values ==
  ASSUME abi \in {32, 64}, NEW how
  PROVE  /\ Value("int", how) = <<Want(4, "same", FALSE)>>
         /\ \A type \in {"long long", "intmax_t", "double"} : Value(type, how) = <<Want(8, "same", FALSE)>>
         /\ \A type \in {"long", "size_t", "pointer"} :
              Value(type, how) = <<Want(Word, Widened(how), FALSE)>>
         /\ \A type \in {"char", "short", "int", "float", "long long", "intmax_t", "double"} :
              Object(type) = <<Want(Word, "ls", TRUE)>>
         /\ \A type \in {"long", "size_t", "pointer"} :
              Object(type) = <<Want(Word, IF abi = 64 THEN "temp" ELSE "ls", TRUE)>>
<1>1. \A type \in {"int", "float"} : Size(abi, type) = 4 /\ SpeSize(type) = 4 BY DEF Size, SpeSize
<1>2. \A type \in {"long long", "intmax_t", "double"} : Size(abi, type) = 8 /\ SpeSize(type) = 8 BY DEF Size, SpeSize
<1>3. \A type \in {"long", "size_t", "pointer"} : Size(abi, type) = Word /\ SpeSize(type) = 4
  <2>1. 32 \div 8 = 4 OBVIOUS
  <2> QED BY <2>1 DEF Size, SpeSize, Word
<1>4. \A type \in {"char", "short"} : Size(abi, type) = SpeSize(type) BY DEF Size, SpeSize
<1>5. (abi = 64 /\ Word = 8) \/ (abi = 32 /\ Word = 4) BY DEF Word
<1>6. ASSUME NEW type \in {"int", "float"} \cup {"long long", "intmax_t", "double"} \cup {"char", "short"}
      PROVE SameSize(type)
  BY <1>1, <1>2, <1>4 DEF SameSize
<1>7. ASSUME NEW type \in {"long", "size_t", "pointer"} PROVE SameSize(type) <=> abi = 32
  BY <1>3, <1>5 DEF SameSize
<1>8. Value("int", how) = <<Want(4, "same", FALSE)>> BY <1>1, <1>6 DEF Value, Want
<1>9. ASSUME NEW type \in {"long long", "intmax_t", "double"} PROVE Value(type, how) = <<Want(8, "same", FALSE)>>
  BY <1>2, <1>6 DEF Value, Want
<1>10. ASSUME NEW type \in {"long", "size_t", "pointer"} PROVE Value(type, how) = <<Want(Word, Widened(how), FALSE)>>
  <2>1. Size(abi, type) = Word BY <1>3
  <2>2. (IF SameSize(type) THEN "same" ELSE how) = Widened(how) BY <1>5, <1>7 DEF Widened
  <2> QED BY <2>1, <2>2 DEF Value, Want
<1>11. ASSUME NEW type \in {"char", "short", "int", "float", "long long", "intmax_t", "double"}
       PROVE Object(type) = <<Want(Word, "ls", TRUE)>>
  BY <1>6 DEF Object, Want
<1>12. ASSUME NEW type \in {"long", "size_t", "pointer"}
       PROVE Object(type) = <<Want(Word, IF abi = 64 THEN "temp" ELSE "ls", TRUE)>>
  <2>1. (IF SameSize(type) THEN "ls" ELSE "temp") = (IF abi = 64 THEN "temp" ELSE "ls") BY <1>5, <1>7
  <2> QED BY <2>1 DEF Object, Want
<1> QED BY <1>8, <1>9, <1>10, <1>11, <1>12

\* b is what the parser has of a when the library takes t as well.
Follows(a, b, t) ==
  /\ t \in Seq(Wants) /\ Len(t) <= 1
  /\ \A s : Tracks(a, s) /\ Len(s) < MaxArgs => Tracks(b, s \o t)

LEMMA FollowsOne ==
  ASSUME NEW a, NEW b, NEW e \in Wants, \A s : Tracks(a, s) /\ Len(s) < MaxArgs => Tracks(b, s \o <<e>>)
  PROVE  Follows(a, b, <<e>>)
<1>1. <<e>> \in Seq(Wants) /\ Len(<<e>>) = 1 OBVIOUS
<1>2. Len(<<e>>) <= 1 BY <1>1
<1> QED BY <1>1, <1>2 DEF Follows

LEMMA PassFollows ==
  ASSUME abi \in {32, 64}, NEW a
  PROVE  /\ \A size \in {4, 8}, as \in How : Follows(a, Pass(a, size, as), <<Want(size, as, FALSE)>>)
         /\ Follows(a, PassPointer(a), <<Want(Word, "ls", FALSE)>>)
         /\ Follows(a, PassPointer(a), <<Want(Word, "ls", TRUE)>>)
         /\ abi = 64 => Follows(a, PassTemp(a), <<Want(Word, "temp", TRUE)>>)
         /\ Follows(a, a, <<>>)
<1>1. Word \in {4, 8} BY DEF Word
<1>2. ASSUME NEW size \in {4, 8}, NEW as \in How PROVE Follows(a, Pass(a, size, as), <<Want(size, as, FALSE)>>)
  <2>1. Want(size, as, FALSE) \in Wants BY DEF Want, Wants
  <2>2. ASSUME NEW s, Tracks(a, s), Len(s) < MaxArgs
        PROVE  Tracks(Pass(a, size, as), s \o <<Want(size, as, FALSE)>>)
    BY <2>2, PassTracks
  <2> QED BY <2>1, <2>2, FollowsOne
<1>3. ASSUME NEW stores \in BOOLEAN PROVE Follows(a, PassPointer(a), <<Want(Word, "ls", stores)>>)
  <2>1. "ls" \in How BY DEF How
  <2>2. Want(Word, "ls", stores) \in Wants BY <1>1, <2>1 DEF Want, Wants
  <2>3. ASSUME NEW s, Tracks(a, s), Len(s) < MaxArgs
        PROVE  Tracks(Pass(a, Word, "ls"), s \o <<Want(Word, "ls", stores)>>)
    BY <1>1, <2>1, <2>3, PassTracks
  <2> QED BY <2>2, <2>3, FollowsOne DEF PassPointer
<1>4. ASSUME abi = 64 PROVE Follows(a, PassTemp(a), <<Want(Word, "temp", TRUE)>>)
  <2>1. Want(Word, "temp", TRUE) \in Wants BY <1>1 DEF Want, Wants
  <2>2. ASSUME NEW s, Tracks(a, s), Len(s) < MaxArgs
        PROVE  Tracks(PassTemp(a), s \o <<Want(Word, "temp", TRUE)>>)
    BY <1>4, <2>2, PassTempTracks
  <2> QED BY <2>1, <2>2, FollowsOne
<1>5. ASSUME NEW s, Tracks(a, s) PROVE s \o <<>> = s
  <2>1. s \in Seq(Wants) BY <1>5 DEF Tracks, Taken
  <2> QED BY <2>1, ConcatEmptySeq
<1>6. Follows(a, a, <<>>) BY <1>5 DEF Follows
<1> QED BY <1>2, <1>3, <1>4, <1>6

\* An object that is longer on a 64-bit PPE.
LEMMA LongFollows ==
  ASSUME abi \in {32, 64}, NEW a
  PROVE  Follows(a, IF abi = 64 THEN PassTemp(a) ELSE PassPointer(a),
                 <<Want(Word, IF abi = 64 THEN "temp" ELSE "ls", TRUE)>>)
<1>1. CASE abi = 64
  <2>1. Follows(a, PassTemp(a), <<Want(Word, "temp", TRUE)>>) BY <1>1, PassFollows
  <2> QED BY <1>1, <2>1
<1>2. CASE abi = 32
  <2>1. Follows(a, PassPointer(a), <<Want(Word, "ls", TRUE)>>) BY PassFollows
  <2> QED BY <1>2, <2>1
<1> QED BY <1>1, <1>2

\* What ISO C lets a conversion have.
LEMMA Lens ==
  ASSUME NEW d \in Directive, d.len # "L"
  PROVE  /\ d.conv \in {"d", "u", "f", "c", "p", "s", "n", "%", "[", "[?"}
         /\ d.width \in {"", "*"} /\ d.prec \in {"", "*"} /\ d.suppress \in BOOLEAN
         /\ Conversion(d) = d.conv
         /\ d.conv \in {"d", "u", "n"} => d.len \in {"", "h", "l", "ll", "j", "z"}
         /\ d.conv = "f" => d.len \in {"", "l"}
BY DEF Directive, Lengths, Conversion

LEMMA Longs ==
  ASSUME NEW d
  PROVE  /\ d.len \in Plain => format_long(d) = 0 /\ IntType(d.len) = "int"
         /\ d.len \in Twice => format_long(d) = 2 /\ IntType(d.len) \in {"long long", "intmax_t"}
         /\ d.len \in Long  => format_long(d) = 1 /\ IntType(d.len) \in {"long", "size_t"}
<1>1. CASE d.len = "" BY <1>1 DEF format_long, IntType, Plain, Twice, Long
<1>2. CASE d.len = "h" BY <1>2 DEF format_long, IntType, Plain, Twice, Long
<1>3. CASE d.len = "ll" BY <1>3 DEF format_long, IntType, Plain, Twice, Long
<1>4. CASE d.len = "j" BY <1>4 DEF format_long, IntType, Plain, Twice, Long
<1>5. CASE d.len = "l" BY <1>5 DEF format_long, IntType, Plain, Twice, Long
<1>6. CASE d.len = "z" BY <1>6 DEF format_long, IntType, Plain, Twice, Long
<1> QED BY <1>1, <1>2, <1>3, <1>4, <1>5, <1>6 DEF Plain, Twice, Long

LEMMA Stars ==
  ASSUME abi \in {32, 64}, NEW d \in Directive, NEW a
  PROVE  /\ Follows(a, SKIP_FIELD_WIDTH(d, a), Star(d.width))
         /\ Follows(a, SKIP_PRECISION(d, a), Star(d.prec))
<1>1. "same" \in How /\ 4 \in {4, 8} BY DEF How
<1>2. Follows(a, Pass(a, 4, "same"), Value("int", "sign")) BY <1>1, Values, PassFollows
<1>3. Follows(a, a, <<>>) BY PassFollows
<1> QED BY <1>2, <1>3 DEF SKIP_FIELD_WIDTH, SKIP_PRECISION, Star

LEMMA PrintfFollows ==
  ASSUME abi \in {32, 64}, NEW d \in Directive, d.conv \notin {"[", "[?"}, d.len # "L", NEW a
  PROVE  Follows(a, PrintfArgument(d, a), PrintfConverts(d))
<1>1. Conversion(d) = d.conv BY Lens
<1>2. {"same", "sign", "zero"} \subseteq How /\ {4, 8} \subseteq {4, 8} BY DEF How
<1>3. /\ abi = 64 => Word = 8 /\ Widened("sign") = "sign" /\ Widened("zero") = "zero"
      /\ abi = 32 => Word = 4 /\ Widened("sign") = "same" /\ Widened("zero") = "same"
      /\ abi = 64 \/ abi = 32
  <2>1. 64 \div 8 = 8 /\ 32 \div 8 = 4 OBVIOUS
  <2> QED BY <2>1 DEF Word, Widened
<1> DEFINE PassFits(size, as) == Follows(a, Pass(a, size, as), <<Want(size, as, FALSE)>>)
<1>passed. \A size \in {4, 8}, as \in How : PassFits(size, as) BY PassFollows
<1>same. PassFits(4, "same") /\ PassFits(8, "same")
  <2> HIDE DEF PassFits
  <2> QED BY <1>2, <1>passed
<1>wide. PassFits(8, "sign") /\ PassFits(8, "zero")
  <2> HIDE DEF PassFits
  <2> QED BY <1>2, <1>passed
<1>4. CASE d.conv = "d"
  <2>0. PrintfConverts(d) = Value(IntType(d.len), "sign") BY <1>4 DEF PrintfConverts
  <2>1. CASE d.len \in Plain
    <3>1. PrintfConverts(d) = <<Want(4, "same", FALSE)>> BY <2>0, <2>1, Values, Longs
    <3>3. format_long(d) = 0 BY <2>1, Longs
    <3>2. PrintfArgument(d, a) = Pass(a, 4, "same") BY <1>1, <1>4, <2>1, <3>3 DEF PrintfArgument
    <3> QED BY <1>same, <3>1, <3>2
  <2>2. CASE d.len \in Twice
    <3>1. PrintfConverts(d) = <<Want(8, "same", FALSE)>> BY <2>0, <2>2, Values, Longs
    <3>3. format_long(d) = 2 BY <2>2, Longs
    <3>2. PrintfArgument(d, a) = Pass(a, 8, "same") BY <1>1, <1>4, <2>2, <3>3 DEF PrintfArgument
    <3> QED BY <1>same, <3>1, <3>2
  <2>3. CASE d.len \in Long /\ abi = 64
    <3>1. PrintfConverts(d) = <<Want(8, "sign", FALSE)>>
      <4>1. PrintfConverts(d) = <<Want(Word, Widened("sign"), FALSE)>> BY <2>0, <2>3, Values, Longs
      <4> QED BY <1>3, <2>3, <4>1
    <3>3. format_long(d) = 1 BY <2>3, Longs
    <3>2. PrintfArgument(d, a) = Pass(a, 8, "sign") BY <1>1, <1>4, <2>3, <3>3 DEF PrintfArgument
    <3> QED BY <1>wide, <3>1, <3>2
  <2>4. CASE d.len \in Long /\ abi = 32
    <3>1. PrintfConverts(d) = <<Want(4, "same", FALSE)>>
      <4>1. PrintfConverts(d) = <<Want(Word, Widened("sign"), FALSE)>> BY <2>0, <2>4, Values, Longs
      <4> QED BY <1>3, <2>4, <4>1
    <3>3. format_long(d) = 1 BY <2>4, Longs
    <3>2. PrintfArgument(d, a) = Pass(a, 4, "same") BY <1>1, <1>4, <2>4, <3>3 DEF PrintfArgument
    <3> QED BY <1>same, <3>1, <3>2
  <2> QED BY <1>4, <2>1, <2>2, <2>3, <2>4, Lens DEF Plain, Twice, Long
<1>5. CASE d.conv = "u"
  <2>0. PrintfConverts(d) = Value(IntType(d.len), "zero") BY <1>5 DEF PrintfConverts
  <2>1. CASE d.len \in Plain
    <3>1. PrintfConverts(d) = <<Want(4, "same", FALSE)>> BY <2>0, <2>1, Values, Longs
    <3>3. format_long(d) = 0 BY <2>1, Longs
    <3>2. PrintfArgument(d, a) = Pass(a, 4, "same") BY <1>1, <1>5, <2>1, <3>3 DEF PrintfArgument
    <3> QED BY <1>same, <3>1, <3>2
  <2>2. CASE d.len \in Twice
    <3>1. PrintfConverts(d) = <<Want(8, "same", FALSE)>> BY <2>0, <2>2, Values, Longs
    <3>3. format_long(d) = 2 BY <2>2, Longs
    <3>2. PrintfArgument(d, a) = Pass(a, 8, "same") BY <1>1, <1>5, <2>2, <3>3 DEF PrintfArgument
    <3> QED BY <1>same, <3>1, <3>2
  <2>3. CASE d.len \in Long /\ abi = 64
    <3>1. PrintfConverts(d) = <<Want(8, "zero", FALSE)>>
      <4>1. PrintfConverts(d) = <<Want(Word, Widened("zero"), FALSE)>> BY <2>0, <2>3, Values, Longs
      <4> QED BY <1>3, <2>3, <4>1
    <3>3. format_long(d) = 1 BY <2>3, Longs
    <3>2. PrintfArgument(d, a) = Pass(a, 8, "zero") BY <1>1, <1>5, <2>3, <3>3 DEF PrintfArgument
    <3> QED BY <1>wide, <3>1, <3>2
  <2>4. CASE d.len \in Long /\ abi = 32
    <3>1. PrintfConverts(d) = <<Want(4, "same", FALSE)>>
      <4>1. PrintfConverts(d) = <<Want(Word, Widened("zero"), FALSE)>> BY <2>0, <2>4, Values, Longs
      <4> QED BY <1>3, <2>4, <4>1
    <3>3. format_long(d) = 1 BY <2>4, Longs
    <3>2. PrintfArgument(d, a) = Pass(a, 4, "same") BY <1>1, <1>5, <2>4, <3>3 DEF PrintfArgument
    <3> QED BY <1>same, <3>1, <3>2
  <2> QED BY <1>5, <2>1, <2>2, <2>3, <2>4, Lens DEF Plain, Twice, Long
<1>6. CASE d.conv = "c"
  <2>1. PrintfConverts(d) = <<Want(4, "same", FALSE)>> BY <1>6, Values DEF PrintfConverts
  <2>2. PrintfArgument(d, a) = Pass(a, 4, "same") BY <1>1, <1>6 DEF PrintfArgument
  <2> QED BY <1>same, <2>1, <2>2
<1>7. CASE d.conv = "f"
  <2>1. PrintfConverts(d) = <<Want(8, "same", FALSE)>> BY <1>7, Values DEF PrintfConverts
  <2>2. PrintfArgument(d, a) = Pass(a, 8, "same") BY <1>1, <1>7 DEF PrintfArgument
  <2> QED BY <1>same, <2>1, <2>2
<1>8. CASE d.conv = "p"
  <2>1. PrintfConverts(d) = <<Want(Word, Widened("zero"), FALSE)>> BY <1>8, Values DEF PrintfConverts
  <2>2. PrintfArgument(d, a) = Pass(a, Word, Widened("zero")) BY <1>1, <1>8 DEF PrintfArgument
  <2>3. Word \in {4, 8} /\ Widened("zero") \in How BY <1>2, <1>3
  <2>4. PassFits(Word, Widened("zero"))
    <3> HIDE DEF PassFits
    <3> QED BY <2>3, <1>passed
  <2> QED BY <2>1, <2>2, <2>4
<1>9. CASE d.conv = "s"
  <2>1. PrintfConverts(d) = <<Want(Word, "ls", FALSE)>> BY <1>9 DEF PrintfConverts, Want
  <2>2. PrintfArgument(d, a) = PassPointer(a) BY <1>1, <1>9 DEF PrintfArgument
  <2> QED BY <2>1, <2>2, PassFollows
<1>10. CASE d.conv = "n"
  <2>0. PrintfConverts(d) = Object(IF d.len = "h" THEN "short" ELSE IntType(d.len)) BY <1>10 DEF PrintfConverts
  <2>1. CASE d.len \in Plain \cup Twice
    <3>1. PrintfConverts(d) = <<Want(Word, "ls", TRUE)>>
      <4>1. (IF d.len = "h" THEN "short" ELSE IntType(d.len)) \in {"short", "int", "long long", "intmax_t"}
        BY <2>1, Longs
      <4> QED BY <2>0, <4>1, Values
    <3>3. format_long(d) \in {0, 2} BY <2>1, Longs
    <3>2. PrintfArgument(d, a) = PassPointer(a) BY <1>1, <1>10, <2>1, <3>3 DEF PrintfArgument
    <3> QED BY <3>1, <3>2, PassFollows
  <2>2. CASE d.len \in Long
    <3>1. PrintfConverts(d) = <<Want(Word, IF abi = 64 THEN "temp" ELSE "ls", TRUE)>>
      <4>1. (IF d.len = "h" THEN "short" ELSE IntType(d.len)) \in {"long", "size_t"} BY <2>2, Longs DEF Long
      <4> QED BY <2>0, <4>1, Values
    <3>3. format_long(d) = 1 BY <2>2, Longs
    <3>2. PrintfArgument(d, a) = IF abi = 64 THEN PassTemp(a) ELSE PassPointer(a)
      BY <1>1, <1>10, <2>2, <3>3 DEF PrintfArgument
    <3>4. Follows(a, IF abi = 64 THEN PassTemp(a) ELSE PassPointer(a),
                  <<Want(Word, IF abi = 64 THEN "temp" ELSE "ls", TRUE)>>)
      BY LongFollows
    <3> QED BY <3>1, <3>2, <3>4
  <2> QED BY <1>10, <2>1, <2>2, Lens DEF Plain, Twice, Long
<1>11. CASE d.conv = "%"
  <2>1. PrintfConverts(d) = <<>> BY <1>11 DEF PrintfConverts
  <2>2. PrintfArgument(d, a) = a BY <1>1, <1>11 DEF PrintfArgument
  <2> QED BY <2>1, <2>2, PassFollows
<1> QED BY <1>4, <1>5, <1>6, <1>7, <1>8, <1>9, <1>10, <1>11, Lens

LEMMA ScanfFollows ==
  ASSUME abi \in {32, 64}, NEW d \in Directive, d.conv # "[?", d.len # "L", NEW a
  PROVE  Follows(a, ScanfArgument(d, a), ScanfTakes(d))
<1>1. Conversion(d) = d.conv /\ d.suppress \in BOOLEAN BY Lens
<1>2. CASE d.suppress \/ d.conv = "%"
  <2>1. ScanfTakes(d) = <<>> BY <1>1, <1>2 DEF ScanfTakes
  <2>2. ScanfArgument(d, a) = a BY <1>1, <1>2 DEF ScanfArgument
  <2> QED BY <2>1, <2>2, PassFollows
<1>3. CASE ~d.suppress /\ d.conv \in {"d", "u", "n"}
  <2>0. ScanfTakes(d) = Object(IF d.len = "h" THEN "short" ELSE IntType(d.len)) BY <1>3 DEF ScanfTakes
  <2>1. CASE d.len \in Plain \cup Twice
    <3>1. ScanfTakes(d) = <<Want(Word, "ls", TRUE)>>
      <4>1. (IF d.len = "h" THEN "short" ELSE IntType(d.len)) \in {"short", "int", "long long", "intmax_t"}
        BY <2>1, Longs
      <4> QED BY <2>0, <4>1, Values
    <3>3. format_long(d) \in {0, 2} BY <2>1, Longs
    <3>2. ScanfArgument(d, a) = PassPointer(a) BY <1>1, <1>3, <2>1, <3>3 DEF ScanfArgument
    <3> QED BY <3>1, <3>2, PassFollows
  <2>2. CASE d.len \in Long
    <3>1. ScanfTakes(d) = <<Want(Word, IF abi = 64 THEN "temp" ELSE "ls", TRUE)>>
      <4>1. (IF d.len = "h" THEN "short" ELSE IntType(d.len)) \in {"long", "size_t"} BY <2>2, Longs DEF Long
      <4> QED BY <2>0, <4>1, Values
    <3>3. format_long(d) = 1 BY <2>2, Longs
    <3>2. ScanfArgument(d, a) = IF abi = 64 THEN PassTemp(a) ELSE PassPointer(a)
      BY <1>1, <1>3, <2>2, <3>3 DEF ScanfArgument
    <3>4. Follows(a, IF abi = 64 THEN PassTemp(a) ELSE PassPointer(a),
                  <<Want(Word, IF abi = 64 THEN "temp" ELSE "ls", TRUE)>>)
      BY LongFollows
    <3> QED BY <3>1, <3>2, <3>4
  <2> QED BY <1>3, <2>1, <2>2, Lens DEF Plain, Twice, Long
<1>4. CASE ~d.suppress /\ d.conv = "f"
  <2>1. ScanfTakes(d) = <<Want(Word, "ls", TRUE)>>
    <3>1. ScanfTakes(d) = Object(FloatType(d.len)) BY <1>4 DEF ScanfTakes
    <3>2. FloatType(d.len) \in {"float", "double"} BY <1>4, Lens DEF FloatType
    <3> QED BY <3>1, <3>2, Values
  <2>2. ScanfArgument(d, a) = PassPointer(a) BY <1>1, <1>4 DEF ScanfArgument
  <2> QED BY <2>1, <2>2, PassFollows
<1>5. CASE ~d.suppress /\ d.conv = "p"
  <2>1. ScanfTakes(d) = <<Want(Word, IF abi = 64 THEN "temp" ELSE "ls", TRUE)>> BY <1>5, Values DEF ScanfTakes
  <2>2. ScanfArgument(d, a) = IF abi = 64 THEN PassTemp(a) ELSE PassPointer(a) BY <1>1, <1>5 DEF ScanfArgument
  <2>3. Follows(a, IF abi = 64 THEN PassTemp(a) ELSE PassPointer(a),
                <<Want(Word, IF abi = 64 THEN "temp" ELSE "ls", TRUE)>>)
    BY LongFollows
  <2> QED BY <2>1, <2>2, <2>3
<1>6. CASE ~d.suppress /\ d.conv \in {"c", "s", "["}
  <2>1. ScanfTakes(d) = <<Want(Word, "ls", TRUE)>> BY <1>6, Values DEF ScanfTakes
  <2>2. ScanfArgument(d, a) = PassPointer(a) BY <1>1, <1>6 DEF ScanfArgument
  <2> QED BY <2>1, <2>2, PassFollows
<1> QED BY <1>1, <1>2, <1>3, <1>4, <1>5, <1>6, Lens

-----------------------------------------------------------------------------
(* The format *)

\* A directive of this call.
Here(d) == d \in Directive /\ (op = "printf" => d.conv \notin {"[", "[?"})

\* What the parser does with one.
Parse(d, a) ==
  IF op = "printf" THEN PrintfArgument(d, SKIP_PRECISION(d, SKIP_FIELD_WIDTH(d, a)))
                   ELSE ScanfArgument(d, a)

LEMMA FollowThree ==
  ASSUME NEW a, NEW b, NEW c, NEW e, NEW x, NEW y, NEW z, Follows(a, b, x), Follows(b, c, y), Follows(c, e, z)
  PROVE  /\ (x \o y) \o z \in Seq(Wants) /\ Len((x \o y) \o z) <= 3
         /\ \A s : Tracks(a, s) /\ Len(s) + 2 < MaxArgs => Tracks(e, s \o ((x \o y) \o z))
<1>5. /\ x \in Seq(Wants) /\ y \in Seq(Wants) /\ z \in Seq(Wants)
      /\ Len(x) \in Nat /\ Len(y) \in Nat /\ Len(z) \in Nat
      /\ Len(x) <= 1 /\ Len(y) <= 1 /\ Len(z) <= 1
  BY DEF Follows
<1>6. x \o y \in Seq(Wants) /\ Len(x \o y) = Len(x) + Len(y) BY <1>5, ConcatProperties
<1>7. (x \o y) \o z \in Seq(Wants) /\ Len((x \o y) \o z) = Len(x \o y) + Len(z) BY <1>5, <1>6, ConcatProperties
<1>8. ASSUME NEW s, Tracks(a, s), Len(s) + 2 < MaxArgs
      PROVE  Tracks(e, s \o ((x \o y) \o z))
  <2>1. s \in Seq(Wants) /\ Len(s) \in Nat BY <1>8 DEF Tracks, Taken
  <2>2. s \o x \in Seq(Wants) /\ Len(s \o x) = Len(s) + Len(x) BY <1>5, <2>1, ConcatProperties
  <2>3. (s \o x) \o y \in Seq(Wants) /\ Len((s \o x) \o y) = Len(s \o x) + Len(y)
    BY <1>5, <2>2, ConcatProperties
  <2>4. Tracks(b, s \o x)
    <3>1. Len(s) < MaxArgs BY <1>8, <2>1, MaxIs
    <3> QED BY <1>8, <3>1 DEF Follows
  <2>5. Tracks(c, (s \o x) \o y)
    <3>1. Len(s \o x) < MaxArgs BY <1>5, <1>8, <2>1, <2>2, MaxIs
    <3> QED BY <2>4, <3>1 DEF Follows
  <2>6. Tracks(e, ((s \o x) \o y) \o z)
    <3>1. Len((s \o x) \o y) < MaxArgs BY <1>5, <1>8, <2>1, <2>2, <2>3, MaxIs
    <3> QED BY <2>5, <3>1 DEF Follows
  <2>7. ((s \o x) \o y) \o z = s \o ((x \o y) \o z)
    <3>1. s \in Seq(Wants) /\ x \in Seq(Wants) /\ y \in Seq(Wants) /\ z \in Seq(Wants) BY <1>5, <2>1
    <3>2. \A p, q, r \in Seq(Wants) : (p \o q) \o r = p \o (q \o r) BY ConcatAssociative
    <3>3. (s \o x) \o y = s \o (x \o y) BY <3>1, <3>2, Zenon
    <3>4. x \o y \in Seq(Wants) BY <1>6
    <3>5. (s \o (x \o y)) \o z = s \o ((x \o y) \o z) BY <3>1, <3>2, <3>4, Zenon
    <3> QED BY <3>3, <3>5
  <2> QED BY <2>6, <2>7
<1>9. Len((x \o y) \o z) <= 3 BY <1>5, <1>6, <1>7
<1> QED BY <1>7, <1>8, <1>9

LEMMA ThreeFollow ==
  ASSUME abi \in {32, 64}, NEW d \in Directive, d.conv \notin {"[", "[?"}, d.len # "L", NEW a
  PROVE  /\ PrintfTakes(d) \in Seq(Wants) /\ Len(PrintfTakes(d)) <= 3
         /\ \A s : Tracks(a, s) /\ Len(s) + 2 < MaxArgs =>
              Tracks(PrintfArgument(d, SKIP_PRECISION(d, SKIP_FIELD_WIDTH(d, a))), s \o PrintfTakes(d))
<1> DEFINE b == SKIP_FIELD_WIDTH(d, a)
           c == SKIP_PRECISION(d, b)
           e == PrintfArgument(d, c)
           x == Star(d.width)
           y == Star(d.prec)
           z == PrintfConverts(d)
<1>1. Follows(a, b, x) BY Stars
<1>2. Follows(b, c, y) BY Stars
<1>3. Follows(c, e, z) BY PrintfFollows
<1>4. PrintfTakes(d) = (x \o y) \o z BY DEF PrintfTakes
<1> HIDE DEF b, c, e, x, y, z
<1>5. /\ (x \o y) \o z \in Seq(Wants) /\ Len((x \o y) \o z) <= 3
      /\ \A s : Tracks(a, s) /\ Len(s) + 2 < MaxArgs => Tracks(e, s \o ((x \o y) \o z))
  BY <1>1, <1>2, <1>3, FollowThree
<1> QED BY <1>4, <1>5 DEF b, c, e

LEMMA DirectiveFollows ==
  ASSUME abi \in {32, 64}, op \in {"printf", "scanf"}, NEW d, Here(d), d.len # "L", NEW a
  PROVE  /\ TakesOf(d) \in Seq(Wants) /\ Len(TakesOf(d)) <= 3
         /\ \A s : Tracks(a, s) /\ Len(s) + 2 < MaxArgs /\ Conversion(d) # "[?" => Tracks(Parse(d, a), s \o TakesOf(d))
<1>1. CASE op = "printf" BY <1>1, ThreeFollow DEF Here, TakesOf, Parse
<1>2. CASE op = "scanf" /\ d.conv # "[?"
  <2>1. Follows(a, ScanfArgument(d, a), ScanfTakes(d)) BY <1>2, ScanfFollows DEF Here
  <2>2. TakesOf(d) = ScanfTakes(d) /\ Parse(d, a) = ScanfArgument(d, a) BY <1>2 DEF TakesOf, Parse
  <2>3. Len(TakesOf(d)) \in Nat /\ Len(TakesOf(d)) <= 1 /\ TakesOf(d) \in Seq(Wants) BY <2>1, <2>2 DEF Follows
  <2>4. ASSUME NEW s, Tracks(a, s), Len(s) + 2 < MaxArgs PROVE Tracks(Parse(d, a), s \o TakesOf(d))
    <3>1. Len(s) \in Nat BY <2>4 DEF Tracks, Taken
    <3>2. Len(s) < MaxArgs BY <2>4, <3>1, MaxIs
    <3> QED BY <2>1, <2>2, <2>4, <3>2 DEF Follows
  <2>5. Len(TakesOf(d)) <= 3 BY <2>3
  <2> QED BY <2>3, <2>4, <2>5
<1>3. CASE op = "scanf" /\ d.conv = "[?"
  <2>1. TakesOf(d) = <<>> BY <1>3, Lens DEF TakesOf, ScanfTakes, Here
  <2>2. Conversion(d) = "[?" BY <1>3, Lens DEF Here
  <2> QED BY <2>1, <2>2
<1> QED BY <1>1, <1>2, <1>3

\* The format of a call.
FormatOK ==
  /\ abi \in {32, 64} /\ op \in {"printf", "scanf"}
  /\ format \in Seq(Directive) /\ Len(format) \in 0 .. MaxLength
  /\ \A i \in 1 .. Len(format) : Here(format[i])

LEMMA TakesStep ==
  ASSUME FormatOK
  PROVE  /\ TakesTo[0] = <<>>
         /\ \A i \in 1 .. Len(format) : TakesTo[i] = TakesTo[i - 1] \o TakesOf(format[i])
<1>1. Len(format) \in Nat BY DEF FormatOK
<1> DEFINE f == TakesTo
<1>2. f = [i \in 0 .. Len(format) |-> IF i = 0 THEN <<>> ELSE f[i - 1] \o TakesOf(format[i])]
  BY TakesToIs DEF FormatOK
<1> HIDE DEF f
<1>3. f[0] = <<>> BY <1>1, <1>2
<1>4. ASSUME NEW i \in 1 .. Len(format) PROVE f[i] = f[i - 1] \o TakesOf(format[i])
  <2>1. i \in 0 .. Len(format) /\ i # 0 BY <1>1
  <2> QED BY <1>2, <2>1
<1> QED BY <1>3, <1>4 DEF f

\* Three arguments a directive at most.
LEMMA TakesLength ==
  ASSUME FormatOK, ~LongDoubles
  PROVE  \A i \in 0 .. Len(format) : TakesTo[i] \in Seq(Wants) /\ Len(TakesTo[i]) <= 3 * i
<1> DEFINE Good(i) == TakesTo[i] \in Seq(Wants) /\ Len(TakesTo[i]) <= 3 * i
           T == {n \in Nat : n <= Len(format) => Good(n)}
<1>1. Len(format) \in Nat /\ abi \in {32, 64} /\ op \in {"printf", "scanf"} BY DEF FormatOK
<1>2. 0 \in T
  <2>1. TakesTo[0] = <<>> BY TakesStep
  <2>2. Len(<<>>) <= 3 * 0 /\ <<>> \in Seq(Wants) OBVIOUS
  <2>3. Good(0) BY <2>1, <2>2
  <2> HIDE DEF Good
  <2> QED BY <2>3
<1>3. ASSUME NEW n \in T PROVE n + 1 \in T
  <2>1. CASE n + 1 > Len(format) BY <1>1, <2>1
  <2>2. CASE n + 1 <= Len(format)
    <3>1. n \in Nat /\ Good(n) BY <1>1, <2>2
    <3>2. n + 1 \in 1 .. Len(format) /\ (n + 1) - 1 = n BY <1>1, <2>2, <3>1
    <3>3. Here(format[n + 1]) /\ format[n + 1].len # "L" BY <3>2 DEF FormatOK, LongDoubles
    <3>4. TakesOf(format[n + 1]) \in Seq(Wants) /\ Len(TakesOf(format[n + 1])) <= 3
      BY <1>1, <3>3, DirectiveFollows
    <3>5. TakesTo[n + 1] = TakesTo[n] \o TakesOf(format[n + 1]) BY <3>2, TakesStep
    <3> DEFINE u == TakesTo[n]
               v == TakesOf(format[n + 1])
               w == TakesTo[n + 1]
    <3> HIDE DEF u, v, w
    <3>6. u \in Seq(Wants) /\ Len(u) \in Nat /\ Len(u) <= 3 * n BY <3>1 DEF u
    <3>7. v \in Seq(Wants) /\ Len(v) \in Nat /\ Len(v) <= 3 BY <3>4 DEF v
    <3>8. w \in Seq(Wants) /\ Len(w) = Len(u) + Len(v) BY <3>5, <3>6, <3>7, ConcatProperties DEF u, v, w
    <3>9. Len(w) <= 3 * (n + 1) BY <3>1, <3>6, <3>7, <3>8
    <3> QED BY <3>1, <3>8, <3>9 DEF w
  <2> QED BY <1>1, <2>1, <2>2
<1>4. T = Nat
  <2> HIDE DEF Good
  <2>1. T \in SUBSET Nat OBVIOUS
  <2> QED BY <1>2, <1>3, <2>1, SetInduction
<1> QED BY <1>1, <1>4

-----------------------------------------------------------------------------
(* The list grows by three entries a directive at most *)

Unused(a) == \A i \in 1 .. Len(a.vtemps) : a.vtemps[i].llval = "garbage"

Grows(a, b, n) ==
  /\ Within(b) /\ Len(b.vlist) <= Len(a.vlist) + n
  /\ Unused(a) => Unused(b)

LEMMA PassGrows ==
  ASSUME abi \in {32, 64}, NEW a, Within(a)
  PROVE  /\ \A size \in {4, 8}, as \in How : Grows(a, Pass(a, size, as), 1)
         /\ Grows(a, PassTemp(a), 1)
         /\ Grows(a, a, 0) /\ Grows(a, a, 1)
<1>1. Len(a.vlist) \in Nat /\ a.vtemps \in Seq(Temps) BY DEF Within, Lists
<1>2. ASSUME NEW size \in {4, 8}, NEW as \in How PROVE Grows(a, Pass(a, size, as), 1)
  <2> DEFINE b == Pass(a, size, as)
  <2>1. Within(b) /\ Len(b.vlist) = Len(a.vlist) + 1 /\ b.vtemps = a.vtemps BY PassWithin
  <2> HIDE DEF b
  <2>2. Len(b.vlist) <= Len(a.vlist) + 1 BY <1>1, <2>1
  <2> QED BY <2>1, <2>2 DEF Grows, Unused, b
<1>3. Grows(a, PassTemp(a), 1)
  <2> DEFINE b == PassTemp(a)
             u == [ptr |-> ArgAt(a.next_arg), llval |-> "garbage"]
  <2>1. Within(b) /\ Len(b.vlist) = Len(a.vlist) + 1 /\ b.vtemps = Append(a.vtemps, u) BY PassTempWithin
  <2>2. u \in Temps /\ u.llval = "garbage" BY ArgAtIs DEF Temps
  <2> HIDE DEF b, u
  <2>3. Len(b.vlist) <= Len(a.vlist) + 1 BY <1>1, <2>1
  <2>4. ASSUME Unused(a), NEW i \in 1 .. Len(b.vtemps) PROVE b.vtemps[i].llval = "garbage"
    <3>1. CASE i = Len(a.vtemps) + 1 BY <1>1, <2>1, <2>2, <3>1
    <3>2. CASE i # Len(a.vtemps) + 1
      <4>1. i \in 1 .. Len(a.vtemps) BY <1>1, <2>1, <2>2, <3>2
      <4>2. b.vtemps[i] = a.vtemps[i] BY <1>1, <2>1, <2>2, <4>1
      <4> QED BY <2>4, <4>1, <4>2 DEF Unused
    <3> QED BY <3>1, <3>2
  <2> QED BY <2>1, <2>3, <2>4 DEF Grows, Unused, b
<1>4. Grows(a, a, 0) /\ Grows(a, a, 1) BY <1>1 DEF Grows
<1> QED BY <1>2, <1>3, <1>4

LEMMA GrowsOn ==
  ASSUME NEW a, NEW b, NEW c, NEW m \in Nat, NEW n \in Nat, Within(a), Grows(a, b, m), Grows(b, c, n)
  PROVE  Grows(a, c, m + n)
<1> DEFINE x == Len(a.vlist)
           y == Len(b.vlist)
           z == Len(c.vlist)
<1>1. x \in Nat /\ y \in Nat /\ z \in Nat BY DEF Grows, Within, Lists
<1>2. z <= y + n /\ y <= x + m BY DEF Grows
<1> HIDE DEF x, y, z
<1>3. z <= x + (m + n) BY <1>1, <1>2
<1> QED BY <1>3 DEF Grows, x, z

LEMMA ArgumentGrows ==
  ASSUME abi \in {32, 64}, NEW d, NEW a, Within(a)
  PROVE  /\ Grows(a, PrintfArgument(d, a), 1) /\ Grows(a, ScanfArgument(d, a), 1)
         /\ Grows(a, SKIP_FIELD_WIDTH(d, a), 1) /\ Grows(a, SKIP_PRECISION(d, a), 1)
<1>1. PrintfArgument(d, a) \in {Pass(a, 8, "same"), Pass(a, 8, "sign"), Pass(a, 8, "zero"), Pass(a, 4, "same"),
                                Pass(a, Word, Widened("zero")), PassPointer(a), PassTemp(a), a}
  BY DEF PrintfArgument
<1>2. ScanfArgument(d, a) \in {PassPointer(a), PassTemp(a), a}
  BY DEF ScanfArgument
<1>3. Word \in {4, 8} /\ Widened("zero") \in How /\ {"same", "sign", "zero", "ls"} \subseteq How
  BY DEF Word, Widened, How
<1>4. \A size \in {4, 8}, as \in How : Grows(a, Pass(a, size, as), 1) BY PassGrows
<1>5. Grows(a, Pass(a, Word, Widened("zero")), 1) /\ Grows(a, PassPointer(a), 1)
  BY <1>3, <1>4 DEF PassPointer
<1>6. Grows(a, PrintfArgument(d, a), 1) /\ Grows(a, ScanfArgument(d, a), 1)
  BY <1>1, <1>2, <1>3, <1>4, <1>5, PassGrows
<1>7. Grows(a, SKIP_FIELD_WIDTH(d, a), 1) /\ Grows(a, SKIP_PRECISION(d, a), 1)
  BY <1>3, <1>4, PassGrows DEF SKIP_FIELD_WIDTH, SKIP_PRECISION
<1> QED BY <1>6, <1>7

LEMMA ParseGrows ==
  ASSUME abi \in {32, 64}, NEW d, NEW a, Within(a)
  PROVE  Grows(a, Parse(d, a), 3)
<1>1. CASE op = "printf"
  <2> DEFINE b == SKIP_FIELD_WIDTH(d, a)
             c == SKIP_PRECISION(d, b)
             e == PrintfArgument(d, c)
  <2>1. Grows(a, b, 1) BY ArgumentGrows
  <2> HIDE DEF b
  <2>2. Grows(b, c, 1) BY <2>1, ArgumentGrows DEF Grows
  <2> HIDE DEF c
  <2>3. Grows(c, e, 1) BY <2>2, ArgumentGrows DEF Grows
  <2> HIDE DEF e
  <2>4. Grows(a, c, 1 + 1) BY <2>1, <2>2, GrowsOn
  <2>5. Grows(a, e, (1 + 1) + 1) BY <2>3, <2>4, GrowsOn
  <2>6. (1 + 1) + 1 = 3 OBVIOUS
  <2> QED BY <1>1, <2>5, <2>6 DEF Parse, b, c, e
<1>2. CASE op # "printf"
  <2>1. Grows(a, ScanfArgument(d, a), 1) BY ArgumentGrows
  <2>2. Len(ScanfArgument(d, a).vlist) \in Nat /\ Len(a.vlist) \in Nat BY <2>1 DEF Grows, Within, Lists
  <2>3. Len(ScanfArgument(d, a).vlist) <= Len(a.vlist) + 3 BY <2>1, <2>2 DEF Grows
  <2> QED BY <1>2, <2>1, <2>3 DEF Parse, Grows
<1> QED BY <1>1, <1>2

-----------------------------------------------------------------------------
(* The invariant *)

\* What an object that the library stores to has after it stored through the
\* arguments up to `stored', in the object itself or in its temporary.
Between ==
  \A k \in Objects :
    /\ Takes[k].as = "ls" => object[k] = IF k <= stored THEN "new" ELSE "old"
    /\ Takes[k].as = "temp" /\ k <= stored => args.vtemps[args.vlist[k].temp].llval = "new"

FormatIInv ==
  /\ FormatTypeOK /\ FormatOK
  /\ Within(args) /\ Len(args.vlist) <= 3 * pos
  /\ phase = "count" => pos = 0
  /\ phase # "count" => allocated = nr_format_args /\ nr_vargs = allocated - pos
  /\ phase \in {"count", "parse", "call"} =>
       stored = 0 /\ (\A k \in 1 .. MaxArgs : object[k] = "old") /\ Unused(args)
  /\ phase \in {"call", "copy"} => pos = Len(format)
  /\ ~LongDoubles => Tracks(args, TakesTo[pos])
  /\ phase = "copy" /\ ~LongDoubles => Between
  /\ ResultsStored

\* A call of which nothing changes but the handler.
LEMMA Primes ==
  ASSUME UNCHANGED call
  PROVE  /\ (\A a, s : Tracks(a, s)' <=> Tracks(a, s))
         /\ FormatOK' <=> FormatOK
         /\ LongDoubles' <=> LongDoubles
         /\ nr_format_args' = nr_format_args
         /\ TakesTo' = TakesTo /\ Takes' = Takes /\ Objects' = Objects
         /\ abi' = abi /\ op' = op /\ format' = format
<1>1. abi' = abi /\ op' = op /\ format' = format BY DEF call
<1>2. TakesTo' = TakesTo /\ Takes' = Takes BY TakesUnchanged
<1>3. Objects' = Objects BY <1>2 DEF Objects
<1>4. nr_format_args' = nr_format_args BY <1>1 DEF nr_format_args, Percents
<1>5. LongDoubles' <=> LongDoubles BY <1>1 DEF LongDoubles
<1>6. FormatOK' <=> FormatOK BY <1>1 DEF FormatOK, Here
<1>7. \A a, s : Tracks(a, s)' <=> Tracks(a, s)
  BY <1>1 DEF Tracks, Taken, Matches, Place
<1> QED BY <1>1, <1>2, <1>3, <1>4, <1>5, <1>6, <1>7

\* Three entries for each directive.
LEMMA CountIs ==
  ASSUME FormatOK
  PROVE  nr_format_args \in Nat /\ nr_format_args >= 3 * Len(format) /\ Len(format) \in Nat
<1> DEFINE T == {i \in DOMAIN format : format[i].conv = "%"}
<1>1. Len(format) \in Nat /\ DOMAIN format = 1 .. Len(format) BY DEF FormatOK
<1>2. IsFiniteSet(1 .. Len(format)) BY <1>1, FS_Interval
<1>3. IsFiniteSet(T) BY <1>1, <1>2, FS_Subset
<1>4. Cardinality(T) \in Nat BY <1>3, FS_CardinalityType
<1> HIDE DEF T
<1>5. nr_format_args = 3 * (Len(format) + Cardinality(T)) BY DEF nr_format_args, Percents, T
<1> QED BY <1>1, <1>4, <1>5

LEMMA FormatsAre ==
  ASSUME NEW directives \in SUBSET Directive, NEW f \in FormatsOf(directives)
  PROVE  f \in Seq(Directive) /\ Len(f) \in 0 .. MaxLength /\ \A i \in 1 .. Len(f) : f[i] \in directives
<1>1. PICK n \in 0 .. MaxLength : f \in [1 .. n -> directives] BY DEF FormatsOf
<1>2. n \in Nat BY FormatAssumption
<1>3. f \in Seq(directives) /\ Len(f) = n BY <1>1, <1>2
<1> QED BY <1>1, <1>2, <1>3

\* Before the first directive.
LEMMA AtStart ==
  ASSUME abi \in Abis, op \in {"printf", "scanf"}, format = <<>> \/
           format \in FormatsOf(IF op = "printf" THEN PrintfDirectives ELSE ScanfDirectives),
         phase = "count" \/ (phase = "done" /\ format = <<>>),
         stored = 0, pos = 0, nr_vargs = 0, allocated = 0,
         args = [next_arg |-> 0, vlist |-> <<>>, vtemps |-> <<>>],
         object = [k \in 1 .. MaxArgs |-> "old"]
  PROVE  FormatIInv
<1>1. abi \in {32, 64} BY AbiAssumption
<1>2. FormatOK
  <2>1. CASE format = <<>> BY <1>1, <2>1, FormatAssumption DEF FormatOK
  <2>2. CASE op = "printf" /\ format \in FormatsOf(PrintfDirectives)
    <3>1. PrintfDirectives \subseteq Directive /\ \A d \in PrintfDirectives : d.conv \notin {"[", "[?"}
      BY DirectiveAssumption
    <3> QED BY <1>1, <2>2, <3>1, FormatsAre DEF FormatOK, Here
  <2>3. CASE op = "scanf" /\ format \in FormatsOf(ScanfDirectives)
    <3>1. ScanfDirectives \subseteq Directive BY DirectiveAssumption
    <3> QED BY <1>1, <2>3, <3>1, FormatsAre DEF FormatOK, Here
  <2> QED BY <2>1, <2>2, <2>3
<1>3. Len(format) \in Nat /\ MaxArgs \in Nat BY <1>2, CountIs, MaxIs
<1>4. FormatTypeOK BY <1>3 DEF FormatTypeOK
<1>5. Within(args) /\ Len(args.vlist) = 0 /\ Unused(args) BY DEF Within, Lists, End, Unused
<1>6. Tracks(args, <<>>)
  <2>1. args.next_arg = ArgAddress(Len(<<>>) + 1) BY FormatAssumption DEF ArgAddress
  <2> QED BY <1>5, <2>1 DEF Tracks, Taken, Matches, OwnTemps
<1>7. TakesTo[pos] = <<>> BY <1>2, TakesStep
<1>8. phase # "count" => allocated = nr_format_args
  <2>1. CASE format = <<>>
    <3>1. {i \in DOMAIN format : format[i].conv = "%"} = {} BY <2>1
    <3>2. Len(format) = 0 BY <2>1
    <3> QED BY <3>1, <3>2, FS_EmptySet DEF nr_format_args, Percents
  <2> QED BY <2>1
<1>9. ResultsStored
  <2>1. CASE phase = "done"
    <3>1. Takes = <<>> BY <1>2, <2>1, TakesStep DEF Takes
    <3> QED BY <3>1 DEF ResultsStored, Objects
  <2> QED BY <2>1 DEF ResultsStored
<1>10. Len(args.vlist) <= 3 * pos BY <1>5
<1> QED BY <1>2, <1>4, <1>5, <1>6, <1>7, <1>8, <1>9, <1>10 DEF FormatIInv

-----------------------------------------------------------------------------
(* Steps of the handler *)

LEMMA CountStep ==
  ASSUME FormatIInv, CountArgs
  PROVE  FormatIInv'
<1>1. UNCHANGED call /\ phase = "count" /\ phase' = "parse" /\ nr_vargs' = nr_format_args /\ allocated' = nr_format_args
      /\ UNCHANGED <<stored, pos, args, object>>
  BY DEF CountArgs
<1>2. FormatOK /\ nr_format_args \in Nat BY CountIs DEF FormatIInv
<1>3. pos = 0 /\ nr_format_args = nr_format_args - pos BY <1>1, <1>2 DEF FormatIInv
<1>4. FormatTypeOK' BY <1>1, <1>2 DEF FormatIInv, FormatTypeOK, call, MaxArgs
<1>5. Tracks(args, TakesTo[pos])' <=> Tracks(args, TakesTo[pos]) BY <1>1, Primes
<1>6. ResultsStored' BY <1>1 DEF ResultsStored
<1>7. nr_format_args' = nr_format_args /\ FormatOK' /\ (LongDoubles' <=> LongDoubles) BY <1>1, <1>2, Primes
<1> QED BY <1>1, <1>2, <1>3, <1>4, <1>5, <1>6, <1>7 DEF FormatIInv, Unused

LEMMA ParseStep ==
  ASSUME FormatIInv, ParsePrintf \/ ParseScanf
  PROVE  FormatIInv'
<1> DEFINE b == Parse(d0, args)
<1>1. /\ phase = "parse" /\ nr_vargs > 0 /\ pos < Len(format)
      /\ pos' = pos + 1 /\ nr_vargs' = nr_vargs - 1
      /\ UNCHANGED <<call, phase, stored, allocated, object>>
  BY DEF ParsePrintf, ParseScanf, Parsing, Parsed
<1>2. Conversion(d0) # "[?" \/ op = "printf"
  BY DEF ParsePrintf, ParseScanf, Parsed, Parse
<1>3. args' = b /\ op \in {"printf", "scanf"}
  BY DEF ParsePrintf, ParseScanf, Parsed, Parse
<1>4. abi \in {32, 64} /\ FormatOK /\ Len(format) \in Nat /\ Len(format) <= MaxLength /\ MaxLength \in Nat
  BY CountIs, FormatAssumption DEF FormatIInv, FormatOK
<1>5. pos \in Nat /\ nr_vargs \in Nat /\ pos + 1 \in 1 .. Len(format) BY <1>1, <1>4 DEF FormatIInv, FormatTypeOK
<1>6. Within(args) /\ Len(args.vlist) <= 3 * pos BY DEF FormatIInv
<1>7. Grows(args, b, 3) BY <1>4, <1>6, ParseGrows
<1>8. Here(d0) BY <1>4, <1>5 DEF FormatOK, d0
<1>9. ~LongDoubles => Tracks(b, TakesTo[pos + 1])
  <2>1. SUFFICES ASSUME ~LongDoubles PROVE Tracks(b, TakesTo[pos + 1]) OBVIOUS
  <2> DEFINE s == TakesTo[pos]
  <2>2. d0.len # "L" BY <1>5, <2>1, <1>4 DEF LongDoubles, d0, FormatOK
  <2>3. Conversion(d0) # "[?" BY <1>2, <1>8, <2>2, Lens DEF Here
  <2>4. Tracks(args, s) BY <2>1 DEF FormatIInv
  <2>5. TakesTo[pos + 1] = s \o TakesOf(d0)
    <3>1. (pos + 1) - 1 = pos BY <1>5
    <3> QED BY <1>4, <1>5, <3>1, TakesStep DEF d0
  <2>6. Len(s) + 2 < MaxArgs
    <3>1. pos \in 0 .. Len(format) BY <1>4, <1>5
    <3>2. s \in Seq(Wants) /\ Len(s) <= 3 * pos BY <1>4, <2>1, <3>1, TakesLength
    <3>3. Len(s) \in Nat BY <3>2
    <3> HIDE DEF s
    <3> QED BY <1>4, <1>5, <3>2, <3>3 DEF MaxArgs
  <2>7. Tracks(Parse(d0, args), s \o TakesOf(d0))
    <3> HIDE DEF s
    <3> QED BY <1>3, <1>4, <1>8, <2>2, <2>3, <2>4, <2>6, DirectiveFollows
  <2> QED BY <2>5, <2>7
<1> HIDE DEF b
<1>10. Within(args)' /\ Len(args'.vlist) <= 3 * pos'
  <2>1. Within(b) /\ Len(b.vlist) <= Len(args.vlist) + 3 BY <1>7 DEF Grows
  <2>2. Len(b.vlist) \in Nat /\ Len(args.vlist) \in Nat BY <1>6, <2>1 DEF Within, Lists
  <2>3. Len(b.vlist) <= 3 * (pos + 1) BY <1>5, <1>6, <2>1, <2>2
  <2>4. Within(args') BY <1>3, <2>1
  <2>5. Within(args)' BY <2>4 DEF Within
  <2> QED BY <1>1, <1>3, <2>3, <2>5
<1>11. Unused(args)' BY <1>1, <1>3, <1>7 DEF FormatIInv, Grows, Unused
<1>12. FormatTypeOK'
  <2>1. args'.next_arg \in Nat BY <1>10 DEF Within, Lists
  <2>2. format' = format /\ abi' = abi /\ op' = op BY <1>1 DEF call
  <2>3. pos' \in 0 .. Len(format') /\ nr_vargs' \in Nat BY <1>1, <1>4, <1>5, <2>2
  <2> QED BY <1>1, <2>1, <2>2, <2>3 DEF FormatIInv, FormatTypeOK, MaxArgs
<1>13. (~LongDoubles => Tracks(args, TakesTo[pos]))'
  <2>1. Tracks(args, TakesTo[pos])' <=> Tracks(b, TakesTo[pos + 1]) BY <1>1, <1>3, Primes
  <2>2. LongDoubles' <=> LongDoubles BY <1>1, Primes
  <2> QED BY <1>9, <2>1, <2>2
<1>14. ResultsStored' BY <1>1 DEF ResultsStored
<1>15. (allocated = nr_format_args /\ nr_vargs = allocated - pos)'
  <2>1. nr_format_args' = nr_format_args BY <1>1, Primes
  <2>2. allocated = nr_format_args /\ nr_vargs = allocated - pos /\ allocated \in Nat
    BY <1>1, <1>4, CountIs DEF FormatIInv
  <2> QED BY <1>1, <1>5, <2>1, <2>2
<1>16. FormatOK' BY <1>1, <1>4, Primes
<1>17. (stored = 0 /\ \A k \in 1 .. MaxArgs : object[k] = "old")' BY <1>1 DEF FormatIInv
<1> QED BY <1>1, <1>10, <1>11, <1>12, <1>13, <1>14, <1>15, <1>16, <1>17 DEF FormatIInv

LEMMA ParseFailsStep ==
  ASSUME FormatIInv, ParseFails
  PROVE  FormatIInv'
<1>1. /\ phase = "parse" /\ phase' = "done"
      /\ UNCHANGED <<call, stored, pos, nr_vargs, allocated, args, object>>
  BY DEF ParseFails, Parsing
<1>2. FormatOK /\ stored = 0 /\ \A k \in 1 .. MaxArgs : object[k] = "old" BY <1>1 DEF FormatIInv
<1>3. FormatTypeOK' BY <1>1 DEF FormatIInv, FormatTypeOK, call, MaxArgs
<1>4. ResultsStored'
  <2>1. SUFFICES ASSUME ~LongDoubles, NEW k \in Objects PROVE ~ (k <= stored) /\ object[k] = "old"
    <3>1. stored' = stored /\ object' = object /\ Objects' = Objects /\ (LongDoubles' <=> LongDoubles) BY <1>1, Primes
    <3> QED BY <1>2, <3>1 DEF ResultsStored
  <2>2. Len(format) \in Nat /\ Len(format) <= MaxLength /\ Len(format) \in 0 .. Len(format) BY <1>2, CountIs DEF FormatOK
  <2>3. Takes \in Seq(Wants) /\ Len(Takes) <= 3 * Len(format) BY <1>2, <2>1, <2>2, TakesLength DEF Takes
  <2>4. k \in 1 .. Len(Takes) BY <2>3 DEF Objects
  <2>5. Len(Takes) \in Nat BY <2>3
  <2>6. k \in 1 .. MaxArgs BY <2>2, <2>3, <2>4, <2>5, FormatAssumption DEF MaxArgs
  <2> QED BY <1>2, <2>4, <2>6
<1> QED BY <1>1, <1>2, <1>3, <1>4, Primes DEF FormatIInv

LEMMA ParseEndStep ==
  ASSUME FormatIInv, ParseEnd
  PROVE  FormatIInv'
<1>1. /\ phase = "parse" /\ phase' = "call" /\ ~Parsing
      /\ UNCHANGED <<call, stored, pos, nr_vargs, allocated, args, object>>
  BY DEF ParseEnd
<1>2. pos = Len(format)
  <2>1. FormatOK /\ nr_vargs = nr_format_args - pos BY <1>1 DEF FormatIInv
  <2>2. pos \in 0 .. Len(format) BY DEF FormatIInv, FormatTypeOK
  <2>3. nr_format_args \in Nat /\ nr_format_args >= 3 * Len(format) /\ Len(format) \in Nat BY <2>1, CountIs
  <2>4. CASE pos < Len(format)
    <3>1. nr_vargs > 0 BY <2>1, <2>2, <2>3, <2>4
    <3> QED BY <1>1, <2>4, <3>1 DEF Parsing
  <2> QED BY <2>2, <2>3, <2>4
<1>3. FormatTypeOK' BY <1>1 DEF FormatIInv, FormatTypeOK, call, MaxArgs
<1>4. ResultsStored' BY <1>1 DEF ResultsStored
<1>5. FormatOK' /\ format' = format BY <1>1, Primes DEF FormatIInv
<1>6. nr_format_args' = nr_format_args /\ (LongDoubles' <=> LongDoubles) BY <1>1, Primes
<1>7. Tracks(args, TakesTo[pos])' <=> Tracks(args, TakesTo[pos]) BY <1>1, Primes
<1> QED BY <1>1, <1>2, <1>3, <1>4, <1>5, <1>6, <1>7 DEF FormatIInv, Unused

\* What a list is after the library stored through the entries `through'.
Fill(a, through) ==
  [a EXCEPT !.vtemps = [i \in DOMAIN @ |->
     IF \E e \in through : e.temp = i THEN [@[i] EXCEPT !.llval = "new"] ELSE @[i]]]

LEMMA Filled ==
  ASSUME NEW a, Within(a), NEW through
  PROVE  LET b == Fill(a, through) IN
         /\ Within(b) /\ b.vlist = a.vlist /\ b.next_arg = a.next_arg /\ Len(b.vtemps) = Len(a.vtemps)
         /\ \A i \in 1 .. Len(a.vtemps) : b.vtemps[i].ptr = a.vtemps[i].ptr
                                       /\ ((\E e \in through : e.temp = i) => b.vtemps[i].llval = "new")
         /\ \A s : Tracks(a, s) => Tracks(b, s)
<1> DEFINE b == Fill(a, through)
<1> DEFINE t == [i \in DOMAIN a.vtemps |-> IF \E e \in through : e.temp = i THEN [a.vtemps[i] EXCEPT !.llval = "new"] ELSE a.vtemps[i]]
<1>1. a \in Lists /\ a.vtemps \in Seq(Temps) /\ Len(a.vtemps) \in Nat /\ DOMAIN a.vtemps = 1 .. Len(a.vtemps)
  BY DEF Within, Lists
<1>2. b.vlist = a.vlist /\ b.next_arg = a.next_arg /\ b.vtemps = t
      /\ b = [next_arg |-> a.next_arg, vlist |-> a.vlist, vtemps |-> t]
  <2>1. a = [next_arg |-> a.next_arg, vlist |-> a.vlist, vtemps |-> a.vtemps] BY <1>1 DEF Lists
  <2>2. b = [a EXCEPT !.vtemps = t] BY DEF Fill
  <2> HIDE DEF t, b
  <2> QED BY <2>1, <2>2
<1> HIDE DEF b
<1>3. ASSUME NEW i \in 1 .. Len(a.vtemps)
      PROVE  t[i] \in Temps /\ t[i].ptr = a.vtemps[i].ptr /\ ((\E e \in through : e.temp = i) => t[i].llval = "new")
  <2>1. t[i] = IF \E e \in through : e.temp = i THEN [a.vtemps[i] EXCEPT !.llval = "new"] ELSE a.vtemps[i] BY <1>1
  <2>2. a.vtemps[i] \in Temps BY <1>1
  <2> HIDE DEF t
  <2> QED BY <2>1, <2>2 DEF Temps
<1>4. DOMAIN t = 1 .. Len(a.vtemps) BY <1>1
<1>5. t \in Seq(Temps) /\ Len(t) = Len(a.vtemps)
  <2>1. t = [i \in 1 .. Len(a.vtemps) |-> t[i]] BY <1>1
  <2> HIDE DEF t
  <2>2. t \in [1 .. Len(a.vtemps) -> Temps] BY <1>3, <2>1
  <2> QED BY <1>1, <2>2
<1> HIDE DEF t
<1>6. b \in Lists BY <1>1, <1>2, <1>5 DEF Lists
<1>7. Within(b) BY <1>2, <1>5, <1>6 DEF Within
<1>8. ASSUME NEW s, Tracks(a, s) PROVE Tracks(b, s)
  <2>1. OwnTemps(a.vlist, a.vtemps, s) BY <1>8 DEF Tracks
  <2>2. OwnTemps(b.vlist, b.vtemps, s) BY <1>2, <1>3, <1>5, <2>1 DEF OwnTemps
  <2> QED BY <1>2, <1>7, <1>8, <2>2 DEF Tracks
<1> QED BY <1>2, <1>3, <1>5, <1>7, <1>8 DEF b

\* The k-th entry of the list is that of the k-th argument taken.
LEMMA EntryIs ==
  ASSUME NEW a, NEW s, Tracks(a, s), NEW k \in DOMAIN s
  PROVE  /\ k \in DOMAIN a.vlist /\ DOMAIN a.vlist = 1 .. Len(s) /\ DOMAIN s = 1 .. Len(s) /\ Len(s) \in Nat
         /\ a.vlist[k].arg = k /\ a.vlist[k].as = s[k].as
         /\ s[k].stores => s[k].as \in {"ls", "temp"}
         /\ s[k].as = "temp" => abi = 64
<1>1. s \in Seq(Wants) /\ a.vlist \in Seq(VaEntries) /\ Len(a.vlist) = Len(s) BY DEF Tracks, Taken, Within, Lists, Matches
<1>2. k \in 1 .. Len(s) BY <1>1
<1> QED BY <1>1, <1>2 DEF Tracks, Taken, Matches

\* Objects are arguments.
LEMMA ObjectIs ==
  ASSUME FormatOK, ~LongDoubles, NEW k \in Objects
  PROVE  k \in 1 .. MaxArgs /\ k \in DOMAIN Takes /\ Takes[k].stores /\ k \in Nat /\ k > 0
<1>1. Len(format) \in Nat /\ Len(format) <= MaxLength /\ Len(format) \in 0 .. Len(format) BY CountIs DEF FormatOK
<1>2. Takes \in Seq(Wants) /\ Len(Takes) <= 3 * Len(format) BY <1>1, TakesLength DEF Takes
<1>3. k \in 1 .. Len(Takes) /\ Takes[k].stores BY <1>2 DEF Objects
<1>4. Len(Takes) \in Nat BY <1>2
<1>5. k \in 1 .. MaxArgs BY <1>1, <1>2, <1>3, <1>4, FormatAssumption DEF MaxArgs
<1> QED BY <1>2, <1>3, <1>5 DEF Objects

LEMMA LibraryStep ==
  ASSUME FormatIInv, NEW n \in 0 .. MaxArgs, Library(n)
  PROVE  FormatIInv'
<1> DEFINE through == {args.vlist[k] : k \in {j \in Objects : j <= n} \cap DOMAIN args.vlist}
<1>1. /\ phase = "call" /\ phase' = "copy" /\ stored' = n
      /\ object' = [k \in DOMAIN object |->
                     IF \E e \in through : e.as = "ls" /\ e.arg = k THEN "new" ELSE object[k]]
      /\ args' = [args EXCEPT !.vtemps = [i \in DOMAIN @ |->
                     IF \E e \in through : e.temp = i THEN [@[i] EXCEPT !.llval = "new"] ELSE @[i]]]
      /\ UNCHANGED <<call, pos, nr_vargs, allocated>>
  BY DEF Library
<1>2. FormatOK /\ pos = Len(format) /\ (\A k \in 1 .. MaxArgs : object[k] = "old") /\ DOMAIN object = 1 .. MaxArgs
  BY <1>1 DEF FormatIInv, FormatTypeOK
<1> DEFINE b == args'
<1>3. /\ Within(b) /\ b.vlist = args.vlist /\ b.next_arg = args.next_arg /\ Len(b.vtemps) = Len(args.vtemps)
      /\ \A i \in 1 .. Len(args.vtemps) : b.vtemps[i].ptr = args.vtemps[i].ptr
                                       /\ ((\E e \in through : e.temp = i) => b.vtemps[i].llval = "new")
      /\ \A s : Tracks(args, s) => Tracks(b, s)
  <2>1. Within(args) BY DEF FormatIInv
  <2> HIDE DEF through
  <2>2. b = Fill(args, through) BY <1>1 DEF Fill
  <2> HIDE DEF b
  <2> QED BY <2>1, <2>2, Filled
<1>4. ASSUME ~LongDoubles PROVE Tracks(args, Takes) /\ Tracks(b, Takes)
  BY <1>2, <1>3, <1>4 DEF FormatIInv, Takes
<1>5. ASSUME ~LongDoubles, NEW k \in Objects
      PROVE  /\ Takes[k].as = "ls" => object'[k] = IF k <= n THEN "new" ELSE "old"
             /\ Takes[k].as = "temp" /\ k <= n => b.vtemps[b.vlist[k].temp].llval = "new"
  <2>1. k \in 1 .. MaxArgs /\ k \in DOMAIN Takes BY <1>2, <1>5, ObjectIs
  <2>2. Tracks(args, Takes) BY <1>4, <1>5
  <2>3. k \in DOMAIN args.vlist /\ args.vlist[k].arg = k /\ args.vlist[k].as = Takes[k].as
    BY <2>1, <2>2, EntryIs
  <2>4. object'[k] = IF \E e \in through : e.as = "ls" /\ e.arg = k THEN "new" ELSE "old" BY <1>1, <1>2, <2>1
  <2>5. k <= n => args.vlist[k] \in through BY <2>3
  <2>6. ASSUME NEW e \in through, e.arg = k PROVE k <= n
    <3>1. PICK j \in Objects : j <= n /\ j \in DOMAIN args.vlist /\ e = args.vlist[j] OBVIOUS
    <3>2. args.vlist[j].arg = j BY <1>2, <1>5, <2>2, ObjectIs, EntryIs
    <3> QED BY <2>6, <3>1, <3>2
  <2> HIDE DEF through
  <2>7. ASSUME Takes[k].as = "temp", k <= n PROVE b.vtemps[b.vlist[k].temp].llval = "new"
    <3>1. args.vlist[k].temp \in 1 .. Len(args.vtemps)
      <4>1. k \in 1 .. Len(Takes) BY <2>1, <2>2, EntryIs
      <4> QED BY <2>2, <2>7, <4>1 DEF Tracks, OwnTemps
    <3> QED BY <1>3, <2>5, <2>7, <3>1
  <2>8. ASSUME Takes[k].as = "ls" PROVE object'[k] = IF k <= n THEN "new" ELSE "old"
    BY <2>3, <2>4, <2>5, <2>6, <2>8
  <2> QED BY <2>7, <2>8
<1> HIDE DEF through
<1>6. FormatOK' /\ (LongDoubles' <=> LongDoubles) /\ Takes' = Takes /\ Objects' = Objects
      /\ nr_format_args' = nr_format_args /\ format' = format /\ abi' = abi /\ op' = op
  BY <1>1, <1>2, Primes
<1>7. Between' \/ LongDoubles BY <1>1, <1>5, <1>6 DEF Between
<1>8. (~LongDoubles => Tracks(args, TakesTo[pos]))'
  <2>1. Tracks(args, TakesTo[pos])' <=> Tracks(b, TakesTo[pos]) BY <1>1, Primes
  <2> QED BY <1>2, <1>4, <1>6, <2>1 DEF Takes
<1>9. object' \in [1 .. MaxArgs -> {"old", "new", "garbage"}] BY <1>1, <1>2
<1>10. FormatTypeOK'
  <2>1. b.next_arg \in Nat BY <1>3 DEF Within, Lists
  <2> QED BY <1>1, <1>6, <1>9, <2>1 DEF FormatIInv, FormatTypeOK, MaxArgs
<1>11. ResultsStored' BY <1>1 DEF ResultsStored
<1>12. Within(args)'
  <2>1. Within(args') BY <1>3
  <2> QED BY <2>1 DEF Within
<1> QED BY <1>1, <1>2, <1>3, <1>6, <1>7, <1>8, <1>10, <1>11, <1>12 DEF FormatIInv

LEMMA CopyStep ==
  ASSUME FormatIInv, Copy
  PROVE  FormatIInv'
<1>1. /\ phase = "copy" /\ phase' = "done"
      /\ object' = [k \in DOMAIN object |->
                     IF \E i \in DOMAIN args.vtemps : args.vtemps[i].ptr = k
                       THEN (CHOOSE t \in Range(args.vtemps) : t.ptr = k).llval ELSE object[k]]
      /\ UNCHANGED <<call, stored, pos, nr_vargs, allocated, args>>
  BY DEF Copy
<1>2. FormatOK /\ pos = Len(format) /\ DOMAIN object = 1 .. MaxArgs /\ Within(args) /\ stored \in Nat
  BY <1>1, MaxIs DEF FormatIInv, FormatTypeOK
<1>3. args.vtemps \in Seq(Temps) /\ DOMAIN args.vtemps = 1 .. Len(args.vtemps) BY <1>2 DEF Within, Lists
<1>4. object' \in [1 .. MaxArgs -> {"old", "new", "garbage"}]
  <2>1. SUFFICES ASSUME NEW k \in 1 .. MaxArgs PROVE object'[k] \in {"old", "new", "garbage"} BY <1>1, <1>2
  <2>2. CASE \E i \in DOMAIN args.vtemps : args.vtemps[i].ptr = k
    <3>1. \E t \in Range(args.vtemps) : t.ptr = k BY <2>2 DEF Range
    <3>2. \A t \in Range(args.vtemps) : t \in Temps BY <1>3 DEF Range
    <3>3. (CHOOSE t \in Range(args.vtemps) : t.ptr = k) \in Temps BY <3>1, <3>2
    <3> QED BY <1>1, <1>2, <2>2, <3>3 DEF Temps
  <2>3. CASE ~ \E i \in DOMAIN args.vtemps : args.vtemps[i].ptr = k
    BY <1>1, <1>2, <2>3 DEF FormatIInv, FormatTypeOK
  <2> QED BY <2>2, <2>3
<1>5. ASSUME ~LongDoubles, NEW k \in Objects
      PROVE  IF k <= stored THEN object'[k] = "new" ELSE abi = 32 => object'[k] = "old"
  <2>1. k \in 1 .. MaxArgs /\ k \in DOMAIN Takes /\ Takes[k].stores BY <1>2, <1>5, ObjectIs
  <2>2. Tracks(args, Takes) BY <1>2, <1>5 DEF FormatIInv, Takes
  <2>3. k \in 1 .. Len(Takes) /\ Takes[k].as \in {"ls", "temp"} /\ (Takes[k].as = "temp" => abi = 64)
    BY <2>1, <2>2, EntryIs
  <2>4. OwnTemps(args.vlist, args.vtemps, Takes) BY <2>2 DEF Tracks
  <2>5. Between BY <1>1, <1>5 DEF FormatIInv
  <2>6. CASE Takes[k].as = "ls"
    <3>1. args.vlist[k].temp = 0 BY <2>3, <2>4, <2>6 DEF OwnTemps
    <3>2. ~ \E i \in DOMAIN args.vtemps : args.vtemps[i].ptr = k BY <1>3, <2>4, <3>1 DEF OwnTemps
    <3>3. object'[k] = object[k] BY <1>1, <1>2, <2>1, <3>2
    <3> QED BY <2>5, <2>6, <3>3 DEF Between
  <2>7. CASE Takes[k].as = "temp"
    <3> DEFINE i == args.vlist[k].temp
    <3>1. i \in 1 .. Len(args.vtemps) /\ args.vtemps[i].ptr = k BY <2>3, <2>4, <2>7 DEF OwnTemps
    <3>2. \A j \in DOMAIN args.vtemps : args.vtemps[j].ptr = k => j = i BY <1>3, <2>4 DEF OwnTemps
    <3>3. \E j \in DOMAIN args.vtemps : args.vtemps[j].ptr = k BY <1>3, <3>1
    <3>4. \A t \in Range(args.vtemps) : t.ptr = k => t = args.vtemps[i] BY <3>2 DEF Range
    <3>5. args.vtemps[i] \in Range(args.vtemps) BY <1>3, <3>1 DEF Range
    <3> HIDE DEF i
    <3>6. (CHOOSE t \in Range(args.vtemps) : t.ptr = k) = args.vtemps[i] BY <3>1, <3>4, <3>5
    <3>7. object'[k] = args.vtemps[i].llval BY <1>1, <1>2, <2>1, <3>3, <3>6
    <3> QED BY <2>3, <2>5, <2>7, <3>7 DEF Between, i
  <2> QED BY <2>3, <2>6, <2>7
<1>6. FormatOK' /\ (LongDoubles' <=> LongDoubles) /\ Takes' = Takes /\ Objects' = Objects
      /\ nr_format_args' = nr_format_args /\ format' = format /\ abi' = abi /\ op' = op
  BY <1>1, <1>2, Primes
<1>7. ResultsStored' BY <1>1, <1>5, <1>6 DEF ResultsStored
<1>8. Tracks(args, TakesTo[pos])' <=> Tracks(args, TakesTo[pos]) BY <1>1, Primes
<1>9. FormatTypeOK' BY <1>1, <1>4, <1>6 DEF FormatIInv, FormatTypeOK, MaxArgs
<1> QED BY <1>1, <1>2, <1>6, <1>7, <1>8, <1>9 DEF FormatIInv, Within

\* The handler's steps, and those that leave it alone.
LEMMA FormatStep ==
  ASSUME FormatIInv, FormatNext \/ UNCHANGED format_vars
  PROVE  FormatIInv'
<1>1. CASE FormatNext
  <2>1. CASE CountArgs BY <2>1, CountStep
  <2>2. CASE ParsePrintf \/ ParseScanf BY <2>2, ParseStep
  <2>3. CASE ParseFails BY <2>3, ParseFailsStep
  <2>4. CASE ParseEnd BY <2>4, ParseEndStep
  <2>5. CASE Copy BY <2>5, CopyStep
  <2>6. ASSUME NEW n \in 0 .. MaxArgs, Library(n) PROVE FormatIInv' BY <2>6, LibraryStep
  <2> QED BY <1>1, <2>1, <2>2, <2>3, <2>4, <2>5, <2>6 DEF FormatNext
<1>2. CASE UNCHANGED format_vars
  <2>1. UNCHANGED <<call, phase, stored, pos, nr_vargs, allocated, args, object>> BY <1>2 DEF format_vars
  <2>2. FormatOK' /\ (LongDoubles' <=> LongDoubles) /\ Takes' = Takes /\ Objects' = Objects
        /\ nr_format_args' = nr_format_args /\ format' = format /\ abi' = abi /\ op' = op
    BY <2>1, Primes DEF FormatIInv
  <2>3. Tracks(args, TakesTo[pos])' <=> Tracks(args, TakesTo[pos]) BY <2>1, Primes
  <2>4. FormatTypeOK' BY <2>1, <2>2 DEF FormatIInv, FormatTypeOK, MaxArgs
  <2>5. ResultsStored' BY <2>1, <2>2 DEF FormatIInv, ResultsStored
  <2>6. Between' <=> Between BY <2>1, <2>2 DEF Between
  <2> QED BY <2>1, <2>2, <2>3, <2>4, <2>5, <2>6 DEF FormatIInv, Unused
<1> QED BY <1>1, <1>2

\* The invariant holds what the runs check.
LEMMA FormatSafe ==
  ASSUME FormatIInv
  PROVE  ArgumentsPassed /\ FitsAllocated /\ ResultsStored /\ FormatTypeOK
<1>1. ArgumentsPassed
  <2>1. SUFFICES ASSUME phase = "call", ~LongDoubles PROVE Passed BY DEF ArgumentsPassed
  <2>2. Tracks(args, Takes) BY <2>1 DEF FormatIInv, Takes
  <2>3. Takes \in Seq(Wants) /\ DOMAIN Takes = 1 .. Len(Takes) BY <2>2 DEF Tracks, Taken
  <2> QED BY <2>2, <2>3 DEF Passed, Entry, Tracks, Matches
<1>2. FitsAllocated
  <2>1. SUFFICES ASSUME phase # "count" PROVE End(args.vlist) <= 8 * (allocated + 1) /\ Len(args.vtemps) <= allocated
    BY DEF FitsAllocated
  <2>2. FormatOK /\ allocated = nr_format_args /\ pos \in 0 .. Len(format) BY <2>1 DEF FormatIInv, FormatTypeOK
  <2>3. allocated \in Nat /\ allocated >= 3 * Len(format) /\ Len(format) \in Nat BY <2>2, CountIs
  <2>4. /\ End(args.vlist) <= 8 * Len(args.vlist) /\ Len(args.vtemps) <= Len(args.vlist) /\ Len(args.vlist) <= 3 * pos
        /\ Len(args.vlist) \in Nat /\ Len(args.vtemps) \in Nat /\ End(args.vlist) \in Nat
    BY EndIs DEF FormatIInv, Within, Lists
  <2>5. Len(args.vlist) <= allocated BY <2>2, <2>3, <2>4
  <2> QED BY <2>3, <2>4, <2>5
<1> QED BY <1>1, <1>2 DEF FormatIInv

-----------------------------------------------------------------------------
(* Words *)

LEMMA DivMod ==
  ASSUME NEW n \in Nat, NEW m \in Nat \ {0}
  PROVE  /\ n \div m \in Nat /\ n % m \in 0 .. m - 1
         /\ n = m * (n \div m) + (n % m)
<1>1. n \div m \in Int /\ n % m \in 0 .. m - 1 OBVIOUS
<1>2. n = m * (n \div m) + (n % m) OBVIOUS
<1>3. n \div m >= 0 OBVIOUS
<1> QED BY <1>1, <1>2, <1>3

LEMMA ModSmall ==
  ASSUME NEW m \in Nat \ {0}, NEW n \in 0 .. m - 1
  PROVE  n % m = n /\ n \div m = 0
OBVIOUS

LEMMA Quotient ==
  ASSUME NEW m \in Nat \ {0}, NEW q \in Nat, NEW r \in 0 .. m - 1
  PROVE  (m * q + r) \div m = q /\ (m * q + r) % m = r
OBVIOUS

LEMMA DivSmall ==
  ASSUME NEW m \in Nat \ {0}, NEW n \in 0 .. m * m - 1
  PROVE  n \div m \in 0 .. m - 1
<1>1. n = m * (n \div m) + (n % m) /\ n \div m \in Nat /\ n % m \in Nat BY DivMod
<1>2. ASSUME n \div m >= m PROVE FALSE
  <2> DEFINE q == n \div m
  <2>1. q \in Nat /\ q >= m BY <1>1, <1>2
  <2> HIDE DEF q
  <2>2. m * q >= m * m BY <2>1
  <2> QED BY <1>1, <2>2 DEF q
<1> QED BY <1>1, <1>2

LEMMA WordsType ==
  ASSUME NEW ea \in 0 .. Base * Base - 1
  PROVE  /\ ToWords(ea) \in Words
         /\ ToWords(ea)[1] * Base + ToWords(ea)[2] = ea
<1>1. Base \in Nat \ {0} /\ ea \in Nat BY CallAssumption
<1>2. ea \div Base \in 0 .. Base - 1 BY <1>1, DivSmall
<1>3. ea % Base \in 0 .. Base - 1 /\ ea = Base * (ea \div Base) + (ea % Base) BY <1>1, DivMod
<1>4. (ea \div Base) * Base = Base * (ea \div Base) BY <1>1, <1>2
<1> QED BY <1>2, <1>3, <1>4 DEF ToWords, Words

\* An address is not longer than two words.
LEMMA WidthType ==
  ASSUME abi \in {32, 64}
  PROVE  Width \in Nat /\ Width > 0 /\ Width <= Base * Base /\ Base <= Width
<1>1. Base \in Nat /\ Base >= 4 BY CallAssumption
<1>2. Base * Base \in Nat /\ Base * Base >= Base BY <1>1
<1> QED BY <1>1, <1>2 DEF Width

\* A pointer that fits comes back as the one it was.
LEMMA ComesBack ==
  ASSUME abi \in {32, 64}, NEW ea \in Nat, ea < Width
  PROVE  ToWords(ea) \in Words /\ FromWords(ToWords(ea)) = ea
<1>1. ea \in 0 .. Base * Base - 1 /\ Width \in Nat \ {0} /\ ea \in 0 .. Width - 1 BY WidthType, CallAssumption
<1>2. ea % Width = ea BY <1>1, ModSmall
<1> QED BY <1>1, <1>2, WordsType DEF FromWords

\* Two pointers that fit differ in their words.
LEMMA WordsDiffer ==
  ASSUME abi \in {32, 64}, NEW a \in Nat, a < Width, NEW b \in Nat, b < Width, ToWords(a) = ToWords(b)
  PROVE  a = b
BY ComesBack

\* A failed call's words are those of no pointer.
LEMMA NoPointer ==
  ASSUME abi \in {32, 64}, NEW ea \in Addresses, ea < Width
  PROVE  /\ ToWords(ea) # NullWords /\ ToWords(ea) # AllOnes
         /\ NullWords \in Words /\ AllOnes \in Words
<1>1. Base \in Nat \ {0} /\ ea \in 1 .. Base * Base - 2 /\ Base >= 4 BY CallAssumption
<1>2. NullWords \in Words /\ AllOnes \in Words BY <1>1 DEF NullWords, AllOnes, Words
<1>3. ToWords(ea)[1] * Base + ToWords(ea)[2] = ea BY <1>1, WordsType
<1>4. ToWords(ea) # NullWords
  <2>1. 0 * Base + 0 = 0 BY <1>1
  <2> QED BY <1>1, <1>3, <2>1 DEF NullWords
<1>5. ToWords(ea) # AllOnes
  <2>1. (Base - 1) * Base + (Base - 1) = Base * Base - 1 BY <1>1
  <2> QED BY <1>1, <1>3, <2>1 DEF AllOnes
<1> QED BY <1>2, <1>4, <1>5

-----------------------------------------------------------------------------
(* What the process has and the SPE program holds *)

Blocks == [ea : Addresses, kind : Kinds, size : Nat, asked : Nat]

LEMMA AddressIsNat == \A a \in Addresses : a \in Nat /\ a > 0
BY CallAssumption

Memory(l, p) ==
  /\ l \subseteq Blocks
  /\ \A b \in l : b.ea < Width /\ b.size >= b.asked
  /\ \A b, c \in l : b.ea = c.ea => b = c
  /\ p = {Held(ToWords(b.ea), b.kind) : b \in l}

\* Something new is given to the SPE program.
LEMMA Gain ==
  ASSUME abi \in {32, 64}, NEW l, NEW p, Memory(l, p), NEW a \in Addresses, a < Width,
         \A b \in l : b.ea # a, NEW kind \in Kinds, NEW size \in Nat, NEW asked \in Nat, size >= asked
  PROVE  Memory(l \cup {Block(a, kind, size, asked)}, p \cup {Held(ToWords(a), kind)})
<1> DEFINE new == Block(a, kind, size, asked)
<1>1. new \in Blocks /\ new.ea = a /\ new.kind = kind /\ new.size = size /\ new.asked = asked
  BY DEF Block, Blocks
<1> HIDE DEF new
<1>2. {Held(ToWords(b.ea), b.kind) : b \in l \cup {new}} = p \cup {Held(ToWords(a), kind)}
  BY <1>1 DEF Memory
<1>3. l \cup {new} \subseteq Blocks BY <1>1 DEF Memory
<1>4. \A b \in l \cup {new} : b.ea < Width /\ b.size >= b.asked BY <1>1 DEF Memory
<1>5. \A b, c \in l \cup {new} : b.ea = c.ea => b = c BY <1>1 DEF Memory
<1>6. Memory(l \cup {new}, p \cup {Held(ToWords(a), kind)}) BY <1>2, <1>3, <1>4, <1>5 DEF Memory
<1> QED BY <1>6 DEF new

\* What the SPE program holds leads to one thing, and both can go.
LEMMA Drop ==
  ASSUME abi \in {32, 64}, NEW l, NEW p, Memory(l, p), NEW h \in p
  PROVE  \E b \in l :
           /\ h = Held(ToWords(b.ea), b.kind) /\ FromWords(h.words) = b.ea /\ h.kind = b.kind
           /\ {c \in l : c.ea = b.ea /\ c.kind = b.kind} = {b}
           /\ Memory(l \ {b}, p \ {h})
<1>1. PICK b \in l : h = Held(ToWords(b.ea), b.kind) BY DEF Memory
<1>2. b \in Blocks /\ b.ea \in Nat /\ b.ea < Width
  BY AddressIsNat DEF Memory, Blocks
<1>3. FromWords(h.words) = b.ea /\ h.kind = b.kind BY <1>1, <1>2, ComesBack DEF Held
<1>4. {c \in l : c.ea = b.ea /\ c.kind = b.kind} = {b} BY DEF Memory
<1>5. ASSUME NEW c \in l \ {b} PROVE Held(ToWords(c.ea), c.kind) # h
  <2>1. c.ea \in Nat /\ c.ea < Width /\ c.ea # b.ea BY AddressIsNat DEF Memory, Blocks
  <2>2. ToWords(c.ea) # ToWords(b.ea) BY <1>2, <2>1, WordsDiffer
  <2> QED BY <1>1, <2>2 DEF Held
<1>6. {Held(ToWords(c.ea), c.kind) : c \in l \ {b}} = p \ {h} BY <1>1, <1>5 DEF Memory
<1>7. Memory(l \ {b}, p \ {h}) BY <1>6 DEF Memory
<1> QED BY <1>1, <1>3, <1>4, <1>7

LEMMA MemoryType ==
  ASSUME abi \in {32, 64}, NEW l, NEW p, Memory(l, p)
  PROVE  l \subseteq Blocks /\ p \subseteq [words : Words, kind : Kinds]
<1>1. ASSUME NEW b \in l PROVE Held(ToWords(b.ea), b.kind) \in [words : Words, kind : Kinds]
  <2>1. b.ea \in Nat /\ b.ea < Width /\ b.kind \in Kinds BY AddressIsNat DEF Memory, Blocks
  <2> QED BY <2>1, ComesBack DEF Held
<1> QED BY <1>1 DEF Memory

\* What holds between two calls, and before a step of the SPE program.
CallIInv ==
  /\ CallTypeOK
  /\ ~ astray => Memory(live, pointers)
  /\ WritesInside /\ ResultsSeen /\ BlocksBigEnough

Calling == abi \in {32, 64} /\ abi' = abi /\ calling' = calling /\ CallIInv /\ ~ astray

\* What a call reports.
Reported == /\ last.words \in Words /\ last.err \in Codes \cup {"0", "ENOSYS"}
            /\ WritesInside /\ ResultsSeen

-----------------------------------------------------------------------------
(* Results that are an int *)

Ints == {Done(v) : v \in 0 .. IntMax} \cup {Failed(c) : c \in Codes}

LEMMA IntIs == IntMax \in Nat /\ 2 * IntMax + 2 = Base /\ Base >= 4 /\ Base \in Nat
BY CallAssumption DEF IntMax

LEMMA EndsOfWord == 0 \in 0 .. Base - 1 /\ 1 \in 0 .. Base - 1 /\ Base - 1 \in 0 .. Base - 1
BY IntIs

LEMMA IntSeen ==
  ASSUME NEW outcome \in Ints
  PROVE  /\ IntWord(outcome) \in 0 .. Base - 1
         /\ IntWord(outcome) = Base - 1 <=> ~ outcome.ok
         /\ outcome.ok => Signed(IntWord(outcome)) = outcome.value
<1>1. CASE \E v \in 0 .. IntMax : outcome = Done(v)
  <2>1. PICK v \in 0 .. IntMax : outcome = Done(v) BY <1>1
  <2>2. v \in 0 .. Base - 1 /\ v < Base - 1 /\ Base \in Nat \ {0} BY IntIs
  <2>3. v % Base = v BY <2>2, ModSmall
  <2>4. Base \div 2 = IntMax + 1 BY IntIs DEF IntMax
  <2>5. IntWord(outcome) = v BY <2>1, <2>3 DEF IntWord, Done
  <2>6. Signed(v) = v BY <2>4, IntIs DEF Signed
  <2> QED BY <2>1, <2>2, <2>5, <2>6 DEF Done
<1>2. CASE \E c \in Codes : outcome = Failed(c)
  <2>1. ~ outcome.ok BY <1>2 DEF Failed
  <2> QED BY <2>1, IntIs DEF IntWord
<1> QED BY <1>1, <1>2 DEF Ints

\* errno is that of a failed call.
LEMMA SetsErrno ==
  ASSUME CallTypeOK, NEW outcome, Sets(outcome), outcome.ok \/ outcome.code \in Codes
  PROVE  errno' \in Codes \cup {"0"} /\ (~ outcome.ok => errno' = outcome.code)
BY DEF Sets, CallTypeOK

\* A call without a failure of its own.
LEMMA IntReported ==
  ASSUME NEW outcome \in Ints, NEW name, NEW err \in Codes \cup {"0", "ENOSYS"}, NEW nulls, NEW wrote,
         ~ outcome.ok => err = outcome.code,
         Returned(name, outcome, <<IntWord(outcome), 0>>, err, nulls, wrote),
         name \notin PointerCalls,
         CASE name \in {"readv", "writev"}                   -> wrote \subseteq 1 .. IovMax
           [] name \in {"time", "wait", "waitpid", "getcwd"} -> TRUE
           [] OTHER                                          -> wrote \cap nulls = {}
  PROVE  Reported'
<1>1. last' = [call |-> name, outcome |-> outcome, words |-> <<IntWord(outcome), 0>>, err |-> err,
               nulls |-> nulls, wrote |-> wrote]
  BY DEF Returned
<1>2. /\ last'.call = name /\ last'.outcome = outcome /\ last'.words = <<IntWord(outcome), 0>>
      /\ last'.words[1] = IntWord(outcome) /\ last'.err = err /\ last'.nulls = nulls /\ last'.wrote = wrote
  BY <1>1
<1>3. last'.words \in Words BY <1>2, IntSeen, IntIs DEF Words
<1>4. WritesInside' BY <1>2 DEF WritesInside
<1>5. SeesFailure' <=> last'.words[1] = Base - 1 BY <1>2 DEF SeesFailure, PointerCalls
<1>6. ResultsSeen' BY <1>2, <1>5, IntSeen DEF ResultsSeen
<1> QED BY <1>2, <1>3, <1>4, <1>6 DEF Reported

\* A result longer than an int, of lseek and time.
LEMMA Wide ==
  ASSUME NEW v \in {Base - 1, Base + 1}, NEW name \in WideCalls, NEW err \in Codes \cup {"0", "ENOSYS"},
         NEW nulls, NEW wrote, name = "time" \/ wrote \cap nulls = {},
         Returned(name, Done(v), <<IntWord(Done(v)), 0>>, err, nulls, wrote)
  PROVE  Reported'
<1>1. last' = [call |-> name, outcome |-> Done(v), words |-> <<IntWord(Done(v)), 0>>, err |-> err,
               nulls |-> nulls, wrote |-> wrote]
  BY DEF Returned
<1>2. v \in Nat /\ v > IntMax /\ Base \in Nat \ {0} BY IntIs
<1>3. last'.words \in Words
  <2>1. IntWord(Done(v)) = v % Base BY DEF IntWord, Done
  <2>2. v % Base \in 0 .. Base - 1 BY <1>2, DivMod
  <2> QED BY <1>1, <2>1, <2>2, EndsOfWord DEF Words
<1>4. WritesInside' BY <1>1 DEF WritesInside, WideCalls
<1>5. ResultsSeen' BY <1>1, <1>2 DEF ResultsSeen, Done
<1> QED BY <1>1, <1>3, <1>4, <1>5 DEF Reported

\* No call stores through a null pointer that it tests for or that must not be null.
LEMMA Tests ==
  ASSUME NEW name \in IntCalls, name \notin {"time", "wait", "waitpid"}, NEW outcome,
         NEW nulls \in SUBSET Optional(name)
  PROVE  Writes(name, outcome, nulls) \cap nulls = {}
<1>1. Optional(name) \subseteq Tested(name) BY DEF Optional, Tested
<1> QED BY <1>1 DEF Writes

LEMMA NamesOfInts ==
  ASSUME NEW name \in IntCalls \cup ShmCalls \cup {"getpagesize", "sched_yield", "readv", "writev"}
  PROVE  name \notin PointerCalls
BY DEF IntCalls, StatCalls, OpenCalls, TransferCalls, ProcessCalls, ClockCalls, DirectoryCalls,
       OwnerCalls, LinkCalls, SyncCalls, TempCalls, MaskCalls, OffsetCalls, ShmCalls, PointerCalls

LEMMA NoVectors ==
  ASSUME NEW name \in IntCalls \cup ShmCalls
  PROVE  name \notin {"readv", "writev", "getcwd"}
BY DEF IntCalls, StatCalls, OpenCalls, TransferCalls, ProcessCalls, ClockCalls, DirectoryCalls,
       OwnerCalls, LinkCalls, SyncCalls, TempCalls, MaskCalls, OffsetCalls, ShmCalls

\* A step that leaves the memory alone.
LEMMA MemoryStays ==
  ASSUME Calling, MemoryKept, errno' \in Codes \cup {"0"}, Reported'
  PROVE  CallIInv'
<1>1. CallTypeOK' BY DEF Calling, CallIInv, CallTypeOK, MemoryKept, Reported
<1>2. Memory(live, pointers)' BY DEF Calling, CallIInv, MemoryKept, Memory, Width
<1>3. BlocksBigEnough' BY DEF Calling, CallIInv, MemoryKept, BlocksBigEnough
<1> QED BY <1>1, <1>2, <1>3 DEF CallIInv, Reported

LEMMA IntCallStep ==
  ASSUME Calling, NEW name, IntCall(name)
  PROVE  CallIInv'
<1>1. name \in IntCalls /\ MemoryKept BY DEF IntCall
<1>2. PICK outcome \in Outcomes(name), nulls \in SUBSET Optional(name) :
        /\ Sets(outcome)
        /\ Returned(name, outcome, <<IntWord(outcome), 0>>, errno', nulls, Writes(name, outcome, nulls))
  BY DEF IntCall
<1>3. outcome \in Ints \/ (name \in WideCalls /\ \E v \in {Base - 1, Base + 1} : outcome = Done(v))
  BY IntIs DEF Outcomes, Ints
<1>4. outcome.ok \/ outcome.code \in Codes BY <1>3 DEF Ints, Done, Failed
<1>5. errno' \in Codes \cup {"0"} /\ (~ outcome.ok => errno' = outcome.code)
  BY <1>2, <1>4, SetsErrno DEF Calling, CallIInv
<1>6. name \notin PointerCalls /\ name \notin {"readv", "writev", "getcwd"} BY <1>1, NamesOfInts, NoVectors
<1>7. name \in {"time", "wait", "waitpid"} \/ Writes(name, outcome, nulls) \cap nulls = {} BY <1>1, Tests
<1>8. Reported'
  <2>1. CASE outcome \in Ints BY <2>1, <1>2, <1>5, <1>6, <1>7, IntReported
  <2>2. CASE outcome \notin Ints
    <3>1. PICK v \in {Base - 1, Base + 1} : outcome = Done(v) BY <1>3, <2>2
    <3>2. name \in WideCalls BY <1>3, <2>2
    <3>3. name = "time" \/ Writes(name, outcome, nulls) \cap nulls = {} BY <1>7, <3>2 DEF WideCalls
    <3> QED BY <1>2, <1>5, <3>1, <3>2, <3>3, Wide
  <2> QED BY <2>1, <2>2
<1> QED BY <1>1, <1>5, <1>8, MemoryStays

LEMMA QuietCallStep ==
  ASSUME Calling, NEW name, QuietCall(name)
  PROVE  CallIInv'
<1> DEFINE outcome == Done(IF name = "getpagesize" THEN IntMax ELSE 0)
<1>1. name \in {"getpagesize", "sched_yield"} /\ MemoryKept /\ errno' = errno
      /\ Returned(name, outcome, <<IntWord(outcome), 0>>, "0", {}, {})
  BY DEF QuietCall
<1>2. outcome \in Ints /\ outcome.ok
  <2>1. (IF name = "getpagesize" THEN IntMax ELSE 0) \in 0 .. IntMax BY IntIs
  <2> QED BY <2>1 DEF Ints, Done
<1>3. name \notin PointerCalls BY <1>1, NamesOfInts
<1> HIDE DEF outcome
<1>4. Reported' BY <1>1, <1>2, <1>3, IntReported
<1> QED BY <1>1, <1>4, MemoryStays DEF Calling, CallIInv, CallTypeOK

LEMMA ShmCallStep ==
  ASSUME Calling, NEW name, ShmCall(name)
  PROVE  CallIInv'
<1> DEFINE outcome == Failed("ENOSYS")
<1>1. name \in ShmCalls /\ MemoryKept /\ errno' = errno
      /\ Returned(name, outcome, <<Base - 1, 0>>, "ENOSYS", {}, {})
  BY DEF ShmCall
<1>2. last' = [call |-> name, outcome |-> outcome, words |-> <<Base - 1, 0>>, err |-> "ENOSYS",
               nulls |-> {}, wrote |-> {}]
  BY <1>1 DEF Returned
<1>3. name \notin PointerCalls /\ name \notin {"readv", "writev", "getcwd"} BY <1>1, NamesOfInts, NoVectors
<1>4. last'.words \in Words
  <2>1. <<Base - 1, 0>> \in Words BY EndsOfWord DEF Words
  <2> QED BY <1>2, <2>1
<1>5. WritesInside' BY <1>2, <1>3 DEF WritesInside
<1>6. SeesFailure' <=> last'.words[1] = Base - 1 BY <1>2, <1>3 DEF SeesFailure, PointerCalls
<1>7. ResultsSeen' BY <1>2, <1>6 DEF ResultsSeen, Failed
<1>8. Reported' BY <1>2, <1>4, <1>5, <1>7 DEF Reported
<1> QED BY <1>1, <1>8, MemoryStays DEF Calling, CallIInv, CallTypeOK

\* The totals of any number of lengths are those that the recursion says.
LEMMA TotalsAre ==
  ASSUME NEW lens \in Seq(Nat)
  PROVE  /\ \A n \in 0 .. Len(lens) : Totals(lens)[n] \in Nat
         /\ Totals(lens)[0] = 0
         /\ \A n \in 1 .. Len(lens) : Totals(lens)[n] = Totals(lens)[n - 1] + lens[n]
<1> DEFINE Upto(n) == \E f \in [0 .. n -> Nat] :
                        f = [i \in 0 .. n |-> IF i = 0 THEN 0 ELSE f[i - 1] + lens[i]]
           P == {n \in Nat : n <= Len(lens) => Upto(n)}
<1>1. 0 \in P
  <2> DEFINE f == [i \in 0 .. 0 |-> 0]
  <2>1. f = [i \in 0 .. 0 |-> IF i = 0 THEN 0 ELSE f[i - 1] + lens[i]]
    <3>1. \A i \in 0 .. 0 : i = 0 OBVIOUS
    <3> QED BY <3>1
  <2>2. f \in [0 .. 0 -> Nat] OBVIOUS
  <2> HIDE DEF f
  <2> QED BY <2>1, <2>2
<1>2. ASSUME NEW n \in P PROVE n + 1 \in P
  <2> HIDE DEF Upto
  <2>1. SUFFICES ASSUME n + 1 <= Len(lens) PROVE Upto(n + 1) OBVIOUS
  <2>2. n \in Nat /\ n <= Len(lens) BY <2>1
  <2>3. Upto(n) BY <2>2
  <2> USE DEF Upto
  <2>4. PICK f \in [0 .. n -> Nat] : f = [i \in 0 .. n |-> IF i = 0 THEN 0 ELSE f[i - 1] + lens[i]]
    BY <2>3
  <2> DEFINE g == [i \in 0 .. n + 1 |-> IF i = 0 THEN 0 ELSE f[i - 1] + lens[i]]
  <2>5. \A i \in 0 .. n : g[i] = f[i] BY <2>4
  <2>6. \A i \in 0 .. n + 1 : i # 0 => i - 1 \in 0 .. n /\ i \in 1 .. Len(lens) BY <2>1
  <2>7. g = [i \in 0 .. n + 1 |-> IF i = 0 THEN 0 ELSE g[i - 1] + lens[i]] BY <2>5, <2>6
  <2>8. g \in [0 .. n + 1 -> Nat]
    <3>1. \A i \in 1 .. Len(lens) : lens[i] \in Nat OBVIOUS
    <3>2. ASSUME NEW i \in 0 .. n + 1 PROVE (IF i = 0 THEN 0 ELSE f[i - 1] + lens[i]) \in Nat
      <4>1. CASE i = 0 BY <4>1
      <4>2. CASE i # 0
        <5>1. f[i - 1] \in Nat /\ lens[i] \in Nat BY <2>6, <3>1, <4>2
        <5> QED BY <4>2, <5>1
      <4> QED BY <4>1, <4>2
    <3> QED BY <3>2
  <2> HIDE DEF g
  <2> QED BY <2>7, <2>8
<1>3. P = Nat
  <2> HIDE DEF Upto
  <2>1. P \in SUBSET Nat OBVIOUS
  <2> QED BY <1>1, <1>2, <2>1, SetInduction
<1>4. Len(lens) \in Nat OBVIOUS
<1>5. Upto(Len(lens))
  <2> HIDE DEF Upto
  <2> QED BY <1>3, <1>4
<1> DEFINE Sum(s) == s = [i \in 0 .. Len(lens) |-> IF i = 0 THEN 0 ELSE s[i - 1] + lens[i]]
           sum == CHOOSE s : Sum(s)
<1>6. Totals(lens) = sum BY DEF Totals
<1>7. Sum(sum) BY <1>5
<1>8. PICK f \in [0 .. Len(lens) -> Nat] : Sum(f) BY <1>5
<1>9. \A n \in 0 .. Len(lens) : sum[n] = f[n]
  <2> DEFINE Q == {n \in Nat : n <= Len(lens) => sum[n] = f[n]}
  <2>1. 0 \in Q BY <1>7, <1>8, <1>4
  <2>2. ASSUME NEW n \in Q PROVE n + 1 \in Q
    <3>1. SUFFICES ASSUME n + 1 <= Len(lens) PROVE sum[n + 1] = f[n + 1] OBVIOUS
    <3>2. n + 1 \in 0 .. Len(lens) /\ n + 1 # 0 /\ (n + 1) - 1 = n BY <3>1
    <3>3. sum[n] = f[n] BY <3>1
    <3> HIDE DEF sum
    <3>4. sum[n + 1] = sum[n] + lens[n + 1] BY <1>7, <3>2
    <3>5. f[n + 1] = f[n] + lens[n + 1] BY <1>8, <3>2
    <3> QED BY <3>3, <3>4, <3>5
  <2>3. Q = Nat
    <3>1. Q \in SUBSET Nat OBVIOUS
    <3> QED BY <2>1, <2>2, <3>1, SetInduction
  <2> QED BY <2>3
<1>10. \A n \in 0 .. Len(lens) : sum[n] \in Nat BY <1>8, <1>9
<1>11. 0 \in 0 .. Len(lens) /\ \A n \in 1 .. Len(lens) : n \in 0 .. Len(lens) /\ n # 0 BY <1>4
<1> HIDE DEF sum
<1>12. sum[0] = 0 /\ \A n \in 1 .. Len(lens) : sum[n] = sum[n - 1] + lens[n] BY <1>7, <1>11
<1> QED BY <1>6, <1>10, <1>12

\* On the 64-bit ABI no total wraps around before the test of it refuses it.
LEMMA TotalFits ==
  ASSUME abi = 64, NEW count, NEW lens \in Seq(0 .. Base - 1), check_conv_spuvec(count, lens)
  PROVE  Total(lens) <= IntMax
<1> DEFINE Q == {n \in Nat : n <= Len(lens) => Totals(lens)[n] <= IntMax}
<1>1. lens \in Seq(Nat) /\ Len(lens) \in Nat BY IntIs
<1>2. 0 \in Q BY <1>1, TotalsAre, IntIs
<1>3. ASSUME NEW n \in Q PROVE n + 1 \in Q
  <2>1. SUFFICES ASSUME n + 1 <= Len(lens) PROVE Totals(lens)[n + 1] <= IntMax OBVIOUS
  <2>2. n \in 0 .. Len(lens) /\ n + 1 \in 1 .. Len(lens) /\ (n + 1) - 1 = n BY <1>1, <2>1
  <2>3. Totals(lens)[n] \in Nat /\ Totals(lens)[n] <= IntMax BY <1>1, <2>2, TotalsAre
  <2>4. lens[n + 1] \in 0 .. Base - 1
    <3>1. ASSUME NEW S, lens \in Seq(S) PROVE \A i \in 1 .. Len(lens) : lens[i] \in S BY <3>1
    <3>2. \A i \in 1 .. Len(lens) : lens[i] \in 0 .. Base - 1 BY <3>1
    <3> QED BY <2>2, <3>2
  <2>5. Totals(lens)[n + 1] = Totals(lens)[n] + lens[n + 1] BY <1>1, <2>2, TotalsAre
  <2> DEFINE t == Totals(lens)[n + 1]
  <2>6. t \in Nat /\ t < 2 * Base BY <2>3, <2>4, <2>5, IntIs
  <2>7. Width \in Nat \ {0} /\ 2 * Base <= Width
    <3>1. Width = Base * Base BY DEF Width
    <3>2. Base \in Nat /\ Base >= 4 BY IntIs
    <3>3. Base * Base \in Nat /\ 2 * Base <= Base * Base BY <3>2
    <3> QED BY <3>1, <3>2, <3>3
  <2>8. t % Width = t
    <3> HIDE DEF t
    <3>1. t \in 0 .. Width - 1 BY <2>6, <2>7, IntIs
    <3> QED BY <2>7, <3>1, ModSmall
  <2>9. t % Width <= IntMax BY <2>2 DEF check_conv_spuvec, SPU_SSIZE_MAX
  <2> QED BY <2>8, <2>9
<1>4. Q = Nat
  <2>1. Q \in SUBSET Nat OBVIOUS
  <2> QED BY <1>2, <1>3, <2>1, SetInduction
<1> QED BY <1>1, <1>4 DEF Total

LEMMA VectorCallStep ==
  ASSUME Calling, NEW name, VectorCall(name)
  PROVE  CallIInv'
<1>1. name \in {"readv", "writev"} /\ MemoryKept BY DEF VectorCall
<1>2. PICK count \in 0 .. Base - 1 : \E lens \in Vectors(count) : \E outcome \in VectorOutcomes(count, lens) :
        /\ Sets(outcome)
        /\ Returned(name, outcome, <<IntWord(outcome), 0>>, errno', {}, DOMAIN Converted(lens))
  BY DEF VectorCall
<1>3. PICK lens \in Vectors(count) : \E outcome \in VectorOutcomes(count, lens) :
        /\ Sets(outcome)
        /\ Returned(name, outcome, <<IntWord(outcome), 0>>, errno', {}, DOMAIN Converted(lens))
  BY <1>2
<1>4. PICK outcome \in VectorOutcomes(count, lens) :
        /\ Sets(outcome)
        /\ Returned(name, outcome, <<IntWord(outcome), 0>>, errno', {}, DOMAIN Converted(lens))
  BY <1>3
<1>5. outcome \in Ints
  <2>1. CASE outcome = Failed("EINVAL") BY <2>1 DEF Ints, Codes
  <2>2. CASE outcome \in {Failed(c) : c \in Codes} BY <2>2 DEF Ints
  <2>3. CASE /\ check_conv_spuvec(count, lens) /\ ~ Signed(count) < 0 /\ ~ Total(lens) > SSIZE_MAX
             /\ outcome \in {Done(v) : v \in 0 .. Total(lens)}
    <3>1. lens \in Seq(0 .. Base - 1) /\ lens \in Seq(Nat)
      <4>1. lens \in [1 .. count -> {0}] \/ lens \in [1 .. count -> 0 .. Base - 1]
        BY <1>3, <2>3 DEF Vectors
      <4> QED BY <4>1, IntIs
    <3>2. Total(lens) \in Nat
      <4>1. Len(lens) \in 0 .. Len(lens) BY <3>1
      <4> QED BY <3>1, <4>1, TotalsAre DEF Total
    <3>3. Total(lens) <= IntMax
      <4>1. CASE abi = 64 BY <2>3, <3>1, <4>1, TotalFits
      <4>2. CASE abi = 32
        <5>1. SSIZE_MAX = IntMax BY <4>2 DEF SSIZE_MAX, Width, IntMax
        <5> QED BY <2>3, <3>2, <5>1, IntIs
      <4> QED BY <4>1, <4>2 DEF Calling, CallIInv, CallTypeOK
    <3>4. PICK v \in 0 .. Total(lens) : outcome = Done(v) BY <2>3
    <3>5. v \in 0 .. IntMax BY <3>2, <3>3, <3>4, IntIs
    <3> QED BY <3>4, <3>5 DEF Ints
  <2> QED BY <1>4, <2>1, <2>2, <2>3 DEF VectorOutcomes
<1>6. outcome.ok \/ outcome.code \in Codes BY <1>5 DEF Ints, Done, Failed
<1>7. errno' \in Codes \cup {"0"} /\ (~ outcome.ok => errno' = outcome.code)
  BY <1>4, <1>6, SetsErrno DEF Calling, CallIInv
<1>8. DOMAIN Converted(lens) \subseteq 1 .. IovMax
  <2>1. lens = <<>> \/ lens \in [1 .. count -> {0}] \/ lens \in [1 .. count -> 0 .. Base - 1]
    BY <1>3 DEF Vectors
  <2>2. lens \in Seq(0 .. Base - 1)
    <3>1. CASE lens = <<>> BY <3>1
    <3>2. CASE lens \in [1 .. count -> {0}] BY <3>2, IntIs
    <3>3. CASE lens \in [1 .. count -> 0 .. Base - 1] BY <3>3, IntIs
    <3> QED BY <2>1, <3>1, <3>2, <3>3
  <2>3. CASE Len(lens) <= IovMax
    BY <2>2, <2>3, VectorAssumption DEF Converted
  <2> QED BY <2>3 DEF Converted
<1>9. name \notin PointerCalls BY <1>1, NamesOfInts
<1>10. Reported' BY <1>1, <1>4, <1>5, <1>7, <1>8, <1>9, IntReported
<1> QED BY <1>1, <1>7, <1>10, MemoryStays

LEMMA GetcwdStep ==
  ASSUME Calling, Getcwd
  PROVE  CallIInv'
<1>1. MemoryKept BY DEF Getcwd
<1>2. PICK size \in {0, 1}, nulls \in SUBSET {1}, outcome \in {Done(1)} \cup {Failed(c) : c \in Codes} :
        IF size = 0
         THEN /\ UNCHANGED errno
              /\ Returned("getcwd", Failed("EINVAL"), NullWords, "EINVAL", nulls, {})
         ELSE /\ Sets(outcome)
              /\ Returned("getcwd", outcome,
                          <<IF outcome.ok /\ nulls = {} THEN outcome.value ELSE 0, 0>>, errno', nulls,
                          IF outcome.ok THEN {1} ELSE {})
  BY DEF Getcwd
<1>3. CASE size = 0
  <2>1. last' = [call |-> "getcwd", outcome |-> Failed("EINVAL"), words |-> NullWords, err |-> "EINVAL",
                 nulls |-> nulls, wrote |-> {}]
    BY <1>2, <1>3 DEF Returned
  <2>2. Reported' BY <2>1, IntIs DEF Reported, Words, NullWords, Codes, WritesInside, ResultsSeen, SeesFailure, Failed
  <2> QED BY <1>1, <1>2, <1>3, <2>2, MemoryStays DEF Calling, CallIInv, CallTypeOK
<1>4. CASE size = 1
  <2>1. last' = [call |-> "getcwd", outcome |-> outcome,
                 words |-> <<IF outcome.ok /\ nulls = {} THEN outcome.value ELSE 0, 0>>, err |-> errno',
                 nulls |-> nulls, wrote |-> IF outcome.ok THEN {1} ELSE {}]
    BY <1>2, <1>4 DEF Returned
  <2>2. outcome.ok \/ outcome.code \in Codes BY DEF Done, Failed
  <2>3. errno' \in Codes \cup {"0"} /\ (~ outcome.ok => errno' = outcome.code)
    BY <1>2, <1>4, <2>2, SetsErrno DEF Calling, CallIInv
  <2>4. outcome.ok => outcome.value = 1 BY DEF Done, Failed
  <2>5. last'.words \in Words BY <2>1, <2>4, IntIs DEF Words
  <2>6. ResultsSeen' BY <2>1, <2>3, <2>4 DEF ResultsSeen, SeesFailure, PointerCalls
  <2>7. Reported' BY <2>1, <2>3, <2>5, <2>6 DEF Reported, WritesInside
  <2> QED BY <1>1, <2>3, <2>7, MemoryStays
<1> QED BY <1>3, <1>4

-----------------------------------------------------------------------------
(* Calls with pointers of the PPE *)

\* The words of a null pointer and of MAP_FAILED on either ABI.
LEMMA NullIs == ToWords(0) = NullWords
<1>1. Base \in Nat \ {0} /\ 0 \in 0 .. Base - 1 BY IntIs
<1> QED BY <1>1, ModSmall DEF ToWords, NullWords

LEMMA FailedIs ==
  /\ ToWords(Base * Base - 1) = AllOnes
  /\ ToWords(Base - 1) = <<0, Base - 1>> /\ <<0, Base - 1>> # AllOnes /\ <<0, Base - 1>> \in Words
<1>1. Base \in Nat \ {0} /\ Base - 1 \in 0 .. Base - 1 /\ Base - 1 \in Nat /\ Base >= 4 BY IntIs
<1>2. ToWords(Base - 1) = <<0, Base - 1>> BY <1>1, ModSmall DEF ToWords
<1>3. Base * (Base - 1) + (Base - 1) = Base * Base - 1 BY <1>1
<1>4. (Base * Base - 1) \div Base = Base - 1 /\ (Base * Base - 1) % Base = Base - 1
  BY <1>1, <1>3, Quotient
<1>5. <<0, Base - 1>> \in Words /\ <<0, Base - 1>> # AllOnes BY <1>1, EndsOfWord DEF Words, AllOnes
<1> QED BY <1>2, <1>4, <1>5 DEF ToWords, AllOnes

\* The memory after a step that keeps the ABI.
LEMMA Remembered ==
  ASSUME Calling, Memory(live', pointers')
  PROVE  Memory(live, pointers)' /\ live' \subseteq Blocks /\ pointers' \subseteq [words : Words, kind : Kinds]
<1>1. Width' = Width BY DEF Calling, Width
<1>2. Memory(live, pointers)' <=> Memory(live', pointers') BY <1>1 DEF Memory
<1> QED BY <1>2, MemoryType DEF Calling

\* A step that changes the memory.
LEMMA MemoryChanges ==
  ASSUME Calling, UNCHANGED astray, Memory(live', pointers'), errno' \in Codes \cup {"0"}, Reported'
  PROVE  CallIInv'
<1>1. BlocksBigEnough' BY DEF Memory, BlocksBigEnough
<1> QED BY <1>1, Remembered DEF Calling, CallIInv, CallTypeOK, Reported, Blocks

\* Where there is room, a new pointer is given.
LEMMA NewPointer ==
  ASSUME Calling, NEW a \in Room, NEW kind \in Kinds, NEW size \in Nat, NEW asked \in Nat, size >= asked
  PROVE  Memory(live \cup {Block(a, kind, size, asked)}, pointers \cup {Held(ToWords(a), kind)})
BY Gain DEF Room, Calling, CallIInv

\* A call that returns a pointer, or says by other words that it failed.
LEMMA PointerSeen ==
  ASSUME Calling, NEW outcome, NEW name \in {"malloc", "calloc", "realloc", "opendir", "mmap", "mremap"},
         NEW words,
         \/ /\ outcome.ok /\ outcome.value \in Addresses /\ outcome.value < Width
            /\ words = ToWords(outcome.value)
         \/ /\ ~ outcome.ok /\ outcome.code \in Codes
            /\ words = IF name \in {"mmap", "mremap"} THEN AllOnes ELSE NullWords,
         Sets(outcome), PUT_LS_RC(name, outcome, words)
  PROVE  Reported' /\ errno' \in Codes \cup {"0"}
<1>1. last' = [call |-> name, outcome |-> outcome, words |-> words, err |-> errno', nulls |-> {}, wrote |-> {}]
  BY DEF PUT_LS_RC, Returned
<1>2. errno' \in Codes \cup {"0"} /\ (~ outcome.ok => errno' = outcome.code)
  BY SetsErrno DEF Calling, CallIInv
<1>3. abi \in {32, 64} BY DEF Calling
<1>4. words \in Words
  <2>1. CASE outcome.ok BY <2>1, <1>3, AddressIsNat, ComesBack
  <2>2. CASE ~ outcome.ok
    <3>1. NullWords \in Words /\ AllOnes \in Words BY EndsOfWord DEF Words, NullWords, AllOnes
    <3> QED BY <2>2, <3>1
  <2> QED BY <2>1, <2>2
<1>5. outcome.ok <=> words # NullWords /\ words # AllOnes BY <1>3, NoPointer
<1>6. NullWords # AllOnes BY IntIs DEF NullWords, AllOnes
<1>7. SeesFailure' <=> ~ outcome.ok BY <1>1, <1>5, <1>6, <1>3, NoPointer DEF SeesFailure
<1>8. ResultsSeen' BY <1>1, <1>2, <1>7 DEF ResultsSeen, PointerCalls
<1>9. WritesInside' BY <1>1 DEF WritesInside
<1> QED BY <1>1, <1>2, <1>4, <1>8, <1>9 DEF Reported

LEMMA MmapStep ==
  ASSUME Calling, Mmap
  PROVE  CallIInv'
<1>1. PICK outcome \in NewBlocks \cup {Failed(c) : c \in Codes} :
        /\ Sets(outcome)
        /\ live' = live \cup (IF outcome.ok THEN {Block(outcome.value, "map", 1, 1)} ELSE {})
        /\ pointers' = pointers \cup Keeps(mmapWords(outcome), "map", AllOnes)
        /\ PUT_LS_RC("mmap", outcome, mmapWords(outcome))
        /\ UNCHANGED astray
  BY DEF Mmap
<1>2. abi \in {32, 64} /\ Memory(live, pointers) BY DEF Calling, CallIInv
<1>3. CASE outcome \in NewBlocks
  <2>1. PICK a \in Room : outcome = Done(a) BY <1>3 DEF NewBlocks
  <2>2. outcome.ok /\ outcome.value = a BY <2>1 DEF Done
  <2>3. a \in Addresses /\ a < Width BY DEF Room
  <2>8. Memory(live \cup {Block(a, "map", 1, 1)}, pointers \cup {Held(ToWords(a), "map")})
    <3>1. "map" \in Kinds /\ 1 \in Nat /\ 1 >= 1 BY DEF Kinds
    <3> QED BY <3>1, NewPointer
  <2>4. Keeps(mmapWords(outcome), "map", AllOnes) = {Held(ToWords(a), "map")}
    BY <1>2, <2>2, <2>3, NoPointer DEF Keeps, mmapWords
  <2>5. Memory(live', pointers') BY <1>1, <2>2, <2>4, <2>8
  <2>6. mmapWords(outcome) = ToWords(outcome.value) BY <2>2 DEF mmapWords
  <2>7. Reported' /\ errno' \in Codes \cup {"0"} BY <1>1, <2>2, <2>3, <2>6, PointerSeen
  <2> QED BY <1>1, <2>5, <2>7, MemoryChanges
<1>4. CASE \E c \in Codes : outcome = Failed(c)
  <2>1. ~ outcome.ok /\ outcome.code \in Codes BY <1>4 DEF Failed
  <2>2. mmapWords(outcome) = AllOnes BY <2>1 DEF mmapWords
  <2>3. live' = live /\ pointers' = pointers BY <1>1, <2>1, <2>2 DEF Keeps
  <2>4. Reported' /\ errno' \in Codes \cup {"0"} BY <1>1, <2>1, <2>2, PointerSeen
  <2> QED BY <1>1, <1>2, <2>3, <2>4, MemoryChanges
<1> QED BY <1>1, <1>3, <1>4

LEMMA OpendirStep ==
  ASSUME Calling, Opendir
  PROVE  CallIInv'
<1>1. PICK outcome \in NewBlocks \cup {Failed(c) : c \in Codes} :
        /\ Sets(outcome)
        /\ live' = live \cup (IF outcome.ok THEN {Block(outcome.value, "dir", 1, 1)} ELSE {})
        /\ pointers' = pointers \cup Keeps(ToWords(PointerTo(outcome, 0)), "dir", NullWords)
        /\ PUT_LS_RC("opendir", outcome, ToWords(PointerTo(outcome, 0)))
        /\ UNCHANGED astray
  BY DEF Opendir
<1>2. abi \in {32, 64} /\ Memory(live, pointers) BY DEF Calling, CallIInv
<1>3. CASE outcome \in NewBlocks
  <2>1. PICK a \in Room : outcome = Done(a) BY <1>3 DEF NewBlocks
  <2>2. outcome.ok /\ outcome.value = a /\ PointerTo(outcome, 0) = a BY <2>1 DEF Done, PointerTo
  <2>3. a \in Addresses /\ a < Width BY DEF Room
  <2>8. Memory(live \cup {Block(a, "dir", 1, 1)}, pointers \cup {Held(ToWords(a), "dir")})
    <3>1. "dir" \in Kinds /\ 1 \in Nat /\ 1 >= 1 BY DEF Kinds
    <3> QED BY <3>1, NewPointer
  <2>4. Keeps(ToWords(a), "dir", NullWords) = {Held(ToWords(a), "dir")}
    BY <1>2, <2>2, <2>3, NoPointer DEF Keeps
  <2>5. Memory(live', pointers') BY <1>1, <2>2, <2>4, <2>8
  <2>6. Reported' /\ errno' \in Codes \cup {"0"} BY <1>1, <2>2, <2>3, PointerSeen
  <2> QED BY <1>1, <2>5, <2>6, MemoryChanges
<1>4. CASE \E c \in Codes : outcome = Failed(c)
  <2>1. ~ outcome.ok /\ outcome.code \in Codes BY <1>4 DEF Failed
  <2>2. ToWords(PointerTo(outcome, 0)) = NullWords BY <2>1, NullIs DEF PointerTo
  <2>3. live' = live /\ pointers' = pointers BY <1>1, <2>1, <2>2 DEF Keeps
  <2>4. Reported' /\ errno' \in Codes \cup {"0"} BY <1>1, <2>1, <2>2, PointerSeen
  <2> QED BY <1>1, <1>2, <2>3, <2>4, MemoryChanges
<1> QED BY <1>1, <1>3, <1>4

LEMMA MremapStep ==
  ASSUME Calling, Mremap
  PROVE  CallIInv'
<1>1. PICK h \in pointers : \E outcome \in {Done(FromWords(h.words))} \cup {Done(a) : a \in Room}
                                             \cup {Failed(c) : c \in Codes} :
    LET old == At(FromWords(h.words), "map")
        words == ToWords(PointerTo(outcome, Width - 1))
    IN /\ "mremap" \in Calls /\ h.kind = "map" /\ old # {} /\ Sets(outcome)
       /\ live' = IF outcome.ok THEN (live \ old) \cup {Block(outcome.value, "map", 1, 1)} ELSE live
       /\ pointers' = IF words = AllOnes THEN pointers ELSE (pointers \ {h}) \cup {Held(words, "map")}
       /\ astray' = (astray \/ (~outcome.ok /\ words # AllOnes))
       /\ PUT_LS_RC("mremap", outcome, words)
  BY DEF Mremap
<1>2. PICK outcome \in {Done(FromWords(h.words))} \cup {Done(a) : a \in Room} \cup {Failed(c) : c \in Codes} :
    LET old == At(FromWords(h.words), "map")
        words == ToWords(PointerTo(outcome, Width - 1))
    IN /\ h.kind = "map" /\ Sets(outcome)
       /\ live' = IF outcome.ok THEN (live \ old) \cup {Block(outcome.value, "map", 1, 1)} ELSE live
       /\ pointers' = IF words = AllOnes THEN pointers ELSE (pointers \ {h}) \cup {Held(words, "map")}
       /\ astray' = (astray \/ (~outcome.ok /\ words # AllOnes))
       /\ PUT_LS_RC("mremap", outcome, words)
  BY <1>1
<1> DEFINE words == ToWords(PointerTo(outcome, Width - 1))
<1>3. abi \in {32, 64} /\ Memory(live, pointers) /\ ~ astray /\ astray \in BOOLEAN
  BY DEF Calling, CallIInv, CallTypeOK
<1>4. PICK b \in live :
        /\ FromWords(h.words) = b.ea /\ h.kind = b.kind
        /\ {c \in live : c.ea = b.ea /\ c.kind = b.kind} = {b}
        /\ Memory(live \ {b}, pointers \ {h})
  BY <1>3, Drop
<1>5. At(FromWords(h.words), "map") = {b} BY <1>2, <1>4 DEF At
<1>6. b.ea \in Addresses /\ b.ea < Width /\ \A c \in live \ {b} : c.ea # b.ea
  BY <1>3 DEF Memory, Blocks
<1>7. CASE outcome.ok
  <2> DEFINE a == outcome.value
  <2>1. a = b.ea \/ a \in Room BY <1>2, <1>4, <1>7 DEF Done, Failed
  <2>2. a \in Addresses /\ a < Width /\ \A c \in live \ {b} : c.ea # a BY <1>6, <2>1 DEF Room
  <2>3. words = ToWords(a) BY <1>7 DEF PointerTo
  <2>4. words # AllOnes BY <1>3, <2>2, <2>3, NoPointer
  <2>5. "map" \in Kinds /\ 1 \in Nat /\ 1 >= 1 BY DEF Kinds
  <2> HIDE DEF a
  <2>6. Memory((live \ {b}) \cup {Block(a, "map", 1, 1)}, (pointers \ {h}) \cup {Held(ToWords(a), "map")})
    BY <1>3, <1>4, <2>2, <2>5, Gain
  <2>7. live' = (live \ {b}) \cup {Block(a, "map", 1, 1)} BY <1>2, <1>5, <1>7 DEF a
  <2>8. pointers' = (pointers \ {h}) \cup {Held(ToWords(a), "map")} /\ PUT_LS_RC("mremap", outcome, ToWords(a))
    BY <1>2, <2>3, <2>4
  <2>9. UNCHANGED astray BY <1>2, <1>3, <1>7
  <2>10. Reported' /\ errno' \in Codes \cup {"0"} BY <1>2, <1>7, <2>2, <2>8, PointerSeen DEF a
  <2> QED BY <2>6, <2>7, <2>8, <2>9, <2>10, MemoryChanges
<1>8. CASE ~ outcome.ok
  <2>1. outcome.code \in Codes BY <1>8 DEF Done, Failed
  <2>2. words = ToWords(Width - 1) /\ live' = live BY <1>2, <1>8 DEF PointerTo
  <2>3. CASE abi = 64
    <3>1. words = AllOnes BY <2>2, <2>3, FailedIs DEF Width
    <3>2. pointers' = pointers /\ UNCHANGED astray /\ PUT_LS_RC("mremap", outcome, AllOnes)
      BY <1>2, <1>3, <3>1
    <3>3. Reported' /\ errno' \in Codes \cup {"0"} BY <1>2, <1>8, <2>1, <3>2, PointerSeen
    <3> QED BY <1>3, <2>2, <3>2, <3>3, MemoryChanges
  <2>4. CASE abi = 32
    <3>1. words = <<0, Base - 1>> /\ words # AllOnes /\ words \in Words BY <2>2, <2>4, FailedIs DEF Width
    <3>2. pointers' = (pointers \ {h}) \cup {Held(words, "map")} BY <1>2, <3>1
    <3>3. astray' BY <1>2, <1>8, <3>1
    <3>4. errno' \in Codes \cup {"0"} BY <1>2, <2>1, SetsErrno DEF Calling, CallIInv
    <3>5. last' = [call |-> "mremap", outcome |-> outcome, words |-> words, err |-> errno', nulls |-> {}, wrote |-> {}]
      BY <1>2 DEF PUT_LS_RC, Returned
    <3>6. pointers' \subseteq [words : Words, kind : Kinds]
      BY <1>3, <3>1, <3>2, MemoryType DEF Held, Kinds
    <3>7. astray' \in BOOLEAN BY <1>2
    <3>8. CallTypeOK' BY <2>2, <3>1, <3>4, <3>5, <3>6, <3>7 DEF Calling, CallIInv, CallTypeOK
    <3>9. WritesInside' BY <3>5 DEF WritesInside
    <3>10. ResultsSeen' BY <3>3 DEF ResultsSeen
    <3>11. BlocksBigEnough' BY <2>2 DEF Calling, CallIInv, BlocksBigEnough
    <3> QED BY <3>3, <3>8, <3>9, <3>10, <3>11 DEF CallIInv
  <2> QED BY <1>3, <2>3, <2>4
<1> QED BY <1>7, <1>8

LEMMA ReleaseStep ==
  ASSUME Calling, NEW name \in {"munmap", "closedir"}, NEW kind, Release(name, kind)
  PROVE  CallIInv'
<1>1. PICK h \in pointers, outcome \in {Done(0)} \cup {Failed(c) : c \in Codes} :
        /\ h.kind = kind /\ Sets(outcome) /\ UNCHANGED astray
        /\ IF outcome.ok \/ name = "closedir"
             THEN live' = live \ At(FromWords(h.words), kind) /\ pointers' = pointers \ {h}
             ELSE UNCHANGED <<live, pointers>>
        /\ PUT_LS_RC(name, outcome, <<IntWord(outcome), 0>>)
  BY DEF Release
<1>2. abi \in {32, 64} /\ Memory(live, pointers) /\ errno \in Codes \cup {"0"}
  BY DEF Calling, CallIInv, CallTypeOK
<1>3. PICK b \in live :
        /\ FromWords(h.words) = b.ea /\ h.kind = b.kind
        /\ {c \in live : c.ea = b.ea /\ c.kind = b.kind} = {b}
        /\ Memory(live \ {b}, pointers \ {h})
  BY <1>2, Drop
<1>4. Memory(live', pointers') /\ live' \subseteq live
  <2>1. CASE outcome.ok \/ name = "closedir" BY <1>1, <1>3, <2>1 DEF At
  <2>2. CASE ~ (outcome.ok \/ name = "closedir") BY <1>1, <1>2, <2>2
  <2> QED BY <2>1, <2>2
<1>5. outcome \in Ints /\ (outcome.ok \/ outcome.code \in Codes)
  BY IntIs DEF Ints, Done, Failed
<1>6. errno' \in Codes \cup {"0"} /\ (~ outcome.ok => errno' = outcome.code)
  BY <1>1, <1>5, SetsErrno DEF Calling, CallIInv
<1>7. name \notin PointerCalls BY DEF PointerCalls
<1>8. Reported' BY <1>1, <1>5, <1>6, <1>7, IntReported DEF PUT_LS_RC
<1> QED BY <1>1, <1>4, <1>6, <1>8, MemoryChanges

LEMMA UseCallStep ==
  ASSUME Calling, NEW name \in {"msync", "telldir", "rewinddir", "seekdir"}, NEW kind, UseCall(name, kind)
  PROVE  CallIInv'
<1> DEFINE void == name \in {"rewinddir", "seekdir"}
           failures == IF void THEN {} ELSE {Failed(c) : c \in Codes}
<1>1. MemoryKept BY DEF UseCall
<1>2. PICK outcome \in failures \cup {Done(0)} :
        /\ Sets(outcome)
        /\ Returned(name, outcome, <<IntWord(outcome), 0>>, IF void THEN "0" ELSE errno', {}, {})
  BY DEF UseCall
<1>3. outcome \in Ints /\ (outcome.ok \/ (outcome.code \in Codes /\ ~ void))
  BY IntIs DEF Ints, Done, Failed
<1>4. errno' \in Codes \cup {"0"} /\ (~ outcome.ok => errno' = outcome.code)
  BY <1>2, <1>3, SetsErrno DEF Calling, CallIInv
<1>5. name \notin PointerCalls BY DEF PointerCalls
<1>6. Reported' BY <1>2, <1>3, <1>4, <1>5, IntReported
<1> QED BY <1>1, <1>4, <1>6, MemoryStays

LEMMA ReaddirStep ==
  ASSUME Calling, Readdir
  PROVE  CallIInv'
<1>1. MemoryKept BY DEF Readdir
<1>2. PICK outcome \in {Done(1), Done(0), Failed("EINVAL")} :
        /\ Sets(outcome)
        /\ Returned("readdir", outcome, <<outcome.value, 0>>, errno', {},
                    IF outcome.value = 1 THEN {2} ELSE {})
  BY DEF Readdir
<1>3. last' = [call |-> "readdir", outcome |-> outcome, words |-> <<outcome.value, 0>>, err |-> errno',
               nulls |-> {}, wrote |-> IF outcome.value = 1 THEN {2} ELSE {}]
  BY <1>2 DEF Returned
<1>4. outcome.ok \/ outcome.code \in Codes BY DEF Done, Failed, Codes
<1>5. errno' \in Codes \cup {"0"} /\ (~ outcome.ok => errno' = outcome.code)
  BY <1>2, <1>4, SetsErrno DEF Calling, CallIInv
<1>6. outcome.value \in {0, 1} /\ (~ outcome.ok => outcome.value = 0) BY DEF Done, Failed
<1>7. last'.words \in Words BY <1>3, <1>6, EndsOfWord DEF Words
<1>8. WritesInside' BY <1>3 DEF WritesInside
<1>9. SeesFailure' <=> outcome.value = 0 BY <1>3 DEF SeesFailure
<1>10. ResultsSeen' BY <1>3, <1>5, <1>6, <1>9 DEF ResultsSeen, PointerCalls
<1>11. Reported' BY <1>3, <1>5, <1>7, <1>8, <1>10 DEF Reported
<1> QED BY <1>1, <1>5, <1>11, MemoryStays

-----------------------------------------------------------------------------
(* The heap *)

\* A size that is not refused is not cut.
LEMMA SizeFits ==
  ASSUME abi \in {32, 64}, NEW size \in Sizes, Fits(size)
  PROVE  size \in Nat /\ arg64_to_size_t(size) = size
<1>1. size \in 1 .. Base * Base - 1 /\ Base \in Nat \ {0} BY CallAssumption
<1>2. CASE abi = 64
  <2>1. size < Width BY <1>1, <1>2 DEF Width
  <2> QED BY <1>1, <2>1, ComesBack DEF arg64_to_size_t
<1>3. CASE abi = 32
  <2>1. size \div Base = 0 BY <1>3 DEF Fits, ToWords
  <2>2. size = Base * (size \div Base) + (size % Base) /\ size % Base \in 0 .. Base - 1 BY <1>1, DivMod
  <2>3. size < Width BY <1>1, <1>3, <2>1, <2>2 DEF Width
  <2> QED BY <1>1, <2>3, ComesBack DEF arg64_to_size_t
<1> QED BY <1>2, <1>3

\* The SPE program is given what the C library allocated for it.
LEMMA Allocates ==
  ASSUME Calling, NEW taken, NEW asked \in Nat, NEW outcome \in Allocations(taken),
         outcome.ok => taken = asked,
         live' = live \cup Allocated(outcome, taken, asked),
         pointers' = pointers \cup Given(PointerWords(outcome))
  PROVE  /\ Memory(live', pointers')
         /\ \/ /\ outcome.ok /\ outcome.value \in Addresses /\ outcome.value < Width
               /\ PointerWords(outcome) = ToWords(outcome.value)
            \/ ~ outcome.ok /\ outcome.code = "ENOMEM" /\ PointerWords(outcome) = NullWords
<1>1. abi \in {32, 64} /\ Memory(live, pointers) BY DEF Calling, CallIInv
<1>2. CASE outcome = Failed("ENOMEM")
  <2>1. ~ outcome.ok /\ outcome.code = "ENOMEM" BY <1>2 DEF Failed
  <2>2. PointerWords(outcome) = NullWords BY <2>1 DEF PointerWords
  <2>3. live' = live /\ pointers' = pointers BY <2>1, <2>2 DEF Allocated, Given
  <2> QED BY <1>1, <2>1, <2>2, <2>3
<1>3. CASE \E a \in Room : outcome = Done(a)
  <2>1. PICK a \in Room : outcome = Done(a) BY <1>3
  <2>2. outcome.ok /\ outcome.value = a BY <2>1 DEF Done
  <2>3. a \in Addresses /\ a < Width BY DEF Room
  <2>4. "block" \in Kinds /\ taken \in Nat /\ taken >= asked BY <2>2 DEF Kinds
  <2>5. Memory(live \cup {Block(a, "block", taken, asked)}, pointers \cup {Held(ToWords(a), "block")})
    BY <2>4, NewPointer
  <2>6. PointerWords(outcome) = ToWords(a) BY <2>2 DEF PointerWords
  <2>7. Given(ToWords(a)) = {Held(ToWords(a), "block")} BY <1>1, <2>3, NoPointer DEF Given
  <2> QED BY <2>2, <2>3, <2>5, <2>6, <2>7 DEF Allocated
<1> QED BY <1>2, <1>3 DEF Allocations

LEMMA MallocStep ==
  ASSUME Calling, NEW size \in Sizes, Malloc(size)
  PROVE  CallIInv'
<1>1. PICK outcome \in IF Fits(size) THEN Allocations(arg64_to_size_t(size)) ELSE {Refused} :
        /\ Sets(outcome)
        /\ live' = live \cup Allocated(outcome, arg64_to_size_t(size), size)
        /\ pointers' = pointers \cup Given(PointerWords(outcome))
        /\ PUT_LS_RC("malloc", outcome, PointerWords(outcome))
        /\ UNCHANGED astray
  BY DEF Malloc
<1>2. outcome \in Allocations(arg64_to_size_t(size)) BY DEF Allocations, Refused
<1>3. outcome.ok => arg64_to_size_t(size) = size BY SizeFits DEF Refused, Failed, Calling
<1>4. size \in Nat BY CallAssumption
<1>5. /\ Memory(live', pointers')
      /\ \/ /\ outcome.ok /\ outcome.value \in Addresses /\ outcome.value < Width
            /\ PointerWords(outcome) = ToWords(outcome.value)
         \/ ~ outcome.ok /\ outcome.code = "ENOMEM" /\ PointerWords(outcome) = NullWords
  BY <1>1, <1>2, <1>3, <1>4, Allocates
<1>6. Reported' /\ errno' \in Codes \cup {"0"} BY <1>1, <1>5, PointerSeen DEF Codes
<1> QED BY <1>1, <1>5, <1>6, MemoryChanges

LEMMA CallocStep ==
  ASSUME Calling, NEW nmemb \in Sizes, NEW size \in Sizes, Calloc(nmemb, size)
  PROVE  CallIInv'
<1> DEFINE taken == arg64_to_size_t(nmemb) * arg64_to_size_t(size)
<1>1. PICK outcome \in IF CallocFits(nmemb, size) THEN Allocations(taken) ELSE {Refused} :
        /\ Sets(outcome)
        /\ live' = live \cup Allocated(outcome, taken, nmemb * size)
        /\ pointers' = pointers \cup Given(PointerWords(outcome))
        /\ PUT_LS_RC("calloc", outcome, PointerWords(outcome))
        /\ UNCHANGED astray
  BY DEF Calloc
<1>2. outcome \in Allocations(taken) BY DEF Allocations, Refused
<1>3. outcome.ok => taken = nmemb * size BY SizeFits DEF Refused, Failed, Calling, CallocFits
<1>4. nmemb \in Nat /\ size \in Nat BY CallAssumption
<1>5. nmemb * size \in Nat BY <1>4
<1> HIDE DEF taken
<1>6. /\ Memory(live', pointers')
      /\ \/ /\ outcome.ok /\ outcome.value \in Addresses /\ outcome.value < Width
            /\ PointerWords(outcome) = ToWords(outcome.value)
         \/ ~ outcome.ok /\ outcome.code = "ENOMEM" /\ PointerWords(outcome) = NullWords
  BY <1>1, <1>2, <1>3, <1>5, Allocates
<1>7. Reported' /\ errno' \in Codes \cup {"0"} BY <1>1, <1>6, PointerSeen DEF Codes
<1> QED BY <1>1, <1>6, <1>7, MemoryChanges

LEMMA PosixMemalignStep ==
  ASSUME Calling, NEW size \in Sizes, PosixMemalign(size)
  PROVE  CallIInv'
<1>1. PICK outcome \in IF Fits(size) THEN Allocations(arg64_to_size_t(size)) ELSE {Refused} :
        /\ live' = live \cup Allocated(outcome, arg64_to_size_t(size), size)
        /\ pointers' = pointers \cup Given(PointerWords(outcome))
        /\ Returned("posix_memalign", outcome, <<IF outcome.ok THEN 0 ELSE 1, 0>>, outcome.code, {},
                    IF outcome.ok THEN {1} ELSE {})
        /\ UNCHANGED <<errno, astray>>
  BY DEF PosixMemalign
<1>2. outcome \in Allocations(arg64_to_size_t(size)) BY DEF Allocations, Refused
<1>3. outcome.ok => arg64_to_size_t(size) = size BY SizeFits DEF Refused, Failed, Calling
<1>4. size \in Nat BY CallAssumption
<1>5. Memory(live', pointers') BY <1>1, <1>2, <1>3, <1>4, Allocates
<1>6. last' = [call |-> "posix_memalign", outcome |-> outcome, words |-> <<IF outcome.ok THEN 0 ELSE 1, 0>>,
               err |-> outcome.code, nulls |-> {}, wrote |-> IF outcome.ok THEN {1} ELSE {}]
  BY <1>1 DEF Returned
<1>7. outcome.code \in Codes \cup {"0"} /\ outcome.ok \in BOOLEAN
  <2>1. outcome = Failed("ENOMEM") \/ \E a \in Room : outcome = Done(a) BY <1>2 DEF Allocations
  <2>2. CASE outcome = Failed("ENOMEM") BY <2>2 DEF Failed, Codes
  <2>3. CASE \E a \in Room : outcome = Done(a) BY <2>3 DEF Done, Codes
  <2> QED BY <2>1, <2>2, <2>3
<1>8. last'.words \in Words BY <1>6, EndsOfWord DEF Words
<1>9. WritesInside' BY <1>6 DEF WritesInside
<1>10. SeesFailure' <=> ~ outcome.ok BY <1>6 DEF SeesFailure
<1>11. ResultsSeen' BY <1>6, <1>10 DEF ResultsSeen, PointerCalls
<1>12. Reported' BY <1>6, <1>7, <1>8, <1>9, <1>11 DEF Reported
<1>13. errno' \in Codes \cup {"0"} BY <1>1 DEF Calling, CallIInv, CallTypeOK
<1> QED BY <1>1, <1>5, <1>12, <1>13, MemoryChanges

LEMMA FreeStep ==
  ASSUME Calling, Free
  PROVE  CallIInv'
<1>1. PICK h \in pointers :
        /\ h.kind = "block"
        /\ live' = live \ At(FromWords(h.words), "block")
        /\ pointers' = pointers \ {h}
        /\ Returned("free", Done(0), h.words, "0", {}, {})
        /\ UNCHANGED <<errno, astray>>
  BY DEF Free
<1>2. /\ abi \in {32, 64} /\ Memory(live, pointers) /\ errno \in Codes \cup {"0"}
      /\ pointers \subseteq [words : Words, kind : Kinds]
  BY DEF Calling, CallIInv, CallTypeOK
<1>3. PICK b \in live :
        /\ FromWords(h.words) = b.ea /\ h.kind = b.kind
        /\ {c \in live : c.ea = b.ea /\ c.kind = b.kind} = {b}
        /\ Memory(live \ {b}, pointers \ {h})
  BY <1>2, Drop
<1>4. Memory(live', pointers') BY <1>1, <1>3 DEF At
<1>5. last' = [call |-> "free", outcome |-> Done(0), words |-> h.words, err |-> "0", nulls |-> {}, wrote |-> {}]
  BY <1>1 DEF Returned
<1>6. Reported' BY <1>2, <1>5 DEF Reported, WritesInside, ResultsSeen
<1> QED BY <1>1, <1>2, <1>4, <1>6, MemoryChanges

\* The pointer the SPE program passes to realloc is null, or leads to a block.
LEMMA ReallocRightStep ==
  ASSUME Calling, NEW size \in Sizes,
         NEW words \in {NullWords} \cup {h.words : h \in {k \in pointers : k.kind = "block"}},
         ReallocRight(words, size)
  PROVE  CallIInv'
<1> DEFINE ea == FromWords(words)
           old == At(ea, "block")
           taken == arg64_to_size_t(size)
           stays == IF ea # 0 /\ taken < Width THEN {Done(ea)} ELSE {}
<1>1. PICK outcome \in stays \cup Allocations(taken) :
        /\ Sets(outcome)
        /\ live' = IF outcome.ok THEN (live \ old) \cup Allocated(outcome, taken, size) ELSE live
        /\ pointers' = IF outcome.ok THEN (pointers \ Given(words)) \cup Given(PointerWords(outcome)) ELSE pointers
        /\ PUT_LS_RC("realloc", outcome, PointerWords(outcome))
        /\ UNCHANGED astray
  BY DEF ReallocRight
<1>2. abi \in {32, 64} /\ Memory(live, pointers) BY DEF Calling, CallIInv
<1>3. size \in Nat /\ taken = size BY <1>2, SizeFits DEF ReallocRight
\* What is left without it, and that its address is free.
<1>4. /\ Memory(live \ old, pointers \ Given(words))
      /\ ea # 0 => ea \in Addresses /\ ea < Width /\ \A c \in live \ old : c.ea # ea
  <2>1. CASE words = NullWords
    <3>1. ea = 0 BY <1>2, <2>1, NullIs, ComesBack, WidthType
    <3>2. old = {} BY <1>2, <3>1, AddressIsNat DEF At, Memory, Blocks
    <3>3. Given(words) = {} BY <2>1 DEF Given
    <3> QED BY <1>2, <3>1, <3>2, <3>3
  <2>2. CASE words # NullWords
    <3>1. PICK h \in pointers : h.kind = "block" /\ words = h.words BY <2>2
    <3>2. PICK b \in live :
            /\ h = Held(ToWords(b.ea), b.kind) /\ FromWords(h.words) = b.ea /\ h.kind = b.kind
            /\ {c \in live : c.ea = b.ea /\ c.kind = b.kind} = {b}
            /\ Memory(live \ {b}, pointers \ {h})
      BY <1>2, Drop
    <3>3. old = {b} /\ ea = b.ea BY <3>1, <3>2 DEF At
    <3>4. Given(words) = {h} BY <2>2, <3>1, <3>2 DEF Given, Held
    <3>5. ea \in Addresses /\ ea < Width /\ \A c \in live \ {b} : c.ea # ea
      BY <1>2, <3>3 DEF Memory, Blocks
    <3> QED BY <3>2, <3>3, <3>4, <3>5
  <2> QED BY <2>1, <2>2
<1> HIDE DEF ea, old, taken
<1>5. CASE outcome = Failed("ENOMEM")
  <2>1. ~ outcome.ok /\ outcome.code \in Codes BY <1>5 DEF Failed, Codes
  <2>2. PointerWords(outcome) = NullWords BY <2>1 DEF PointerWords
  <2>3. Reported' /\ errno' \in Codes \cup {"0"} BY <1>1, <2>1, <2>2, PointerSeen
  <2> QED BY <1>1, <1>2, <2>1, <2>3, MemoryChanges
<1>6. CASE \E a : outcome = Done(a)
  <2>1. PICK a : outcome = Done(a) BY <1>6
  <2>2. outcome.ok /\ outcome.value = a BY <2>1 DEF Done
  <2>3. (a = ea /\ ea # 0) \/ a \in Room BY <2>1 DEF Allocations, Done, Failed
  <2>4. a \in Addresses /\ a < Width /\ \A c \in live \ old : c.ea # a BY <1>4, <2>3 DEF Room
  <2>5. "block" \in Kinds /\ taken \in Nat /\ taken >= size BY <1>3 DEF Kinds
  <2>6. Memory((live \ old) \cup {Block(a, "block", taken, size)},
               (pointers \ Given(words)) \cup {Held(ToWords(a), "block")})
    BY <1>2, <1>3, <1>4, <2>4, <2>5, Gain
  <2>7. PointerWords(outcome) = ToWords(a) BY <2>2 DEF PointerWords
  <2>8. Given(ToWords(a)) = {Held(ToWords(a), "block")} BY <1>2, <2>4, NoPointer DEF Given
  <2>9. Allocated(outcome, taken, size) = {Block(a, "block", taken, size)} BY <2>2 DEF Allocated
  <2>10. Memory(live', pointers') BY <1>1, <2>2, <2>6, <2>7, <2>8, <2>9
  <2>11. Reported' /\ errno' \in Codes \cup {"0"} BY <1>1, <2>2, <2>4, <2>7, PointerSeen
  <2> QED BY <1>1, <2>10, <2>11, MemoryChanges
<1> QED BY <1>5, <1>6 DEF Allocations

LEMMA ReallocElseStep ==
  ASSUME Calling, NEW size \in Sizes, NEW words, ReallocAstray(words, size) \/ ReallocRefused(words, size)
  PROVE  CallIInv'
<1>1. /\ abi \in {32, 64} /\ Memory(live, pointers) /\ errno \in Codes \cup {"0"}
      /\ CallTypeOK /\ WritesInside /\ ResultsSeen /\ BlocksBigEnough /\ ~ astray /\ calling' = calling
  BY DEF Calling, CallIInv, CallTypeOK
<1>2. CASE ReallocAstray(words, size)
  <2>1. astray' = TRUE /\ UNCHANGED <<errno, live, pointers, last>> BY <1>2 DEF ReallocAstray
  <2>2. CallTypeOK' BY <1>1, <2>1 DEF CallTypeOK
  <2>3. WritesInside' BY <1>1, <2>1 DEF WritesInside
  <2>4. ResultsSeen' BY <2>1 DEF ResultsSeen
  <2>5. BlocksBigEnough' BY <1>1, <2>1 DEF BlocksBigEnough
  <2> QED BY <2>1, <2>2, <2>3, <2>4, <2>5 DEF CallIInv
<1>3. CASE ReallocRefused(words, size)
  <2>1. PICK ea \in 0 .. Width - 1 :
          astray' = (ea # 0) /\ errno' = "ENOMEM" /\ PUT_LS_RC("realloc", Refused, ToWords(ea))
    BY <1>3 DEF ReallocRefused
  <2>2. UNCHANGED <<live, pointers>> BY <1>3 DEF ReallocRefused
  <2>3. last' = [call |-> "realloc", outcome |-> Failed("ENOMEM"), words |-> ToWords(ea), err |-> "ENOMEM",
                 nulls |-> {}, wrote |-> {}]
    BY <2>1 DEF PUT_LS_RC, Returned, Refused
  <2>4. ToWords(ea) \in Words BY <1>1, WidthType, ComesBack
  <2>5. CallTypeOK' BY <1>1, <2>1, <2>2, <2>3, <2>4 DEF CallTypeOK, Codes
  <2>6. WritesInside' BY <2>3 DEF WritesInside
  <2>7. ResultsSeen'
    <3>1. CASE ea = 0
      <4>1. last'.words = NullWords /\ last'.call = "realloc" BY <2>3, <3>1, NullIs
      <4>2. SeesFailure' BY <4>1 DEF SeesFailure
      <4> QED BY <2>3, <4>2 DEF ResultsSeen, Failed
    <3>2. CASE ea # 0 BY <2>1, <3>2 DEF ResultsSeen
    <3> QED BY <3>1, <3>2
  <2>8. Memory(live, pointers)' BY <1>1, <2>2, Remembered
  <2>9. BlocksBigEnough' BY <1>1, <2>2 DEF BlocksBigEnough
  <2> QED BY <2>5, <2>6, <2>7, <2>8, <2>9 DEF CallIInv
<1> QED BY <1>2, <1>3

-----------------------------------------------------------------------------
(* The calls together *)

LEMMA InitCallIInv == CallInit /\ calling \in {"c99", "calls"} => CallIInv
<1> SUFFICES ASSUME CallInit, calling \in {"c99", "calls"} PROVE CallIInv OBVIOUS
<1>1. CallTypeOK BY EndsOfWord DEF CallInit, CallTypeOK, Words, NullWords, Codes, Done
<1>2. Memory(live, pointers) BY DEF CallInit, Memory
<1>3. WritesInside BY DEF CallInit, WritesInside
<1>4. ResultsSeen BY DEF CallInit, ResultsSeen
<1>5. BlocksBigEnough BY DEF CallInit, BlocksBigEnough
<1> QED BY <1>1, <1>2, <1>3, <1>4, <1>5 DEF CallIInv

LEMMA CallsStep ==
  ASSUME Calling, Posix1Call \/ LibeaCall
  PROVE  CallIInv'
<1>1. CASE \E name \in Calls : IntCall(name) \/ QuietCall(name) \/ ShmCall(name) \/ VectorCall(name)
  BY <1>1, IntCallStep, QuietCallStep, ShmCallStep, VectorCallStep
<1>2. CASE Getcwd BY <1>2, GetcwdStep
<1>3. CASE Mmap \/ Opendir BY <1>3, MmapStep, OpendirStep
<1>4. CASE Mremap BY <1>4, MremapStep
<1>5. CASE Munmap \/ Closedir BY <1>5, ReleaseStep DEF Munmap, Closedir
<1>6. CASE UseCalls BY <1>6, UseCallStep DEF UseCalls
<1>7. CASE Readdir BY <1>7, ReaddirStep
<1>8. CASE LibeaCall
  <2>1. CASE Free BY <2>1, FreeStep
  <2>2. CASE \E nmemb, size \in Sizes : Calloc(nmemb, size) BY <2>2, CallocStep
  <2>3. ASSUME NEW size \in Sizes, Malloc(size) \/ PosixMemalign(size) PROVE CallIInv'
    BY <2>3, MallocStep, PosixMemalignStep
  <2>4. ASSUME NEW size \in Sizes, Realloc(size) PROVE CallIInv'
    BY <2>4, ReallocRightStep, ReallocElseStep DEF Realloc
  <2> QED BY <1>8, <2>1, <2>2, <2>3, <2>4 DEF LibeaCall
<1> QED BY <1>1, <1>2, <1>3, <1>4, <1>5, <1>6, <1>7, <1>8 DEF Posix1Call

-----------------------------------------------------------------------------
(* One of the two, in LibraryCalls *)

LibIInv == abi \in {32, 64} /\ FormatIInv /\ CallIInv

LEMMA InitLibIInv == LibInit => LibIInv
<1> SUFFICES ASSUME LibInit PROVE LibIInv OBVIOUS
<1>1. abi \in {32, 64} /\ abi \in Abis BY AbiAssumption DEF LibInit, CallInit
<1>2. CallIInv BY InitCallIInv DEF LibInit
<1>3. FormatIInv
  <2>1. CASE FormatInit BY <2>1, AtStart DEF FormatInit
  <2>2. CASE NoFormat BY <1>1, <2>2, AtStart DEF NoFormat
  <2> QED BY <2>1, <2>2 DEF LibInit
<1> QED BY <1>1, <1>2, <1>3 DEF LibIInv

\* What the calls' part of the state is worth if only the handler of a format moves.
LEMMA CallsStay ==
  ASSUME LibIInv, UNCHANGED <<abi, lsVars, calling>>
  PROVE  CallIInv'
<1>1. abi' = abi /\ UNCHANGED <<errno, live, pointers, astray, last, calling>> BY DEF lsVars
<1>2. CallTypeOK' BY <1>1 DEF LibIInv, CallIInv, CallTypeOK
<1>3. (~ astray => Memory(live, pointers))' BY <1>1 DEF LibIInv, CallIInv, Memory, Width
<1>4. WritesInside' BY <1>1 DEF LibIInv, CallIInv, WritesInside
<1>5. ResultsSeen'
  <2>1. SeesFailure' <=> SeesFailure BY <1>1 DEF SeesFailure
  <2> QED BY <1>1, <2>1 DEF LibIInv, CallIInv, ResultsSeen
<1>6. BlocksBigEnough' BY <1>1 DEF LibIInv, CallIInv, BlocksBigEnough
<1> QED BY <1>2, <1>3, <1>4, <1>5, <1>6 DEF CallIInv

LEMMA NextLibIInv == LibIInv /\ [LibNext]_libVars => LibIInv'
<1> SUFFICES ASSUME LibIInv, [LibNext]_libVars PROVE LibIInv' OBVIOUS
<1>1. CASE calling = "c99" /\ FormatNext /\ UNCHANGED <<lsVars, calling>>
  <2>1. abi' = abi
    BY <1>1 DEF FormatNext, CountArgs, ParsePrintf, ParseScanf, ParseFails, ParseEnd, Copy, Library, Parsed, call
  <2>2. FormatIInv' BY <1>1, FormatStep DEF LibIInv
  <2>3. CallIInv' BY <1>1, <2>1, CallsStay
  <2> QED BY <2>1, <2>2, <2>3 DEF LibIInv
<1>2. CASE calling = "calls" /\ ~astray /\ (Posix1Call \/ LibeaCall) /\ UNCHANGED <<format_vars, calling>>
  <2>1. abi' = abi BY <1>2 DEF format_vars, call
  <2>2. FormatIInv' BY <1>2, FormatStep DEF LibIInv
  <2>3. Calling BY <1>2, <2>1 DEF LibIInv, Calling
  <2>4. CallIInv' BY <1>2, <2>3, CallsStep
  <2> QED BY <2>1, <2>2, <2>4 DEF LibIInv
<1>3. CASE UNCHANGED libVars
  <2>1. UNCHANGED <<format_vars, lsVars, calling>> /\ abi' = abi BY <1>3 DEF libVars, format_vars, call
  <2>2. FormatIInv' BY <2>1, FormatStep DEF LibIInv
  <2>3. CallIInv' BY <2>1, CallsStay
  <2> QED BY <2>1, <2>2, <2>3 DEF LibIInv
<1> QED BY <1>1, <1>2, <1>3 DEF LibNext

\* The invariant holds of every call.
THEOREM LibInvariance == LibSpec => []LibIInv
BY InitLibIInv, NextLibIInv, PTL DEF LibSpec

\* The state of the handlers and of the calls has its type.
THEOREM CallTypesCorrect == LibSpec => [](FormatTypeOK /\ CallTypeOK)
<1>1. LibIInv => FormatTypeOK /\ CallTypeOK BY DEF LibIInv, FormatIInv, CallIInv
<1> QED BY <1>1, LibInvariance, PTL

\* The parsers pass the C library the list it takes for the format, each entry
\* with the width, the place and the extension of the argument it stands for.
THEOREM ArgumentsPassedHolds == LibSpec => []ArgumentsPassed
<1>1. LibIInv => ArgumentsPassed BY FormatSafe DEF LibIInv
<1> QED BY <1>1, LibInvariance, PTL

\* Three times the number of "%" is enough for what the parsers write.
THEOREM FitsAllocatedHolds == LibSpec => []FitsAllocated
<1>1. LibIInv => FitsAllocated BY FormatSafe DEF LibIInv
<1> QED BY <1>1, LibInvariance, PTL

\* What scanf and "%n" stored is in the SPE program's objects when the call
\* returns, whether __copy_va_temp had to bring it there or not.
THEOREM ResultsStoredHolds == LibSpec => []ResultsStored
<1>1. LibIInv => ResultsStored BY FormatSafe DEF LibIInv
<1> QED BY <1>1, LibInvariance, PTL

\* No handler but those of time, wait, waitpid and getcwd stores through a null
\* pointer, nor past a vector of IOV_MAX.
THEOREM WritesInsideHolds == LibSpec => []WritesInside
<1>1. LibIInv => WritesInside BY DEF LibIInv, CallIInv
<1> QED BY <1>1, LibInvariance, PTL

\* The SPE program holds a pointer to each block, mapping and stream, and no other.
THEOREM PointersComeBackHolds == LibSpec => []PointersComeBack
<1>1. LibIInv => PointersComeBack BY DEF LibIInv, CallIInv, Memory, PointersComeBack
<1> QED BY <1>1, LibInvariance, PTL

\* A failed call is seen to have failed, with its errno, and no other is.
THEOREM ResultsSeenHolds == LibSpec => []ResultsSeen
<1>1. LibIInv => ResultsSeen BY DEF LibIInv, CallIInv
<1> QED BY <1>1, LibInvariance, PTL

\* No block is shorter than what malloc, calloc, realloc or posix_memalign was asked for.
THEOREM BlocksBigEnoughHolds == LibSpec => []BlocksBigEnough
<1>1. LibIInv => BlocksBigEnough BY DEF LibIInv, CallIInv
<1> QED BY <1>1, LibInvariance, PTL
=============================================================================
