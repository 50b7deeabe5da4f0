------------------------------ MODULE C99Files ------------------------------
(***************************************************************************)
(* The streams that PPE-assisted C99 calls open for SPE programs           *)
(* (src/spebase/default_c99_handler.c): the table spe_FILE_ptrs[], its     *)
(* counter and its mutex.  The table is one for the process, and the       *)
(* handlers of different SPE contexts run in different threads.            *)
(*                                                                         *)
(* An SPE program names a stream by its index in the table; 1, 2 and 3 are *)
(* the standard streams of the process.  Data, formats and positions are   *)
(* left out: the operations that leave their stream open differ only in    *)
(* how they name it.                                                       *)
(***************************************************************************)
EXTENDS Integers, FiniteSets

CONSTANTS
  Contexts,       \* SPE contexts, each with one library call at a time
  SPE_FOPEN_MAX,  \* size of the table
  Operations,     \* the library functions that programs call
  Files,          \* FILE objects that fopen() and tmpfile() may return
  MinNr,          \* bound: how far closing standard streams takes the counter
  None            \* NULL; no context

SPE_FOPEN_MIN == 4
Std == 1 .. 3
Indices == 1 .. SPE_FOPEN_MAX - 1
Slots == SPE_FOPEN_MIN .. SPE_FOPEN_MAX - 1

\* The operations on a stream that the program names ...
FormatOps == {"vfprintf", "vfscanf"}
BufferOps == {"setbuf", "setvbuf"}
CharacterOps == {"fgetc", "fgets", "fileno", "fputc", "fputs", "getc"}
BlockOps == {"ungetc", "fread", "fwrite"}
PositionOps == {"fgetpos", "fseek", "fsetpos", "ftell", "rewind"}
StatusOps == {"clearerr", "feof", "ferror"}
StreamOps == FormatOps \cup BufferOps \cup CharacterOps \cup BlockOps
               \cup PositionOps \cup StatusOps \cup {"fflush", "putc"}

\* ... and on standard input and output.  (puts calls the C library without a
\* look at the table and changes nothing that is modelled.)
StdFormatOps == [vscanf |-> 1, vprintf |-> 2]
StdCharacterOps == [getchar |-> 1, gets |-> 1, putchar |-> 2]

StdOps == {<<op, StdFormatOps[op]>> : op \in DOMAIN StdFormatOps}
            \cup {<<op, StdCharacterOps[op]>> : op \in DOMAIN StdCharacterOps}

\* The first step of the operations that change the table.
First == [fopen |-> "fopen_lock", tmpfile |-> "tmp_find",
          freopen |-> "freopen_lock", fclose |-> "fclose_get"]

ASSUME C99Assumption ==
  /\ IsFiniteSet(Contexts) /\ None \notin Contexts
  /\ SPE_FOPEN_MAX \in Nat /\ SPE_FOPEN_MAX > SPE_FOPEN_MIN
  /\ Operations \subseteq DOMAIN First \cup StreamOps \cup {s[1] : s \in StdOps}
  /\ IsFiniteSet(Files) /\ Files \cap (Std \cup {None}) = {}
  /\ None \notin Std
  /\ MinNr \in Int

VARIABLES
  file_mutex, \* owner of spe_c99_file_mutex
  nr,         \* nr_spe_FILE_ptrs
  ptrs,       \* spe_FILE_ptrs[]
  open,       \* the FILE objects that are open; those of stdin.. are 1..3
  pc,         \* where the handler of each context is
  arg,        \* the index it was called with, or found in the table
  stream,     \* the FILE object it got from get_FILE
  num,        \* the counter a handler read without the mutex
  crashed,    \* a handler passed NULL to the C library
  held,       \* history: the indices each program received and may use
  drift,      \* history: by how much freopen and fclose got the counter wrong
  raced       \* history: tmpfile() ran at the same time as another change

c99_table == <<file_mutex, nr, ptrs, open>>
c99_local == <<pc, arg, stream, num>>
c99_vars == <<c99_table, c99_local, crashed, held, drift, raced>>

Init ==
  /\ file_mutex = None /\ nr = 3
  /\ ptrs = [i \in Indices |-> None]
  /\ open = Std
  /\ pc = [c \in Contexts |-> "idle"]
  /\ arg = [c \in Contexts |-> 0]
  /\ stream = [c \in Contexts |-> None]
  /\ num = [c \in Contexts |-> 0]
  /\ crashed = FALSE
  /\ held = [c \in Contexts |-> {}]
  /\ drift = 0 /\ raced = FALSE

-----------------------------------------------------------------------------
(* Helpers *)

Goto(c, label) == pc' = [pc EXCEPT ![c] = label]

Return(c) ==
  /\ Goto(c, "idle")
  /\ arg' = [arg EXCEPT ![c] = 0]
  /\ stream' = [stream EXCEPT ![c] = None]
  /\ num' = [num EXCEPT ![c] = 0]

Gains(c, i) == held' = [held EXCEPT ![c] = @ \cup {i}]
Loses(c, i) == held' = [held EXCEPT ![c] = @ \ {i}]

\* get_FILE_nolock, for an index of the table
get_FILE(i) == IF i \in Std /\ ptrs[i] = None THEN i ELSE ptrs[i]

Occupied == {i \in Slots : ptrs[i] # None}

IsFirstFree(i) ==
  /\ i \in Slots \ Occupied
  /\ \A j \in Slots \ Occupied : i <= j

Lock(c, from, to) ==
  /\ pc[c] = from /\ file_mutex = None
  /\ file_mutex' = c
  /\ Goto(c, to)
  /\ UNCHANGED <<nr, ptrs, open, arg, stream, num, held, drift>>

\* Unlocks and writes the result to the local store.
Unlock(c) ==
  /\ file_mutex' = None
  /\ Return(c)

-----------------------------------------------------------------------------
(* The call: the dispatch of default_c99_handler to an operation.  A       *)
(* program passes an index it holds, or that of a standard stream.         *)

Call(c, op, i) ==
  /\ pc[c] = "idle"
  /\ \/ op \in {"fopen", "tmpfile"} /\ i = 0 /\ UNCHANGED held
     \/ op = "freopen" /\ i \in held[c] \cup Std /\ UNCHANGED held
     \/ op = "fclose" /\ i \in held[c] /\ Loses(c, i)
     \/ op = "fclose" /\ i \in Std \cap open /\ nr > MinNr /\ UNCHANGED held
     \/ op \in StreamOps /\ i \in held[c] \cup Std /\ UNCHANGED held
     \/ <<op, i>> \in StdOps /\ UNCHANGED held
  /\ Goto(c, IF op \in DOMAIN First THEN First[op] ELSE "stream_get")
  /\ arg' = [arg EXCEPT ![c] = i]
  /\ UNCHANGED <<c99_table, stream, num, drift>>

-----------------------------------------------------------------------------
(* fopen *)

\* Mutation: the search does not look whether the mutex is held.
FopenLock_Never(c) ==
  /\ pc[c] = "fopen_lock"
  /\ Goto(c, "fopen_find")
  /\ UNCHANGED <<c99_table, arg, stream, num, held, drift>>

FopenLock(c) == Lock(c, "fopen_lock", "fopen_find")

FopenFind(c) ==
  /\ pc[c] = "fopen_find"
  /\ \/ /\ nr < SPE_FOPEN_MAX
        /\ \E i \in Indices : IsFirstFree(i) /\ arg' = [arg EXCEPT ![c] = i]
        /\ Goto(c, "fopen_open")
        /\ UNCHANGED <<file_mutex, stream, num>>
     \/ /\ nr >= SPE_FOPEN_MAX \/ Occupied = Slots
        /\ Unlock(c)
  /\ UNCHANGED <<nr, ptrs, open, held, drift>>

FopenOpen(c) ==
  LET i == arg[c] IN
  /\ pc[c] = "fopen_open"
  /\ \/ /\ \E f \in Files \ open :
             /\ open' = open \cup {f}
             /\ ptrs' = [ptrs EXCEPT ![i] = f]
        /\ nr' = nr + 1
        /\ Gains(c, i)
     \/ UNCHANGED <<open, ptrs, nr, held>>
  /\ Unlock(c)
  /\ UNCHANGED <<drift>>

-----------------------------------------------------------------------------
(* tmpfile, which never takes the mutex *)

TmpFind(c) ==
  /\ pc[c] = "tmp_find"
  /\ \/ /\ nr < SPE_FOPEN_MAX
        /\ \E i \in Indices : IsFirstFree(i) /\ arg' = [arg EXCEPT ![c] = i]
        /\ Goto(c, "tmp_open")
        /\ UNCHANGED <<stream, num>>
     \/ /\ nr >= SPE_FOPEN_MAX \/ Occupied = Slots
        /\ Return(c)
  /\ UNCHANGED <<c99_table, held, drift>>

\* The result of tmpfile() is stored in the table, NULL included.
TmpOpen(c) ==
  LET i == arg[c] IN
  /\ pc[c] = "tmp_open"
  /\ \/ /\ \E f \in Files \ open :
             /\ open' = open \cup {f}
             /\ ptrs' = [ptrs EXCEPT ![i] = f]
        /\ Gains(c, i)
        /\ Goto(c, "tmp_load")
        /\ UNCHANGED <<arg, stream, num>>
     \/ /\ ptrs' = [ptrs EXCEPT ![i] = None]
        /\ Return(c)
        /\ UNCHANGED <<open, held>>
  /\ UNCHANGED <<file_mutex, nr, drift>>

\* nr_spe_FILE_ptrs++ without the mutex: a load and a store
TmpLoad(c) ==
  /\ pc[c] = "tmp_load"
  /\ num' = [num EXCEPT ![c] = nr]
  /\ Goto(c, "tmp_store")
  /\ UNCHANGED <<c99_table, arg, stream, held, drift>>

TmpStore(c) ==
  /\ pc[c] = "tmp_store"
  /\ nr' = num[c] + 1
  /\ Return(c)
  /\ UNCHANGED <<file_mutex, ptrs, open, held, drift>>

-----------------------------------------------------------------------------
(* freopen *)

FreopenLock(c) == Lock(c, "freopen_lock", "freopen")

\* freopen() closes the stream first, so a failure leaves it closed; the slot
\* is cleared then, but still counted.
Freopen(c) ==
  LET i == arg[c]
      f == get_FILE(i)
  IN
  /\ pc[c] = "freopen"
  /\ \/ /\ ptrs' = [ptrs EXCEPT ![i] = f]
        /\ open' = (open \cup {f}) \ {None}
        /\ UNCHANGED <<held, drift>>
     \/ /\ ptrs' = [ptrs EXCEPT ![i] = None]
        /\ open' = open \ {f}
        /\ Loses(c, i)
        /\ drift' = IF i \in Slots THEN drift + 1 ELSE drift
  /\ Unlock(c)
  /\ UNCHANGED nr

-----------------------------------------------------------------------------
(* fclose *)

\* get_FILE, a critical section of its own
GetFile(c, from, to) ==
  /\ pc[c] = from /\ file_mutex = None
  /\ stream' = [stream EXCEPT ![c] = get_FILE(arg[c])]
  /\ Goto(c, to)
  /\ UNCHANGED <<c99_table, arg, num, held, drift>>

FcloseGet(c) == GetFile(c, "fclose_get", "fclose_lock")

FcloseLock(c) == Lock(c, "fclose_lock", "fclose")

\* Mutation: the counter is not taken back.
Fclose_KeepsCount(c) ==
  /\ pc[c] = "fclose"
  /\ ptrs' = [ptrs EXCEPT ![arg[c]] = None]
  /\ open' = open \ {stream[c]}
  /\ Unlock(c)
  /\ UNCHANGED <<nr, held, drift>>

\* A failed fclose() has closed the stream too, but keeps its slot.
Fclose(c) ==
  /\ pc[c] = "fclose"
  /\ open' = open \ {stream[c]}
  /\ \/ /\ ptrs' = [ptrs EXCEPT ![arg[c]] = None]
        /\ nr' = nr - 1
        /\ drift' = IF arg[c] \in Std THEN drift - 1 ELSE drift
     \/ UNCHANGED <<ptrs, nr, drift>>
  /\ Unlock(c)
  /\ UNCHANGED held

-----------------------------------------------------------------------------
(* Every other operation on a stream: get_FILE, then the C library without *)
(* the mutex                                                               *)

StreamGet(c) == GetFile(c, "stream_get", "stream")

StreamUse(c) ==
  /\ pc[c] = "stream"
  /\ Return(c)
  /\ UNCHANGED <<c99_table, held, drift>>

-----------------------------------------------------------------------------
InTmpfile(c) == pc[c] \in {"tmp_open", "tmp_load", "tmp_store"}
Overlap == \E c, d \in Contexts : c # d /\ InTmpfile(c) /\ (InTmpfile(d) \/ file_mutex = d)

Handler(c) ==
  \/ FopenLock(c) \/ FopenFind(c) \/ FopenOpen(c)
  \/ TmpFind(c) \/ TmpOpen(c) \/ TmpLoad(c) \/ TmpStore(c)
  \/ FreopenLock(c) \/ Freopen(c)
  \/ FcloseGet(c) \/ FcloseLock(c) \/ Fclose(c)
  \/ StreamGet(c) \/ StreamUse(c)

\* A step passes NULL to the C library for a stream.
PassesNull(c) == \/ pc[c] = "freopen" /\ get_FILE(arg[c]) = None
                 \/ pc[c] \in {"fclose", "stream"} /\ stream[c] = None

\* A crash ends the process.
Next ==
  /\ ~crashed
  /\ \E c \in Contexts :
       /\ \/ \E op \in Operations, i \in Indices \cup {0} : Call(c, op, i)
          \/ Handler(c)
       /\ crashed' = PassesNull(c)
  /\ raced' = (raced \/ Overlap')

Spec == Init /\ [][Next]_c99_vars

-----------------------------------------------------------------------------
(* Properties *)

TypeOK ==
  /\ file_mutex \in Contexts \cup {None}
  /\ nr \in Int
  /\ ptrs \in [Indices -> Std \cup Files \cup {None}]
  /\ open \subseteq Std \cup Files
  /\ pc \in [Contexts -> {"idle", "fopen_lock", "fopen_find", "fopen_open",
                          "tmp_find", "tmp_open", "tmp_load", "tmp_store",
                          "freopen_lock", "freopen", "fclose_get",
                          "fclose_lock", "fclose", "stream_get", "stream"}]
  /\ arg \in [Contexts -> Indices \cup {0}]
  /\ stream \in [Contexts -> Std \cup Files \cup {None}]
  /\ num \in [Contexts -> Int]
  /\ crashed \in BOOLEAN
  /\ held \in [Contexts -> SUBSET Slots]
  /\ drift \in Int
  /\ raced \in BOOLEAN

\* What a program was given stays its own: the stream behind each index it
\* holds is open, and no other index of any program leads to it.  So the stream
\* an operation uses after get_FILE released the mutex is still open (the
\* standard streams are shared, and one program may close them under another),
\* and no handler passes NULL to the C library.
OwnStreams ==
  ~raced =>
    /\ ~crashed
    /\ \A c, d \in Contexts : c # d => held[c] \cap held[d] = {}
    /\ \A c \in Contexts : \A i \in held[c] :
         /\ ptrs[i] \in open
         /\ \A d \in Contexts : \A j \in held[d] : ptrs[j] = ptrs[i] => j = i
    /\ \A c \in Contexts :
         pc[c] \in {"stream", "fclose_lock", "fclose"} /\ arg[c] \in Slots
           => stream[c] \in open /\ stream[c] = ptrs[arg[c]]

\* Every stream that was opened can still be closed by a program.
NoLostStream ==
  ~raced => \A f \in open \cap Files : \E c \in Contexts :
              \/ \E i \in held[c] : ptrs[i] = f
              \/ pc[c] \in {"fclose_get", "fclose_lock", "fclose"} /\ ptrs[arg[c]] = f

\* The counter is the number of streams in the table, but for the failures of
\* freopen (counted though the slot is free) and the standard streams that
\* were closed (never counted, but taken off).
CountsStreams ==
  ~raced /\ (\A c \in Contexts : ~InTmpfile(c)) => nr = 3 + Cardinality(Occupied) + drift
=============================================================================
