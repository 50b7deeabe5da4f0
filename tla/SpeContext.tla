----------------------------- MODULE SpeContext -----------------------------
(***************************************************************************)
(* The life of contexts and of a gang: spe_context_create and _destroy     *)
(* (src/libspe2.c) over _base_spe_context_create and free_spe_context      *)
(* (src/spebase/create.c), and spe_program_load (src/spebase/load.c).      *)
(*                                                                         *)
(* `held' is what the heap and the kernel keep for a context, `field' what *)
(* its struct says of it, from which alone free_spe_context knows what to  *)
(* give back: every system call may fail, and leaves the rest to it.  Each *)
(* context is used by one thread; what they share is the gang and the      *)
(* cached image of the loader for emulated isolation.  Which error is      *)
(* reported is not modelled.                                               *)
(***************************************************************************)
EXTENDS Naturals, Sequences, FiniteSets

CONSTANTS
  Contexts,
  FlagSets,   \* the flags contexts are created with
  Programs,
  MboxDepth,  \* entries of the inbound mailbox, 4 in the hardware
  MaxImages,  \* bound: images of the emulated loader opened at a time
  None

ASSUME ContextAssumption ==
  /\ FlagSets \subseteq SUBSET {"MAP_PS", "EVENTS_ENABLE", "CFG_SIGNOTIFY1_OR",
                                "CFG_SIGNOTIFY2_OR", "ISOLATE", "ISOLATE_EMULATE"}
  /\ MboxDepth \in Nat \ {0} /\ MaxImages \in Nat \ {0}
  /\ {None, "loader", "garbage"} \cap Programs = {}

Areas == {"mfc", "mss", "cntl", "signal1", "signal2"}
Mappings == Areas \cup {"mem", "psmap"}
Kinds == Mappings \cup {"dir", "spe", "priv", "event"}

VARIABLES
  pc,             \* where the thread of a context is; "none": no context
  flags,
  held,           \* external: what exists on behalf of a context
  field,          \* a mapping's base: "FAILED", "own", or "part" of psmap; dir
  event_private,
  or_mode,        \* external: signal registers in OR mode
  ls, mbox,       \* external: the program in the local store; the inbound
                  \* mailbox, each word by the parameter it is
  loaded_program, entry,
  ld_info,        \* the local of spe_program_load
  loaded,         \* history: the last spe_program_load succeeded
  loader, images, \* emulated_loader_program: its static, images opened
  gang, gang_held \* the gang: where its creation is, what it holds

create_vars == <<flags, held, field, event_private, or_mode>>
load_vars == <<ls, mbox, loaded_program, entry, ld_info, loaded>>
gang_vars == <<gang, gang_held>>
vars == <<pc, create_vars, load_vars, loader, images, gang_vars>>

NoFields == [k \in Mappings \cup {"dir"} |-> "FAILED"]

Init ==
  /\ pc = [c \in Contexts |-> "none"]
  /\ flags = [c \in Contexts |-> {}]
  /\ held = [c \in Contexts |-> {}]
  /\ field = [c \in Contexts |-> NoFields]
  /\ event_private = [c \in Contexts |-> FALSE]
  /\ or_mode = [c \in Contexts |-> {}]
  /\ ls = [c \in Contexts |-> None] /\ mbox = [c \in Contexts |-> <<>>]
  /\ loaded_program = [c \in Contexts |-> None]
  /\ entry = [c \in Contexts |-> "garbage"]
  /\ ld_info = [c \in Contexts |-> "garbage"]
  /\ loaded = [c \in Contexts |-> FALSE]
  /\ loader = None /\ images = 0
  /\ gang = "none" /\ gang_held = {}

At(c, label) == pc[c] = label
Goto(c, label) == pc' = [pc EXCEPT ![c] = label]
Holds(c, kinds) == held' = [held EXCEPT ![c] = @ \cup kinds]

-----------------------------------------------------------------------------
(* free_spe_context *)

Mapped(c, k) == field[c][k] # "FAILED"

\* Mutation: the areas are looked at whether or not psmap holds them.
Released_Areas(c) ==
  {k \in Mappings \cup {"dir"} : Mapped(c, k)} \cup {"priv", "spe"}

\* What free_spe_context gives back.
Released(c) ==
  (IF Mapped(c, "psmap") THEN {"psmap"} ELSE {k \in Areas : Mapped(c, k)})
    \cup {k \in {"mem", "dir"} : Mapped(c, k)} \cup {"priv", "spe"}

free_spe_context(c) ==
  /\ held' = [held EXCEPT ![c] = @ \ Released(c)]
  /\ field' = [field EXCEPT ![c] = NoFields]
  /\ Goto(c, "none")

\* The context is going: nothing is said of its local store any more.
Forget(c) ==
  /\ ls' = [ls EXCEPT ![c] = None] /\ mbox' = [mbox EXCEPT ![c] = <<>>]
  /\ loaded_program' = [loaded_program EXCEPT ![c] = None]
  /\ entry' = [entry EXCEPT ![c] = "garbage"]
  /\ loaded' = [loaded EXCEPT ![c] = FALSE]

-----------------------------------------------------------------------------
(* spe_context_create *)

\* For affinity to a neighbour spe_context_create_affinity asks for a gang.
Create(c, f, affinity) ==
  /\ At(c, "none") /\ gang \in {"none", "live"}
  /\ affinity => gang = "live" /\ \E n \in Contexts \ {c} : At(n, "live")
  /\ flags' = [flags EXCEPT ![c] = f \cup IF "ISOLATE" \in f THEN {"MAP_PS"} ELSE {}]
  /\ or_mode' = [or_mode EXCEPT ![c] = {}]
  /\ Goto(c, IF "ISOLATE_EMULATE" \in f THEN "create_loader" ELSE "spe")
  /\ UNCHANGED <<held, field, event_private, load_vars, loader, images, gang_vars>>

\* malloc of the context and of its private part
MallocSpe(c) ==
  /\ At(c, "spe")
  /\ \/ Holds(c, {"spe"}) /\ Goto(c, "priv")
     \/ UNCHANGED held /\ Goto(c, "none")
  /\ UNCHANGED <<flags, field, event_private, or_mode, load_vars, loader, images, gang_vars>>

MallocPriv(c) ==
  /\ At(c, "priv")
  /\ \/ Holds(c, {"priv"}) /\ Goto(c, "dir")
     \/ held' = [held EXCEPT ![c] = @ \ {"spe"}] /\ Goto(c, "none")
  /\ UNCHANGED <<flags, field, event_private, or_mode, load_vars, loader, images, gang_vars>>

\* One of the things that may fail, and then undoes all of it.
Acquire(c, k, next) ==
  \/ /\ Holds(c, {k})
     /\ field' = [field EXCEPT ![c][k] = "own"]
     /\ Goto(c, next)
  \/ free_spe_context(c)

SpuCreate(c) ==
  /\ At(c, "dir") /\ Acquire(c, "dir", "mem")
  /\ UNCHANGED <<flags, event_private, or_mode, load_vars, loader, images, gang_vars>>

MapMem(c) ==
  /\ At(c, "mem") /\ Acquire(c, "mem", IF "MAP_PS" \in flags[c] THEN "psmap" ELSE "signal1")
  /\ UNCHANGED <<flags, event_private, or_mode, load_vars, loader, images, gang_vars>>

\* One mapping for the whole problem state, if the kernel offers it.
MapPs(c) ==
  /\ At(c, "psmap")
  /\ \/ /\ Holds(c, {"psmap"})
        /\ field' = [field EXCEPT ![c] = [k \in DOMAIN @ |->
                       IF k = "psmap" THEN "own" ELSE IF k \in Areas THEN "part" ELSE @[k]]]
        /\ Goto(c, "signal1")
     \/ Goto(c, "areas") /\ UNCHANGED <<held, field>>
  /\ UNCHANGED <<flags, event_private, or_mode, load_vars, loader, images, gang_vars>>

\* All five are tried, whichever of them fails.
MapAreas(c, mapped) ==
  /\ At(c, "areas")
  /\ Holds(c, mapped)
  /\ field' = [field EXCEPT ![c] = [k \in DOMAIN @ |-> IF k \in mapped THEN "own" ELSE @[k]]]
  /\ Goto(c, "check")
  /\ UNCHANGED <<flags, event_private, or_mode, load_vars, loader, images, gang_vars>>

\* The mssync area is not checked.
CheckAreas(c) ==
  /\ At(c, "check")
  /\ IF \E k \in Areas \ {"mss"} : ~Mapped(c, k)
       THEN free_spe_context(c)
       ELSE Goto(c, "signal1") /\ UNCHANGED <<held, field>>
  /\ UNCHANGED <<flags, event_private, or_mode, load_vars, loader, images, gang_vars>>

\* setsignotify: a file that cannot be opened is an error, a failed write is not.
SetSigNotify(c, label, flag, next) ==
  /\ At(c, label)
  /\ IF flag \notin flags[c] THEN Goto(c, next) /\ UNCHANGED <<held, field, or_mode>>
     ELSE \/ or_mode' = [or_mode EXCEPT ![c] = @ \cup {flag}] /\ Goto(c, next) /\ UNCHANGED <<held, field>>
          \/ Goto(c, next) /\ UNCHANGED <<held, field, or_mode>>
          \/ free_spe_context(c) /\ UNCHANGED or_mode
  /\ UNCHANGED <<flags, event_private, load_vars, loader, images, gang_vars>>

SetSigNotify1(c) == SetSigNotify(c, "signal1", "CFG_SIGNOTIFY1_OR", "signal2")
SetSigNotify2(c) == SetSigNotify(c, "signal2", "CFG_SIGNOTIFY2_OR", "event")

\* The event layer, above the base layer; without it the base context goes.
InitializeEvents(c) ==
  /\ At(c, "event")
  /\ \/ /\ "EVENTS_ENABLE" \notin flags[c]
        /\ Goto(c, "live") /\ UNCHANGED <<held, field, event_private>>
     \/ /\ "EVENTS_ENABLE" \in flags[c]
        /\ Holds(c, {"event"})
        /\ event_private' = [event_private EXCEPT ![c] = TRUE]
        /\ Goto(c, "live") /\ UNCHANGED field
     \/ /\ "EVENTS_ENABLE" \in flags[c]
        /\ free_spe_context(c) /\ UNCHANGED event_private
  /\ UNCHANGED <<flags, or_mode, load_vars, loader, images, gang_vars>>

-----------------------------------------------------------------------------
(* spe_context_destroy *)

\* _event_spe_context_finalize
Finalize(c) ==
  /\ At(c, "live")
  /\ event_private' = [event_private EXCEPT ![c] = FALSE]
  /\ held' = [held EXCEPT ![c] = IF event_private[c] THEN @ \ {"event"} ELSE @]
  /\ Forget(c)
  /\ Goto(c, "destroy")
  /\ UNCHANGED <<flags, field, or_mode, ld_info, loader, images, gang_vars>>

Destroy(c) ==
  /\ At(c, "destroy")
  /\ free_spe_context(c)
  /\ UNCHANGED <<flags, event_private, or_mode, load_vars, loader, images, gang_vars>>

-----------------------------------------------------------------------------
(* emulated_loader_program, as called by the creation and the load of a      *)
(* context: the image is opened once, with no lock around its static         *)

LoaderCheck(c, label, opens, returns) ==
  /\ At(c, label)
  /\ Goto(c, IF loader = None THEN opens ELSE returns)
  /\ UNCHANGED <<create_vars, load_vars, loader, images, gang_vars>>

LoaderOpen(c, label, returns) ==
  /\ At(c, label)
  /\ \/ images < MaxImages /\ images' = images + 1 /\ loader' = "loader"
     \/ loader' = None /\ UNCHANGED images
  /\ Goto(c, returns)
  /\ UNCHANGED <<create_vars, load_vars, gang_vars>>

\* The static is read again for the result.
LoaderReturn(c, label, fails, next) ==
  /\ At(c, label)
  /\ Goto(c, IF loader = None THEN fails ELSE next)
  /\ UNCHANGED <<create_vars, load_vars, loader, images, gang_vars>>

emulated_loader_program(c) ==
  \/ LoaderCheck(c, "create_loader", "create_open", "create_return")
  \/ LoaderOpen(c, "create_open", "create_return")
  \/ LoaderReturn(c, "create_return", "none", "spe")
  \/ LoaderCheck(c, "load_loader", "load_open", "load_return")
  \/ LoaderOpen(c, "load_open", "load_return")
  \/ LoaderReturn(c, "load_return", "live", "loader_elf")

-----------------------------------------------------------------------------
(* spe_program_load *)

Load(c, p) ==
  /\ At(c, "live")
  /\ loaded_program' = [loaded_program EXCEPT ![c] = p]
  /\ loaded' = [loaded EXCEPT ![c] = FALSE]
  /\ Goto(c, IF "ISOLATE" \in flags[c] THEN "params"
             ELSE IF "ISOLATE_EMULATE" \in flags[c] THEN "load_loader" ELSE "elf")
  /\ UNCHANGED <<create_vars, ls, mbox, entry, ld_info, loader, images, gang_vars>>

Fails(c) == Goto(c, "live") /\ UNCHANGED <<ls, mbox, ld_info>>

\* The local of a call is gone with it; it is not initialised.
NoInfo(c) == ld_info' = [ld_info EXCEPT ![c] = "garbage"]

\* _base_spe_load_spe_elf refuses an image before it copies anything.
Copied(c, p) ==
  /\ ls' = [ls EXCEPT ![c] = p]
  /\ ld_info' = [ld_info EXCEPT ![c] = p]
  /\ UNCHANGED mbox

\* What the debugger is told, through a file that need not open, is left out.
LoadElf(c) ==
  /\ At(c, "elf")
  /\ \/ Copied(c, loaded_program[c]) /\ Goto(c, "loaded")
     \/ Fails(c)
  /\ UNCHANGED <<create_vars, loaded_program, entry, loaded, loader, images, gang_vars>>

LoadLoader(c) ==
  /\ At(c, "loader_elf")
  /\ \/ Copied(c, "loader") /\ Goto(c, "params")
     \/ Fails(c)
  /\ UNCHANGED <<create_vars, loaded_program, entry, loaded, loader, images, gang_vars>>

\* spe_start_isolated_app: the image is no isolated program, or the wbox file
\* cannot be opened.
Params(c) ==
  /\ At(c, "params")
  /\ \/ Goto(c, "addr_h") /\ UNCHANGED ld_info
     \/ Goto(c, "live") /\ NoInfo(c)
  /\ UNCHANGED <<create_vars, ls, mbox, loaded_program, entry, loaded, loader, images, gang_vars>>

Parameters == <<"addr_h", "addr_l", "size">>
AfterWord == [addr_h |-> "addr_l", addr_l |-> "size", size |-> "loaded"]

\* Each word of __write_isolated_load_params is a blocking write of its own.
WriteParam(c) ==
  /\ pc[c] \in DOMAIN AfterWord
  /\ \/ /\ Len(mbox[c]) < MboxDepth
        /\ mbox' = [mbox EXCEPT ![c] = Append(@, pc[c])]
        /\ Goto(c, AfterWord[pc[c]])
        /\ UNCHANGED ld_info
     \/ UNCHANGED mbox /\ Goto(c, "live") /\ NoInfo(c)
  /\ UNCHANGED <<create_vars, ls, loaded_program, entry, loaded, loader, images, gang_vars>>

\* Mutation: the entry of the first program stays.
Loaded_Once(c) ==
  /\ At(c, "loaded")
  /\ entry' = [entry EXCEPT ![c] = IF @ = "garbage" THEN ld_info[c] ELSE @]
  /\ loaded' = [loaded EXCEPT ![c] = TRUE]
  /\ Goto(c, "live") /\ NoInfo(c)
  /\ UNCHANGED <<create_vars, ls, mbox, loaded_program, loader, images, gang_vars>>

Loaded(c) ==
  /\ At(c, "loaded")
  /\ entry' = [entry EXCEPT ![c] = ld_info[c]]
  /\ loaded' = [loaded EXCEPT ![c] = TRUE]
  /\ Goto(c, "live") /\ NoInfo(c)
  /\ UNCHANGED <<create_vars, ls, mbox, loaded_program, loader, images, gang_vars>>

\* The loader runs and takes three words.
LoaderReads(c) ==
  /\ At(c, "live") /\ loaded[c] /\ Len(mbox[c]) >= 3
  /\ mbox' = [mbox EXCEPT ![c] = SubSeq(@, 4, Len(@))]
  /\ UNCHANGED <<pc, create_vars, ls, loaded_program, entry, ld_info, loaded,
                 loader, images, gang_vars>>

-----------------------------------------------------------------------------
(* Gangs *)

\* The calls for gangs have nothing but the directory in common with the others
\* and are not interleaved with them; contexts in a gang live on without it.
Idle == \A c \in Contexts : pc[c] \in {"none", "live"}

free_spe_gang_context == gang' = "none" /\ gang_held' = {}

\* _base_spe_gang_context_create: two allocations, then spu_create.
GangAcquire(label, k, next) ==
  /\ gang = label /\ Idle
  /\ \/ gang' = next /\ gang_held' = gang_held \cup {k}
     \/ free_spe_gang_context
  /\ UNCHANGED <<pc, create_vars, load_vars, loader, images>>

GangCreate ==
  \/ GangAcquire("none", "gctx", "priv")
  \/ GangAcquire("priv", "pgctx", "dir")
  \/ GangAcquire("dir", "dir", "live")

GangDestroy ==
  /\ gang = "live" /\ Idle
  /\ free_spe_gang_context
  /\ UNCHANGED <<pc, create_vars, load_vars, loader, images>>

-----------------------------------------------------------------------------
CreateStep(c) ==
  \/ MallocSpe(c) \/ MallocPriv(c) \/ SpuCreate(c) \/ MapMem(c) \/ MapPs(c)
  \/ \E mapped \in SUBSET Areas : MapAreas(c, mapped)
  \/ CheckAreas(c) \/ SetSigNotify1(c) \/ SetSigNotify2(c) \/ InitializeEvents(c)

LoadStep(c) ==
  \/ LoadElf(c) \/ LoadLoader(c) \/ Params(c) \/ WriteParam(c) \/ Loaded(c)

Next ==
  \/ \E c \in Contexts :
       \/ \E f \in FlagSets, affinity \in BOOLEAN : Create(c, f, affinity)
       \/ CreateStep(c) \/ emulated_loader_program(c)
       \/ Finalize(c) \/ Destroy(c)
       \/ \E p \in Programs : Load(c, p)
       \/ LoadStep(c) \/ LoaderReads(c)
  \/ GangCreate \/ GangDestroy

Spec == Init /\ [][Next]_vars

-----------------------------------------------------------------------------
(* Properties *)

Labels == {"none", "create_loader", "create_open", "create_return", "spe", "priv",
           "dir", "mem", "psmap", "areas", "check", "signal1", "signal2", "event",
           "live", "load_loader", "load_open", "load_return", "loader_elf", "elf",
           "params", "addr_h", "addr_l", "size", "loaded", "destroy"}
Images == Programs \cup {None, "loader"}

\* Every variable has its type.
TypeOK ==
  /\ pc \in [Contexts -> Labels]
  /\ flags \in [Contexts -> SUBSET {"MAP_PS", "EVENTS_ENABLE", "CFG_SIGNOTIFY1_OR",
                                   "CFG_SIGNOTIFY2_OR", "ISOLATE", "ISOLATE_EMULATE"}]
  /\ held \in [Contexts -> SUBSET Kinds]
  /\ field \in [Contexts -> [Mappings \cup {"dir"} -> {"FAILED", "own", "part"}]]
  /\ event_private \in [Contexts -> BOOLEAN] /\ loaded \in [Contexts -> BOOLEAN]
  /\ or_mode \in [Contexts -> SUBSET {"CFG_SIGNOTIFY1_OR", "CFG_SIGNOTIFY2_OR"}]
  /\ ls \in [Contexts -> Images] /\ loaded_program \in [Contexts -> Programs \cup {None}]
  /\ {entry, ld_info} \subseteq [Contexts -> Images \cup {"garbage"}]
  /\ mbox \in [Contexts -> Seq({"addr_h", "addr_l", "size"})]
  /\ \A c \in Contexts : Len(mbox[c]) <= MboxDepth
  /\ loader \in {None, "loader"} /\ images \in 0 .. MaxImages
  /\ gang \in {"none", "priv", "dir", "live"} /\ gang_held \subseteq {"gctx", "pgctx", "dir"}

HasPriv(c) ==
  pc[c] \notin {"none", "create_loader", "create_open", "create_return", "spe", "priv"}

\* Whatever step fails, the fields of the struct say exactly what there is to
\* give back: free_spe_context leaves nothing behind and gives nothing back
\* twice, with one mapping of the problem state or five, with and without the
\* event layer; and no context or gang that is gone holds anything.
Accounted ==
  /\ \A c \in Contexts :
       held[c] = IF HasPriv(c)
                   THEN Released(c) \cup (IF event_private[c] THEN {"event"} ELSE {})
                   ELSE IF At(c, "priv") THEN {"spe"} ELSE {}
  /\ gang = "none" <=> gang_held = {}

\* After a load that succeeded the context starts at the entry of the program
\* that lies in its local store: the one asked for, or the loader of emulated
\* isolation, whatever was loaded before and whichever loads failed.
EntryIsLoaded ==
  \A c \in Contexts : At(c, "live") /\ loaded[c] /\ "ISOLATE" \notin flags[c] =>
    /\ entry[c] = ls[c]
    /\ ls[c] = IF "ISOLATE_EMULATE" \in flags[c] THEN "loader" ELSE loaded_program[c]

\* "Map the required areas": with SPE_MAP_PS every area is mapped.
AreasComplete ==
  \A c \in Contexts : At(c, "live") /\ "MAP_PS" \in flags[c] => \A k \in Areas : Mapped(c, k)

\* A context is created with its signal registers in the mode it asks for.
SignalModes ==
  \A c \in Contexts : At(c, "live") =>
    or_mode[c] = flags[c] \cap {"CFG_SIGNOTIFY1_OR", "CFG_SIGNOTIFY2_OR"}

\* "The loader binary is cached between calls."
LoaderOpenedOnce == images <= 1

\* The loader takes the three parameters of the program that was loaded.
LoaderGetsParameters ==
  [][\A c \in Contexts : LoaderReads(c) =>
       SubSeq(mbox[c], 1, 3) = Parameters]_vars
=============================================================================
