-------------------------- MODULE SpeContextProofs --------------------------
(***************************************************************************)
(* Proofs about SpeContext, for any number of contexts, flags and programs *)
(* and whichever system calls fail: nothing a context acquired is left     *)
(* behind or given back twice, and a context that was loaded starts at the *)
(* entry of what lies in its local store.                                  *)
(***************************************************************************)
EXTENDS SpeContext, SequenceTheorems, TLAPS

\* Before one of the ways to map the problem state has been taken.
Unmapping == {"mem", "psmap", "areas"}

\* Inside spe_program_load.
Parametrizing == {"params", "addr_h", "addr_l", "size"}
LoadingLoader == {"load_loader", "load_open", "load_return", "loader_elf"}
Loading == LoadingLoader \cup Parametrizing \cup {"elf", "loaded"}

\* A struct that is new says of nothing that it is there; the event layer is
\* there only while the context may be used.
Fields(c) ==
  /\ ~ HasPriv(c) \/ At(c, "dir") => field[c] = NoFields
  /\ pc[c] \in Unmapping => \A k \in Areas \cup {"psmap"} : ~ Mapped(c, k)
  /\ event_private[c] => pc[c] \in Loading \cup {"live"}

\* Accounted, of one context.
AccountedFor(c) ==
  held[c] = IF HasPriv(c)
              THEN Released(c) \cup (IF event_private[c] THEN {"event"} ELSE {})
              ELSE IF At(c, "priv") THEN {"spe"} ELSE {}

\* The image that belongs into the local store.
AskedFor(c) == IF "ISOLATE_EMULATE" \in flags[c] THEN "loader" ELSE loaded_program[c]

\* The local of spe_program_load describes the image in the local store until
\* the entry is taken from it.
Image(c) ==
  /\ loaded[c] => At(c, "live")
  /\ "ISOLATE" \notin flags[c] =>
       /\ loaded[c] => entry[c] = ls[c] /\ ls[c] = AskedFor(c)
       /\ At(c, "elf") => "ISOLATE_EMULATE" \notin flags[c]
       /\ pc[c] \in LoadingLoader \cup Parametrizing => "ISOLATE_EMULATE" \in flags[c]
       /\ pc[c] \in Parametrizing \cup {"loaded"} => ld_info[c] = ls[c] /\ ls[c] = AskedFor(c)

Part(c) == Fields(c) /\ AccountedFor(c) /\ Image(c)

GangAccounted == gang = "none" <=> gang_held = {}

IInv == TypeOK /\ (\A c \in Contexts : Part(c)) /\ GangAccounted

\* What a step of another context leaves alone.
Same(d) ==
  /\ pc'[d] = pc[d] /\ flags'[d] = flags[d] /\ held'[d] = held[d] /\ field'[d] = field[d]
  /\ event_private'[d] = event_private[d] /\ ls'[d] = ls[d]
  /\ loaded_program'[d] = loaded_program[d] /\ entry'[d] = entry[d]
  /\ ld_info'[d] = ld_info[d] /\ loaded'[d] = loaded[d]

\* A step that changes what a context holds keeps the account.
Sound(c) ==
  /\ pc' \in [Contexts -> Labels] /\ held' \in [Contexts -> SUBSET Kinds]
  /\ field' \in [Contexts -> [Mappings \cup {"dir"} -> {"FAILED", "own", "part"}]]
  /\ Part(c)' /\ \A d \in Contexts \ {c} : Same(d)

-----------------------------------------------------------------------------
\* What another context holds and runs is not touched.
LEMMA PartStays ==
  ASSUME NEW d \in Contexts, Part(d), Same(d)
  PROVE  Part(d)'
<1>1. Fields(d)' BY DEF Part, Same, Fields, HasPriv, At, Mapped
<1>2. Released(d)' = Released(d) BY DEF Same, Released, Mapped
<1>3. AccountedFor(d)' BY <1>2 DEF Part, Same, AccountedFor, HasPriv, At
<1>4. Image(d)' BY DEF Part, Same, Image, AskedFor, At
<1> QED BY <1>1, <1>3, <1>4 DEF Part

\* A step of one context preserves the invariant if it does so for this one.
LEMMA Local ==
  ASSUME IInv, NEW c \in Contexts, TypeOK', Part(c)',
         \A d \in Contexts \ {c} : Same(d), UNCHANGED gang_vars
  PROVE  IInv'
<1>1. \A d \in Contexts \ {c} : Part(d)' BY PartStays DEF IInv
<1>2. GangAccounted' BY DEF IInv, GangAccounted, gang_vars
<1> QED BY <1>1, <1>2 DEF IInv

\* What a context holds, when something is added to it.
LEMMA HoldsMore ==
  ASSUME TypeOK, NEW c \in Contexts, NEW kinds \in SUBSET Kinds, Holds(c, kinds)
  PROVE  /\ held' \in [Contexts -> SUBSET Kinds] /\ held'[c] = held[c] \cup kinds
         /\ \A d \in Contexts \ {c} : held'[d] = held[d]
<1>1. held[c] \cup kinds \in SUBSET Kinds BY DEF TypeOK
<1>2. held' = [held EXCEPT ![c] = held[c] \cup kinds] BY DEF Holds
<1> QED BY <1>1, <1>2 DEF TypeOK

\* Where creation gives up, and where destruction ends.
Freeing == {"dir", "mem", "check", "signal1", "signal2", "event", "destroy"}

\* free_spe_context leaves nothing of what is held.
LEMMA Free ==
  ASSUME IInv, NEW c \in Contexts, pc[c] \in Freeing, free_spe_context(c),
         UNCHANGED <<flags, event_private, load_vars>>
  PROVE  Sound(c)
<1>1. HasPriv(c) /\ ~ event_private[c] /\ ~ loaded[c]
  BY DEF IInv, Part, Fields, Image, HasPriv, At, Freeing, Loading, LoadingLoader, Parametrizing
<1>2. pc' \in [Contexts -> Labels] /\ pc'[c] = "none"
  BY DEF IInv, TypeOK, free_spe_context, Goto, Labels
<1>3. held' \in [Contexts -> SUBSET Kinds] /\ held'[c] = {}
  <2>1. held[c] = Released(c) BY <1>1 DEF IInv, Part, AccountedFor
  <2> QED BY <2>1 DEF IInv, TypeOK, free_spe_context
<1>4. NoFields \in [Mappings \cup {"dir"} -> {"FAILED", "own", "part"}] BY DEF NoFields
<1>5. /\ field' \in [Contexts -> [Mappings \cup {"dir"} -> {"FAILED", "own", "part"}]]
      /\ field'[c] = NoFields
  BY <1>4 DEF IInv, TypeOK, free_spe_context
<1>6. Part(c)'
  <2>1. Fields(c)'
    BY <1>1, <1>2, <1>5 DEF Fields, HasPriv, At, Unmapping
  <2>2. AccountedFor(c)' BY <1>2, <1>3 DEF AccountedFor, HasPriv, At
  <2>3. Image(c)' BY <1>1, <1>2 DEF Image, At, LoadingLoader, Parametrizing, load_vars
  <2> QED BY <2>1, <2>2, <2>3 DEF Part
<1>7. \A d \in Contexts \ {c} : Same(d)
  BY DEF IInv, TypeOK, free_spe_context, Goto, Same, load_vars
<1> QED BY <1>2, <1>3, <1>5, <1>6, <1>7 DEF Sound

LEMMA InitIInv == Init => IInv
<1> SUFFICES ASSUME Init PROVE IInv OBVIOUS
<1>1. NoFields \in [Mappings \cup {"dir"} -> {"FAILED", "own", "part"}] BY DEF NoFields
<1>2. TypeOK
  BY <1>1, ContextAssumption DEF Init, TypeOK, Labels, Images, Kinds
<1>3. ASSUME NEW c \in Contexts PROVE Part(c)
  BY DEF Init, Part, Fields, AccountedFor, Image, HasPriv, At, Unmapping,
         LoadingLoader, Parametrizing
<1>4. GangAccounted BY DEF Init, GangAccounted
<1> QED BY <1>2, <1>3, <1>4 DEF IInv

-----------------------------------------------------------------------------
(* spe_context_create *)

LEMMA CreateBegins ==
  ASSUME IInv, NEW c \in Contexts, NEW f \in FlagSets, NEW affinity \in BOOLEAN,
         Create(c, f, affinity)
  PROVE  IInv'
<1>1. TypeOK'
  <2>1. flags'[c] \in SUBSET {"MAP_PS", "EVENTS_ENABLE", "CFG_SIGNOTIFY1_OR",
                             "CFG_SIGNOTIFY2_OR", "ISOLATE", "ISOLATE_EMULATE"}
    BY ContextAssumption DEF IInv, TypeOK, Create
  <2>2. flags' = [flags EXCEPT ![c] = flags'[c]] BY DEF IInv, TypeOK, Create
  <2>3. flags' \in [Contexts -> SUBSET {"MAP_PS", "EVENTS_ENABLE", "CFG_SIGNOTIFY1_OR",
                                       "CFG_SIGNOTIFY2_OR", "ISOLATE", "ISOLATE_EMULATE"}]
    BY <2>1, <2>2 DEF IInv, TypeOK
  <2>4. pc' \in [Contexts -> Labels] BY DEF IInv, TypeOK, Create, Goto, Labels
  <2>5. or_mode' \in [Contexts -> SUBSET {"CFG_SIGNOTIFY1_OR", "CFG_SIGNOTIFY2_OR"}]
    BY DEF IInv, TypeOK, Create
  <2> QED BY <2>3, <2>4, <2>5 DEF IInv, TypeOK, Create, load_vars, gang_vars
<1>2. Part(c)'
  <2>1. pc'[c] \in {"create_loader", "spe"} BY DEF IInv, TypeOK, Create, Goto
  <2>2. field[c] = NoFields /\ ~ event_private[c] /\ held[c] = {} /\ ~ loaded[c]
    BY DEF IInv, Part, Fields, AccountedFor, Image, HasPriv, At, Create, Loading,
           LoadingLoader, Parametrizing
  <2>3. Fields(c)' BY <2>1, <2>2 DEF Fields, At, Create, Unmapping
  <2>4. AccountedFor(c)' BY <2>1, <2>2 DEF AccountedFor, HasPriv, At, Create
  <2>5. Image(c)'
    BY <2>1, <2>2 DEF Image, At, Create, LoadingLoader, Parametrizing, load_vars
  <2> QED BY <2>3, <2>4, <2>5 DEF Part
<1>3. \A d \in Contexts \ {c} : Same(d)
  BY DEF IInv, TypeOK, Same, Create, Goto, load_vars
<1> QED BY <1>1, <1>2, <1>3, Local DEF Create

LEMMA MallocSpeStep ==
  ASSUME IInv, NEW c \in Contexts, MallocSpe(c)
  PROVE  IInv'
<1>1. TypeOK'
  <2>1. held' \in [Contexts -> SUBSET Kinds]
    <3>1. {"spe"} \in SUBSET Kinds BY DEF Kinds
    <3> QED BY <3>1, HoldsMore DEF IInv, TypeOK, MallocSpe
  <2>2. pc' \in [Contexts -> Labels] BY DEF IInv, TypeOK, MallocSpe, Goto, Labels
  <2> QED BY <2>1, <2>2 DEF IInv, TypeOK, MallocSpe, load_vars, gang_vars
<1>2. Part(c)'
  <2>1. field[c] = NoFields /\ ~ event_private[c] /\ held[c] = {} /\ ~ loaded[c]
    BY DEF IInv, Part, Fields, AccountedFor, Image, HasPriv, At, MallocSpe, Loading,
           LoadingLoader, Parametrizing
  <2>2. \/ pc'[c] = "priv" /\ held'[c] = {"spe"}
        \/ pc'[c] = "none" /\ held'[c] = {}
    BY <2>1 DEF IInv, TypeOK, MallocSpe, Goto, Holds
  <2>3. Fields(c)' BY <2>1, <2>2 DEF Fields, At, MallocSpe, Unmapping
  <2>4. AccountedFor(c)' BY <2>2 DEF AccountedFor, HasPriv, At
  <2>5. Image(c)'
    BY <2>1, <2>2 DEF Image, At, MallocSpe, LoadingLoader, Parametrizing, load_vars
  <2> QED BY <2>3, <2>4, <2>5 DEF Part
<1>3. \A d \in Contexts \ {c} : Same(d)
  BY DEF IInv, TypeOK, Same, MallocSpe, Goto, Holds, load_vars
<1> QED BY <1>1, <1>2, <1>3, Local DEF MallocSpe

LEMMA MallocPrivStep ==
  ASSUME IInv, NEW c \in Contexts, MallocPriv(c)
  PROVE  IInv'
<1>1. TypeOK'
  <2>1. held' \in [Contexts -> SUBSET Kinds]
    <3>1. {"priv"} \in SUBSET Kinds /\ held[c] \ {"spe"} \in SUBSET Kinds
      BY DEF IInv, TypeOK, Kinds
    <3>2. held' = [held EXCEPT ![c] = @ \ {"spe"}] => held' \in [Contexts -> SUBSET Kinds]
      BY <3>1 DEF IInv, TypeOK
    <3> QED BY <3>1, <3>2, HoldsMore DEF IInv, MallocPriv
  <2>2. pc' \in [Contexts -> Labels] BY DEF IInv, TypeOK, MallocPriv, Goto, Labels
  <2> QED BY <2>1, <2>2 DEF IInv, TypeOK, MallocPriv, load_vars, gang_vars
<1>2. Part(c)'
  <2>1. field[c] = NoFields /\ ~ event_private[c] /\ held[c] = {"spe"} /\ ~ loaded[c]
    BY DEF IInv, Part, Fields, AccountedFor, Image, HasPriv, At, MallocPriv, Loading,
           LoadingLoader, Parametrizing
  <2>2. \/ pc'[c] = "dir" /\ held'[c] = {"spe", "priv"}
        \/ pc'[c] = "none" /\ held'[c] = {}
    BY <2>1 DEF IInv, TypeOK, MallocPriv, Goto, Holds
  <2>3. Fields(c)' BY <2>1, <2>2 DEF Fields, At, MallocPriv, Unmapping
  <2>4. AccountedFor(c)'
    <3>1. Released(c)' = {"priv", "spe"}
      BY <2>1 DEF Released, Mapped, NoFields, MallocPriv, Mappings, Areas
    <3> QED BY <2>1, <2>2, <3>1 DEF AccountedFor, HasPriv, At, MallocPriv
  <2>5. Image(c)'
    BY <2>1, <2>2 DEF Image, At, MallocPriv, LoadingLoader, Parametrizing, load_vars
  <2> QED BY <2>3, <2>4, <2>5 DEF Part
<1>3. \A d \in Contexts \ {c} : Same(d)
  BY DEF IInv, TypeOK, Same, MallocPriv, Goto, Holds, load_vars
<1> QED BY <1>1, <1>2, <1>3, Local DEF MallocPriv

\* One more thing is there, and its field says so.
LEMMA Acquired ==
  ASSUME IInv, NEW c \in Contexts, NEW k \in {"dir", "mem"}, pc[c] \in {"dir", "mem"},
         NEW next \in {"mem", "psmap", "signal1"}, Holds(c, {k}),
         field' = [field EXCEPT ![c][k] = "own"], Goto(c, next),
         UNCHANGED <<flags, event_private, load_vars>>
  PROVE  Sound(c)
<1>1. pc' \in [Contexts -> Labels] /\ pc'[c] = next BY DEF IInv, TypeOK, Goto, Labels
<1>2. k \in Mappings \cup {"dir"} /\ {k} \in SUBSET Kinds BY DEF Mappings, Areas, Kinds
<1>3. /\ held' \in [Contexts -> SUBSET Kinds] /\ held'[c] = held[c] \cup {k}
      /\ \A d \in Contexts \ {c} : held'[d] = held[d]
  BY <1>2, HoldsMore DEF IInv
<1>4. /\ field' \in [Contexts -> [Mappings \cup {"dir"} -> {"FAILED", "own", "part"}]]
      /\ field'[c] = [field[c] EXCEPT ![k] = "own"]
      /\ \A d \in Contexts \ {c} : field'[d] = field[d]
  BY <1>2 DEF IInv, TypeOK
<1>5. /\ \A j \in Areas \cup {"psmap"} : field[c][j] = "FAILED"
      /\ ~ event_private[c] /\ ~ loaded[c] /\ held[c] = Released(c)
  <2>1. ~ event_private[c] /\ ~ loaded[c]
    BY DEF IInv, Part, Fields, Image, At, Loading, LoadingLoader, Parametrizing
  <2>2. held[c] = Released(c)
    BY <2>1 DEF IInv, Part, AccountedFor, HasPriv
  <2>3. \A j \in Areas \cup {"psmap"} : field[c][j] = "FAILED"
    BY DEF IInv, Part, Fields, At, Mapped, NoFields, Unmapping, Mappings
  <2> QED BY <2>1, <2>2, <2>3
<1>6. \A j \in Mappings \cup {"dir"} : field'[c][j] = IF j = k THEN "own" ELSE field[c][j]
  BY <1>2, <1>4 DEF IInv, TypeOK
<1>7. k \notin Areas \cup {"psmap"} BY DEF Areas
<1>8. \A j \in Areas \cup {"psmap"} : field'[c][j] = "FAILED"
  BY <1>5, <1>6, <1>7 DEF Mappings
<1>9. Fields(c)'
  BY <1>1, <1>5, <1>8 DEF Fields, HasPriv, At, Mapped
<1>10. Released(c)' = Released(c) \cup {k}
  <2>1. Released(c)' = {j \in {"mem", "dir"} : field'[c][j] # "FAILED"} \cup {"priv", "spe"}
    BY <1>8 DEF Released, Mapped
  <2>2. Released(c) = {j \in {"mem", "dir"} : field[c][j] # "FAILED"} \cup {"priv", "spe"}
    BY <1>5 DEF Released, Mapped
  <2>3. \A j \in {"mem", "dir"} : field'[c][j] # "FAILED" <=> j = k \/ field[c][j] # "FAILED"
    BY <1>6 DEF Mappings
  <2> QED BY <2>1, <2>2, <2>3
<1>11. AccountedFor(c)' BY <1>1, <1>3, <1>5, <1>10 DEF AccountedFor, HasPriv
<1>12. Image(c)' BY <1>1, <1>5 DEF Image, At, LoadingLoader, Parametrizing, load_vars
<1>13. \A d \in Contexts \ {c} : Same(d)
  BY <1>3, <1>4 DEF IInv, TypeOK, Goto, Same, load_vars
<1> QED BY <1>1, <1>3, <1>4, <1>9, <1>11, <1>12, <1>13 DEF Sound, Part

LEMMA SpuCreateStep ==
  ASSUME IInv, NEW c \in Contexts, SpuCreate(c)
  PROVE  IInv'
<1>1. pc[c] = "dir" /\ Acquire(c, "dir", "mem") BY DEF SpuCreate, At
<1>2. UNCHANGED <<flags, event_private, load_vars>> BY DEF SpuCreate
<1>3. CASE free_spe_context(c)
  <2>1. Sound(c) BY <1>1, <1>2, <1>3, Free DEF Freeing
  <2>2. TypeOK' BY <2>1 DEF Sound, IInv, TypeOK, SpuCreate, load_vars, gang_vars
  <2> QED BY <2>1, <2>2, Local DEF Sound, SpuCreate
<1>4. CASE Holds(c, {"dir"}) /\ field' = [field EXCEPT ![c]["dir"] = "own"] /\ Goto(c, "mem")
  <2>1. Sound(c) BY <1>1, <1>2, <1>4, Acquired
  <2>2. TypeOK' BY <2>1 DEF Sound, IInv, TypeOK, SpuCreate, load_vars, gang_vars
  <2> QED BY <2>1, <2>2, Local DEF Sound, SpuCreate
<1> QED BY <1>1, <1>3, <1>4 DEF Acquire

LEMMA MapMemStep ==
  ASSUME IInv, NEW c \in Contexts, MapMem(c)
  PROVE  IInv'
<1> DEFINE next == IF "MAP_PS" \in flags[c] THEN "psmap" ELSE "signal1"
<1>1. pc[c] = "mem" /\ Acquire(c, "mem", next) BY DEF MapMem, At
<1>2. UNCHANGED <<flags, event_private, load_vars>> BY DEF MapMem
<1>3. CASE free_spe_context(c)
  <2>1. Sound(c) BY <1>1, <1>2, <1>3, Free DEF Freeing
  <2>2. TypeOK' BY <2>1 DEF Sound, IInv, TypeOK, MapMem, load_vars, gang_vars
  <2> QED BY <2>1, <2>2, Local DEF Sound, MapMem
<1>4. CASE Holds(c, {"mem"}) /\ field' = [field EXCEPT ![c]["mem"] = "own"] /\ Goto(c, next)
  <2>1. Sound(c) BY <1>1, <1>2, <1>4, Acquired
  <2>2. TypeOK' BY <2>1 DEF Sound, IInv, TypeOK, MapMem, load_vars, gang_vars
  <2> QED BY <2>1, <2>2, Local DEF Sound, MapMem
<1> QED BY <1>1, <1>3, <1>4 DEF Acquire

\* Nothing of the problem state is mapped yet.
LEMMA NothingMapped ==
  ASSUME IInv, NEW c \in Contexts, pc[c] \in Unmapping
  PROVE  /\ \A k \in Areas \cup {"psmap"} : field[c][k] = "FAILED"
         /\ ~ event_private[c] /\ ~ loaded[c] /\ held[c] = Released(c)
<1>1. ~ event_private[c] /\ ~ loaded[c]
  BY DEF IInv, Part, Fields, Image, At, Unmapping, Loading, LoadingLoader, Parametrizing
<1>2. held[c] = Released(c)
  BY <1>1 DEF IInv, Part, AccountedFor, HasPriv, Unmapping
<1>3. \A k \in Areas \cup {"psmap"} : field[c][k] = "FAILED"
  BY DEF IInv, Part, Fields, Mapped
<1> QED BY <1>1, <1>2, <1>3

LEMMA MapPsStep ==
  ASSUME IInv, NEW c \in Contexts, MapPs(c)
  PROVE  IInv'
<1>a. /\ \A k \in Areas \cup {"psmap"} : field[c][k] = "FAILED"
      /\ ~ event_private[c] /\ ~ loaded[c] /\ held[c] = Released(c)
  BY NothingMapped DEF MapPs, At, Unmapping
<1>b. pc' \in [Contexts -> Labels] /\ pc'[c] \in {"signal1", "areas"}
  BY DEF IInv, TypeOK, MapPs, Goto, Labels
<1>c. Image(c)'
  BY <1>a, <1>b DEF Image, At, LoadingLoader, Parametrizing, load_vars, MapPs
<1>1. CASE Goto(c, "areas") /\ UNCHANGED <<held, field>>
  <2>1. TypeOK' BY <1>1, <1>b DEF IInv, TypeOK, MapPs, load_vars, gang_vars
  <2>2. pc'[c] = "areas" BY <1>1 DEF IInv, TypeOK, Goto
  <2>3. Fields(c)'
    BY <1>1, <1>a, <2>2 DEF Fields, HasPriv, At, Mapped, MapPs, Unmapping
  <2>4. Released(c)' = Released(c) BY <1>1 DEF Released, Mapped
  <2>5. AccountedFor(c)' BY <1>1, <1>a, <2>2, <2>4 DEF AccountedFor, HasPriv, MapPs
  <2>6. \A d \in Contexts \ {c} : Same(d)
    BY <1>1 DEF IInv, TypeOK, Goto, Same, MapPs, load_vars
  <2> QED BY <1>c, <2>1, <2>3, <2>5, <2>6, Local DEF Part, MapPs
<1>2. CASE /\ Holds(c, {"psmap"})
           /\ field' = [field EXCEPT ![c] = [k \in DOMAIN @ |->
                          IF k = "psmap" THEN "own" ELSE IF k \in Areas THEN "part" ELSE @[k]]]
           /\ Goto(c, "signal1")
  <2>1. {"psmap"} \in SUBSET Kinds BY DEF Kinds, Mappings
  <2>2. /\ held' \in [Contexts -> SUBSET Kinds] /\ held'[c] = held[c] \cup {"psmap"}
        /\ \A d \in Contexts \ {c} : held'[d] = held[d]
    BY <1>2, <2>1, HoldsMore DEF IInv
  <2>3. /\ field' \in [Contexts -> [Mappings \cup {"dir"} -> {"FAILED", "own", "part"}]]
        /\ \A k \in Mappings \cup {"dir"} : field'[c][k] =
              IF k = "psmap" THEN "own" ELSE IF k \in Areas THEN "part" ELSE field[c][k]
        /\ \A d \in Contexts \ {c} : field'[d] = field[d]
    <3> DEFINE new == [k \in DOMAIN field[c] |->
                 IF k = "psmap" THEN "own" ELSE IF k \in Areas THEN "part" ELSE field[c][k]]
    <3>1. field[c] \in [Mappings \cup {"dir"} -> {"FAILED", "own", "part"}] BY DEF IInv, TypeOK
    <3>2. new \in [Mappings \cup {"dir"} -> {"FAILED", "own", "part"}] BY <3>1
    <3>3. field' = [field EXCEPT ![c] = new] BY <1>2
    <3>4. field' \in [Contexts -> [Mappings \cup {"dir"} -> {"FAILED", "own", "part"}]]
          /\ field'[c] = new /\ \A d \in Contexts \ {c} : field'[d] = field[d]
      BY <3>2, <3>3 DEF IInv, TypeOK
    <3> QED BY <3>1, <3>4
  <2>4. pc'[c] = "signal1" BY <1>2 DEF IInv, TypeOK, Goto
  <2>5. TypeOK' BY <1>b, <2>2, <2>3 DEF IInv, TypeOK, MapPs, load_vars, gang_vars
  <2>6. Fields(c)' BY <1>a, <2>4 DEF Fields, HasPriv, At, Unmapping, MapPs
  <2>7. Released(c)' = Released(c) \cup {"psmap"}
    <3>1. \A k \in {"mem", "dir"} : field'[c][k] = field[c][k]
      BY <2>3 DEF Mappings, Areas
    <3>2. Released(c)' = {"psmap"} \cup {k \in {"mem", "dir"} : field'[c][k] # "FAILED"}
                           \cup {"priv", "spe"}
      BY <2>3 DEF Released, Mapped, Mappings
    <3>3. Released(c) = {k \in {"mem", "dir"} : field[c][k] # "FAILED"} \cup {"priv", "spe"}
      BY <1>a DEF Released, Mapped
    <3> QED BY <3>1, <3>2, <3>3
  <2>8. AccountedFor(c)' BY <1>a, <2>2, <2>4, <2>7 DEF AccountedFor, HasPriv, MapPs
  <2>9. \A d \in Contexts \ {c} : Same(d)
    BY <1>2, <2>2, <2>3 DEF IInv, TypeOK, Goto, Same, MapPs, load_vars
  <2> QED BY <1>c, <2>5, <2>6, <2>8, <2>9, Local DEF Part, MapPs
<1> QED BY <1>1, <1>2 DEF MapPs

LEMMA MapAreasStep ==
  ASSUME IInv, NEW c \in Contexts, NEW mapped \in SUBSET Areas, MapAreas(c, mapped)
  PROVE  IInv'
<1>1. /\ \A k \in Areas \cup {"psmap"} : field[c][k] = "FAILED"
      /\ ~ event_private[c] /\ ~ loaded[c] /\ held[c] = Released(c)
  BY NothingMapped DEF MapAreas, At, Unmapping
<1>2. pc' \in [Contexts -> Labels] /\ pc'[c] = "check"
  BY DEF IInv, TypeOK, MapAreas, Goto, Labels
<1>3. mapped \in SUBSET Kinds BY DEF Kinds, Mappings
<1>4. /\ held' \in [Contexts -> SUBSET Kinds] /\ held'[c] = held[c] \cup mapped
      /\ \A d \in Contexts \ {c} : held'[d] = held[d]
  BY <1>3, HoldsMore DEF IInv, MapAreas
<1>5. /\ field' \in [Contexts -> [Mappings \cup {"dir"} -> {"FAILED", "own", "part"}]]
      /\ \A k \in Mappings \cup {"dir"} :
            field'[c][k] = IF k \in mapped THEN "own" ELSE field[c][k]
      /\ \A d \in Contexts \ {c} : field'[d] = field[d]
  <2> DEFINE new == [k \in DOMAIN field[c] |-> IF k \in mapped THEN "own" ELSE field[c][k]]
  <2>1. field[c] \in [Mappings \cup {"dir"} -> {"FAILED", "own", "part"}] BY DEF IInv, TypeOK
  <2>2. new \in [Mappings \cup {"dir"} -> {"FAILED", "own", "part"}] BY <2>1
  <2>3. field' = [field EXCEPT ![c] = new] BY DEF MapAreas
  <2>4. field' \in [Contexts -> [Mappings \cup {"dir"} -> {"FAILED", "own", "part"}]]
        /\ field'[c] = new /\ \A d \in Contexts \ {c} : field'[d] = field[d]
    BY <2>2, <2>3 DEF IInv, TypeOK
  <2> QED BY <2>1, <2>4
<1>6. TypeOK' BY <1>2, <1>4, <1>5 DEF IInv, TypeOK, MapAreas, load_vars, gang_vars
<1>7. Fields(c)' BY <1>1, <1>2 DEF Fields, HasPriv, At, Unmapping, MapAreas
<1>8. Released(c)' = Released(c) \cup mapped
  <2>1. \A k \in {"mem", "dir", "psmap"} : k \notin mapped /\ field'[c][k] = field[c][k]
    BY <1>5 DEF Mappings, Areas
  <2>2. Released(c)' = {k \in Areas : field'[c][k] # "FAILED"}
                         \cup {k \in {"mem", "dir"} : field'[c][k] # "FAILED"} \cup {"priv", "spe"}
    BY <1>1, <2>1 DEF Released, Mapped
  <2>3. Released(c) = {k \in {"mem", "dir"} : field[c][k] # "FAILED"} \cup {"priv", "spe"}
    BY <1>1 DEF Released, Mapped
  <2>4. {k \in Areas : field'[c][k] # "FAILED"} = mapped
    BY <1>1, <1>5 DEF Mappings
  <2> QED BY <2>1, <2>2, <2>3, <2>4
<1>9. AccountedFor(c)' BY <1>1, <1>2, <1>4, <1>8 DEF AccountedFor, HasPriv, MapAreas
<1>10. Image(c)'
  BY <1>1, <1>2 DEF Image, At, LoadingLoader, Parametrizing, load_vars, MapAreas
<1>11. \A d \in Contexts \ {c} : Same(d)
  BY <1>4, <1>5 DEF IInv, TypeOK, Goto, Same, MapAreas, load_vars
<1> QED BY <1>6, <1>7, <1>9, <1>10, <1>11, Local DEF Part, MapAreas

\* Creation goes on without having acquired anything.
LEMMA Onward ==
  ASSUME IInv, NEW c \in Contexts, pc[c] \in {"check", "signal1", "signal2", "event"},
         NEW next \in {"signal1", "signal2", "event", "live"}, Goto(c, next),
         UNCHANGED <<flags, held, field, event_private, load_vars>>
  PROVE  Sound(c)
<1>1. pc' \in [Contexts -> Labels] /\ pc'[c] = next BY DEF IInv, TypeOK, Goto, Labels
<1>2. ~ event_private[c] /\ ~ loaded[c] /\ HasPriv(c)
  BY DEF IInv, Part, Fields, Image, HasPriv, At, Loading, LoadingLoader, Parametrizing
<1>3. Fields(c)' BY <1>1, <1>2 DEF Fields, HasPriv, At, Unmapping
<1>4. AccountedFor(c)'
  BY <1>1, <1>2 DEF IInv, Part, AccountedFor, HasPriv, Released, Mapped
<1>5. Image(c)' BY <1>1, <1>2 DEF Image, At, LoadingLoader, Parametrizing, load_vars
<1>6. \A d \in Contexts \ {c} : Same(d)
  BY DEF IInv, TypeOK, Goto, Same, load_vars
<1> QED BY <1>1, <1>3, <1>4, <1>5, <1>6 DEF IInv, TypeOK, Sound, Part

LEMMA CheckAreasStep ==
  ASSUME IInv, NEW c \in Contexts, CheckAreas(c)
  PROVE  IInv'
<1>1. pc[c] = "check" /\ UNCHANGED <<flags, event_private, load_vars>> BY DEF CheckAreas, At
<1>2. Sound(c)
  <2>1. CASE free_spe_context(c) BY <1>1, <2>1, Free DEF Freeing
  <2>2. CASE Goto(c, "signal1") /\ UNCHANGED <<held, field>> BY <1>1, <2>2, Onward
  <2> QED BY <2>1, <2>2 DEF CheckAreas
<1>3. TypeOK' BY <1>2 DEF Sound, IInv, TypeOK, CheckAreas, load_vars, gang_vars
<1> QED BY <1>2, <1>3, Local DEF Sound, CheckAreas

LEMMA SetSigNotifyStep ==
  ASSUME IInv, NEW c \in Contexts, NEW label \in {"signal1", "signal2"},
         NEW next \in {"signal2", "event"},
         NEW flag \in {"CFG_SIGNOTIFY1_OR", "CFG_SIGNOTIFY2_OR"},
         SetSigNotify(c, label, flag, next)
  PROVE  IInv'
<1>1. pc[c] = label /\ UNCHANGED <<flags, event_private, load_vars>> BY DEF SetSigNotify, At
<1>2. Sound(c)
  <2>1. CASE free_spe_context(c) BY <1>1, <2>1, Free DEF Freeing
  <2>2. CASE Goto(c, next) /\ UNCHANGED <<held, field>> BY <1>1, <2>2, Onward
  <2> QED BY <2>1, <2>2 DEF SetSigNotify
<1>3. or_mode' \in [Contexts -> SUBSET {"CFG_SIGNOTIFY1_OR", "CFG_SIGNOTIFY2_OR"}]
  <2>1. or_mode[c] \cup {flag} \in SUBSET {"CFG_SIGNOTIFY1_OR", "CFG_SIGNOTIFY2_OR"}
    BY DEF IInv, TypeOK
  <2>2. or_mode' = or_mode \/ or_mode' = [or_mode EXCEPT ![c] = or_mode[c] \cup {flag}]
    BY DEF SetSigNotify
  <2>3. or_mode \in [Contexts -> SUBSET {"CFG_SIGNOTIFY1_OR", "CFG_SIGNOTIFY2_OR"}]
    BY DEF IInv, TypeOK
  <2> QED BY <2>1, <2>2, <2>3
<1>4. TypeOK' BY <1>2, <1>3 DEF Sound, IInv, TypeOK, SetSigNotify, load_vars, gang_vars
<1> QED BY <1>2, <1>4, Local DEF Sound, SetSigNotify

LEMMA InitializeEventsStep ==
  ASSUME IInv, NEW c \in Contexts, InitializeEvents(c)
  PROVE  IInv'
<1>1. pc[c] = "event" /\ UNCHANGED <<flags, or_mode, load_vars, loader, images, gang_vars>>
  BY DEF InitializeEvents, At
<1>2. CASE free_spe_context(c) /\ UNCHANGED event_private
  <2>1. Sound(c) BY <1>1, <1>2, Free DEF Freeing
  <2>2. TypeOK' BY <1>1, <1>2, <2>1 DEF Sound, IInv, TypeOK, load_vars, gang_vars
  <2> QED BY <1>1, <2>1, <2>2, Local DEF Sound
<1>3. CASE Goto(c, "live") /\ UNCHANGED <<held, field, event_private>>
  <2>1. Sound(c) BY <1>1, <1>3, Onward
  <2>2. TypeOK' BY <1>1, <1>3, <2>1 DEF Sound, IInv, TypeOK, load_vars, gang_vars
  <2> QED BY <1>1, <2>1, <2>2, Local DEF Sound
<1>4. CASE /\ Holds(c, {"event"}) /\ event_private' = [event_private EXCEPT ![c] = TRUE]
           /\ Goto(c, "live") /\ UNCHANGED field
  <2>1. pc' \in [Contexts -> Labels] /\ pc'[c] = "live"
    BY <1>4 DEF IInv, TypeOK, Goto, Labels
  <2>2. {"event"} \in SUBSET Kinds BY DEF Kinds
  <2>3. /\ held' \in [Contexts -> SUBSET Kinds] /\ held'[c] = held[c] \cup {"event"}
        /\ \A d \in Contexts \ {c} : held'[d] = held[d]
    BY <1>4, <2>2, HoldsMore DEF IInv
  <2>4. event_private' \in [Contexts -> BOOLEAN] /\ event_private'[c]
    BY <1>4 DEF IInv, TypeOK
  <2>5. ~ event_private[c] /\ ~ loaded[c] /\ held[c] = Released(c)
    <3>1. ~ event_private[c] /\ ~ loaded[c]
      BY <1>1 DEF IInv, Part, Fields, Image, At, Loading, LoadingLoader, Parametrizing
    <3> QED BY <1>1, <3>1 DEF IInv, Part, AccountedFor, HasPriv
  <2>6. TypeOK' BY <1>1, <1>4, <2>1, <2>3, <2>4 DEF IInv, TypeOK, load_vars, gang_vars
  <2>7. Fields(c)' BY <2>1 DEF Fields, HasPriv, At, Unmapping
  <2>8. Released(c)' = Released(c) BY <1>4 DEF Released, Mapped
  <2>9. AccountedFor(c)' BY <2>1, <2>3, <2>4, <2>5, <2>8 DEF AccountedFor, HasPriv
  <2>10. Image(c)'
    BY <1>1, <2>1, <2>5 DEF Image, At, LoadingLoader, Parametrizing, load_vars
  <2>11. \A d \in Contexts \ {c} : Same(d)
    BY <1>1, <1>4, <2>3 DEF IInv, TypeOK, Goto, Same, load_vars
  <2> QED BY <1>1, <2>6, <2>7, <2>9, <2>10, <2>11, Local DEF Part
<1> QED BY <1>2, <1>3, <1>4 DEF InitializeEvents

-----------------------------------------------------------------------------
(* spe_context_destroy *)

LEMMA FinalizeStep ==
  ASSUME IInv, NEW c \in Contexts, Finalize(c)
  PROVE  IInv'
<1>1. pc' \in [Contexts -> Labels] /\ pc'[c] = "destroy" /\ pc[c] = "live"
  BY DEF IInv, TypeOK, Finalize, Goto, At, Labels
<1>2. held[c] = Released(c) \cup (IF event_private[c] THEN {"event"} ELSE {})
  BY <1>1 DEF IInv, Part, AccountedFor, HasPriv
<1>3. held' \in [Contexts -> SUBSET Kinds] /\ held'[c] = Released(c)
  <2>1. "event" \notin Released(c) BY DEF Released, Areas
  <2>2. /\ held' \in [Contexts -> SUBSET Kinds]
        /\ held'[c] = IF event_private[c] THEN held[c] \ {"event"} ELSE held[c]
    BY DEF IInv, TypeOK, Finalize
  <2> QED BY <1>2, <2>1, <2>2
<1>4. event_private' \in [Contexts -> BOOLEAN] /\ ~ event_private'[c]
      /\ loaded' \in [Contexts -> BOOLEAN] /\ ~ loaded'[c]
  BY DEF IInv, TypeOK, Finalize, Forget
<1>5. TypeOK'
  <2>1. ls' \in [Contexts -> Images] /\ loaded_program' \in [Contexts -> Programs \cup {None}]
    BY DEF IInv, TypeOK, Finalize, Forget, Images
  <2>2. entry' \in [Contexts -> Images \cup {"garbage"}]
    BY DEF IInv, TypeOK, Finalize, Forget, Images
  <2>3. mbox' \in [Contexts -> Seq({"addr_h", "addr_l", "size"})]
        /\ \A d \in Contexts : Len(mbox'[d]) <= MboxDepth
    <3>1. /\ mbox' \in [Contexts -> Seq({"addr_h", "addr_l", "size"})] /\ mbox'[c] = <<>>
          /\ \A d \in Contexts \ {c} : mbox'[d] = mbox[d]
      BY DEF IInv, TypeOK, Finalize, Forget
    <3>2. Len(<<>>) <= MboxDepth BY ContextAssumption
    <3>3. \A d \in Contexts : Len(mbox[d]) <= MboxDepth BY DEF IInv, TypeOK
    <3> QED BY <3>1, <3>2, <3>3
  <2> QED BY <1>1, <1>3, <1>4, <2>1, <2>2, <2>3 DEF IInv, TypeOK, Finalize, gang_vars
<1>6. Fields(c)' BY <1>1, <1>4 DEF Fields, HasPriv, At, Unmapping
<1>7. Released(c)' = Released(c) BY DEF Released, Mapped, Finalize
<1>8. AccountedFor(c)' BY <1>1, <1>3, <1>4, <1>7 DEF AccountedFor, HasPriv
<1>9. Image(c)' BY <1>1, <1>4 DEF Image, At, LoadingLoader, Parametrizing
<1>10. \A d \in Contexts \ {c} : Same(d)
  BY DEF IInv, TypeOK, Finalize, Forget, Goto, Same
<1> QED BY <1>5, <1>6, <1>8, <1>9, <1>10, Local DEF Part, Finalize

LEMMA DestroyStep ==
  ASSUME IInv, NEW c \in Contexts, Destroy(c)
  PROVE  IInv'
<1>1. Sound(c) BY Free DEF Destroy, At, Freeing
<1>2. TypeOK' BY <1>1 DEF Sound, IInv, TypeOK, Destroy, load_vars, gang_vars
<1> QED BY <1>1, <1>2, Local DEF Sound, Destroy

-----------------------------------------------------------------------------
(* emulated_loader_program *)

\* Where a context is that has not been allocated.
Unborn == {"none", "create_loader", "create_open", "create_return", "spe"}

\* The creation of a context goes from one call to the next, without a context.
LEMMA StaysUnborn ==
  ASSUME IInv, NEW c \in Contexts, pc[c] \in Unborn, NEW next \in Unborn,
         Goto(c, next), UNCHANGED <<create_vars, load_vars, gang_vars>>,
         loader' \in {None, "loader"}, images' \in 0 .. MaxImages
  PROVE  IInv'
<1>1. pc' \in [Contexts -> Labels] /\ pc'[c] = next
  BY DEF IInv, TypeOK, Goto, Labels, Unborn
<1>2. TypeOK' BY <1>1 DEF IInv, TypeOK, create_vars, load_vars, gang_vars
<1>3. field[c] = NoFields /\ ~ event_private[c] /\ held[c] = {} /\ ~ loaded[c]
  BY DEF IInv, Part, Fields, AccountedFor, Image, HasPriv, At, Unborn, Loading,
         LoadingLoader, Parametrizing
<1>4. Fields(c)' BY <1>1, <1>3 DEF Fields, At, Unborn, Unmapping, create_vars
<1>5. AccountedFor(c)' BY <1>1, <1>3 DEF AccountedFor, HasPriv, At, Unborn, create_vars
<1>6. Image(c)'
  BY <1>1, <1>3 DEF Image, At, Unborn, LoadingLoader, Parametrizing, load_vars
<1>7. \A d \in Contexts \ {c} : Same(d)
  BY DEF IInv, TypeOK, Goto, Same, create_vars, load_vars
<1> QED BY <1>2, <1>4, <1>5, <1>6, <1>7, Local DEF Part

\* A context that exists is loaded: what it holds stays.
LEMMA StaysBorn ==
  ASSUME IInv, NEW c \in Contexts, pc[c] \in Loading \cup {"live"},
         NEW next \in Loading \cup {"live"}, Goto(c, next), UNCHANGED create_vars,
         loaded' \in [Contexts -> BOOLEAN], ls' \in [Contexts -> Images],
         loaded_program' \in [Contexts -> Programs \cup {None}],
         entry' \in [Contexts -> Images \cup {"garbage"}],
         ld_info' \in [Contexts -> Images \cup {"garbage"}],
         mbox' \in [Contexts -> Seq({"addr_h", "addr_l", "size"})],
         \A d \in Contexts : Len(mbox'[d]) <= MboxDepth,
         loader' \in {None, "loader"}, images' \in 0 .. MaxImages, UNCHANGED gang_vars,
         Image(c)',
         \A d \in Contexts \ {c} :
           /\ ls'[d] = ls[d] /\ loaded_program'[d] = loaded_program[d] /\ entry'[d] = entry[d]
           /\ ld_info'[d] = ld_info[d] /\ loaded'[d] = loaded[d]
  PROVE  IInv'
<1>1. pc' \in [Contexts -> Labels] /\ pc'[c] = next
      /\ \A d \in Contexts \ {c} : pc'[d] = pc[d]
  BY DEF IInv, TypeOK, Goto, Labels, Loading, LoadingLoader, Parametrizing
<1>2. TypeOK' BY <1>1 DEF IInv, TypeOK, create_vars, gang_vars
<1>3. HasPriv(c) /\ HasPriv(c)' /\ next \notin Unmapping \cup {"dir"}
  BY <1>1 DEF HasPriv, Unmapping, Loading, LoadingLoader, Parametrizing
<1>4. Fields(c)' BY <1>1, <1>3 DEF Fields, At
<1>5. Released(c)' = Released(c) BY DEF Released, Mapped, create_vars
<1>6. AccountedFor(c)' BY <1>3, <1>5 DEF IInv, Part, AccountedFor, create_vars
<1>7. \A d \in Contexts \ {c} : Same(d)
  BY <1>1 DEF Same, create_vars
<1> QED BY <1>2, <1>4, <1>6, <1>7, Local DEF Part

LEMMA EmulatedLoaderStep ==
  ASSUME IInv, NEW c \in Contexts, emulated_loader_program(c)
  PROVE  IInv'
<1>1. ASSUME NEW label, NEW opens, NEW returns, NEW next \in {opens, returns},
             UNCHANGED <<create_vars, load_vars, gang_vars>>, pc[c] = label,
             loader' \in {None, "loader"}, images' \in 0 .. MaxImages, Goto(c, next),
             label \in LoadingLoader, opens \in LoadingLoader, returns \in LoadingLoader \cup {"live"}
      PROVE  IInv'
  <2>1. next \in LoadingLoader \cup {"live"} /\ pc'[c] = next
    BY <1>1 DEF IInv, TypeOK, Goto
  <2>2. ~ loaded[c] /\ ("ISOLATE" \notin flags[c] => "ISOLATE_EMULATE" \in flags[c])
    BY <1>1 DEF IInv, Part, Image, At, LoadingLoader
  <2>3. Image(c)'
    BY <1>1, <2>1, <2>2 DEF Image, At, LoadingLoader, Parametrizing, create_vars, load_vars
  <2> QED BY <1>1, <2>1, <2>3, StaysBorn DEF IInv, TypeOK, load_vars, Loading
<1>2. loader \in {None, "loader"} /\ images \in 0 .. MaxImages BY DEF IInv, TypeOK
<1>3. ASSUME NEW label, NEW returns, LoaderOpen(c, label, returns)
      PROVE  loader' \in {None, "loader"} /\ images' \in 0 .. MaxImages
  BY <1>2, <1>3, ContextAssumption DEF LoaderOpen
<1>4. CASE LoaderCheck(c, "create_loader", "create_open", "create_return")
  BY <1>2, <1>4, StaysUnborn DEF LoaderCheck, At, Unborn
<1>5. CASE LoaderOpen(c, "create_open", "create_return")
  BY <1>3, <1>5, StaysUnborn DEF LoaderOpen, At, Unborn
<1>6. CASE LoaderReturn(c, "create_return", "none", "spe")
  BY <1>2, <1>6, StaysUnborn DEF LoaderReturn, At, Unborn
<1>7. CASE LoaderCheck(c, "load_loader", "load_open", "load_return")
  BY <1>1, <1>2, <1>7 DEF LoaderCheck, At, LoadingLoader
<1>8. CASE LoaderOpen(c, "load_open", "load_return")
  BY <1>1, <1>3, <1>8 DEF LoaderOpen, At, LoadingLoader
<1>9. CASE LoaderReturn(c, "load_return", "live", "loader_elf")
  BY <1>1, <1>2, <1>9 DEF LoaderReturn, At, LoadingLoader
<1> QED BY <1>4, <1>5, <1>6, <1>7, <1>8, <1>9 DEF emulated_loader_program

-----------------------------------------------------------------------------
(* spe_program_load *)

LEMMA LoadBegins ==
  ASSUME IInv, NEW c \in Contexts, NEW p \in Programs, Load(c, p)
  PROVE  IInv'
<1> DEFINE next == IF "ISOLATE" \in flags[c] THEN "params"
                   ELSE IF "ISOLATE_EMULATE" \in flags[c] THEN "load_loader" ELSE "elf"
<1>1. next \in Loading \cup {"live"} /\ pc[c] = "live" /\ Goto(c, next)
  BY DEF Load, At, Loading, LoadingLoader, Parametrizing
<1>2. /\ loaded' \in [Contexts -> BOOLEAN] /\ ~ loaded'[c]
      /\ \A d \in Contexts \ {c} : loaded'[d] = loaded[d]
  BY DEF IInv, TypeOK, Load
<1>3. /\ loaded_program' \in [Contexts -> Programs \cup {None}]
      /\ \A d \in Contexts \ {c} : loaded_program'[d] = loaded_program[d]
  BY DEF IInv, TypeOK, Load
<1>4. Image(c)'
  <2>1. pc'[c] = next BY <1>1 DEF IInv, TypeOK, Goto
  <2> QED BY <1>2, <2>1 DEF Image, At, LoadingLoader, Parametrizing, Load, create_vars
<1> QED BY <1>1, <1>2, <1>3, <1>4, StaysBorn DEF IInv, TypeOK, Load

\* The ways on from a step of a load, with the local still there or gone.
LEMMA LoadGoesOn ==
  ASSUME IInv, NEW c \in Contexts, pc[c] \in Loading, NEW next \in Loading \cup {"live"},
         Goto(c, next), UNCHANGED <<create_vars, loaded_program, entry, loaded, loader, images, gang_vars>>,
         NEW img \in Images \cup {"garbage"}, ld_info' \in {ld_info, [ld_info EXCEPT ![c] = img]},
         ls' \in [Contexts -> Images], \A d \in Contexts \ {c} : ls'[d] = ls[d],
         mbox' \in [Contexts -> Seq({"addr_h", "addr_l", "size"})],
         \A d \in Contexts : Len(mbox'[d]) <= MboxDepth,
         Image(c)'
  PROVE  IInv'
<1>1. /\ ld_info' \in [Contexts -> Images \cup {"garbage"}]
      /\ \A d \in Contexts \ {c} : ld_info'[d] = ld_info[d]
  BY DEF IInv, TypeOK
<1> QED BY <1>1, StaysBorn DEF IInv, TypeOK

\* The call fails: what lies in the local store is not looked at any more.
LEMMA LoadFails ==
  ASSUME IInv, NEW c \in Contexts, pc[c] \in Loading, Goto(c, "live"),
         UNCHANGED <<create_vars, ls, mbox, loaded_program, entry, loaded, loader, images, gang_vars>>,
         ld_info' \in {ld_info, [ld_info EXCEPT ![c] = "garbage"]}
  PROVE  IInv'
<1>1. ~ loaded[c] /\ pc'[c] = "live"
  BY DEF IInv, TypeOK, Part, Image, At, Goto, Loading, LoadingLoader, Parametrizing
<1>2. Image(c)' BY <1>1 DEF Image, At, LoadingLoader, Parametrizing
<1> QED BY <1>2, LoadGoesOn DEF IInv, TypeOK

LEMMA LoadElfStep ==
  ASSUME IInv, NEW c \in Contexts, LoadElf(c)
  PROVE  IInv'
<1>1. pc[c] = "elf" /\ pc[c] \in Loading BY DEF LoadElf, At, Loading
<1>2. CASE Fails(c) BY <1>1, <1>2, LoadFails DEF LoadElf, Fails
<1>3. CASE Copied(c, loaded_program[c]) /\ Goto(c, "loaded")
  <2>1. loaded_program[c] \in Images BY DEF IInv, TypeOK, Images
  <2>2. ~ loaded[c] /\ ("ISOLATE" \notin flags[c] => "ISOLATE_EMULATE" \notin flags[c])
    BY <1>1 DEF IInv, Part, Image, At
  <2>3. /\ ls' \in [Contexts -> Images] /\ ls'[c] = loaded_program[c]
        /\ \A d \in Contexts \ {c} : ls'[d] = ls[d]
    BY <1>3, <2>1 DEF IInv, TypeOK, Copied
  <2>4. ld_info'[c] = loaded_program[c] /\ pc'[c] = "loaded"
    BY <1>3 DEF IInv, TypeOK, Copied, Goto
  <2>5. Image(c)'
    BY <2>2, <2>3, <2>4 DEF Image, AskedFor, At, LoadingLoader, Parametrizing, LoadElf, create_vars
  <2>6. UNCHANGED <<create_vars, loaded_program, entry, loaded, loader, images, gang_vars, mbox>>
        /\ ld_info' = [ld_info EXCEPT ![c] = loaded_program[c]]
    BY <1>3 DEF LoadElf, Copied
  <2> QED BY <1>1, <1>3, <2>1, <2>3, <2>5, <2>6, LoadGoesOn DEF IInv, TypeOK, Loading
<1> QED BY <1>2, <1>3 DEF LoadElf

LEMMA LoadLoaderStep ==
  ASSUME IInv, NEW c \in Contexts, LoadLoader(c)
  PROVE  IInv'
<1>1. pc[c] = "loader_elf" /\ pc[c] \in Loading BY DEF LoadLoader, At, Loading, LoadingLoader
<1>2. CASE Fails(c) BY <1>1, <1>2, LoadFails DEF LoadLoader, Fails
<1>3. CASE Copied(c, "loader") /\ Goto(c, "params")
  <2>1. "loader" \in Images BY DEF Images
  <2>2. ~ loaded[c] /\ ("ISOLATE" \notin flags[c] => "ISOLATE_EMULATE" \in flags[c])
    BY <1>1 DEF IInv, Part, Image, At, LoadingLoader
  <2>3. /\ ls' \in [Contexts -> Images] /\ ls'[c] = "loader"
        /\ \A d \in Contexts \ {c} : ls'[d] = ls[d]
    BY <1>3, <2>1 DEF IInv, TypeOK, Copied
  <2>4. ld_info'[c] = "loader" /\ pc'[c] = "params"
    BY <1>3 DEF IInv, TypeOK, Copied, Goto
  <2>5. Image(c)'
    BY <2>2, <2>3, <2>4 DEF Image, AskedFor, At, LoadingLoader, Parametrizing, LoadLoader, create_vars
  <2>6. UNCHANGED <<create_vars, loaded_program, entry, loaded, loader, images, gang_vars, mbox>>
        /\ ld_info' = [ld_info EXCEPT ![c] = "loader"]
    BY <1>3 DEF LoadLoader, Copied
  <2> QED BY <1>1, <1>3, <2>1, <2>3, <2>5, <2>6, LoadGoesOn DEF IInv, TypeOK, Loading, Parametrizing
<1> QED BY <1>2, <1>3 DEF LoadLoader

LEMMA ParamsStep ==
  ASSUME IInv, NEW c \in Contexts, Params(c)
  PROVE  IInv'
<1>1. pc[c] = "params" /\ pc[c] \in Loading BY DEF Params, At, Loading, Parametrizing
<1>2. CASE Goto(c, "live") /\ NoInfo(c) BY <1>1, <1>2, LoadFails DEF Params, NoInfo
<1>3. CASE Goto(c, "addr_h") /\ UNCHANGED ld_info
  <2>1. pc'[c] = "addr_h" BY <1>3 DEF IInv, TypeOK, Goto
  <2>2. Image(c)'
    BY <1>1, <1>3, <2>1 DEF IInv, Part, Image, AskedFor, At, LoadingLoader, Parametrizing,
                            Params, create_vars
  <2>3. "addr_h" \in Loading \cup {"live"} BY DEF Loading, Parametrizing
  <2>4. UNCHANGED <<create_vars, loaded_program, entry, loaded, loader, images, gang_vars, mbox, ls>>
    BY DEF Params
  <2> QED BY <1>1, <1>3, <2>2, <2>3, <2>4, LoadGoesOn DEF IInv, TypeOK
<1> QED BY <1>2, <1>3 DEF Params

LEMMA WriteParamStep ==
  ASSUME IInv, NEW c \in Contexts, WriteParam(c)
  PROVE  IInv'
<1>1. pc[c] \in {"addr_h", "addr_l", "size"} /\ pc[c] \in Loading
  BY DEF WriteParam, AfterWord, Loading, Parametrizing
<1>2. AfterWord[pc[c]] \in {"addr_l", "size", "loaded"} BY <1>1 DEF AfterWord
<1>3. CASE UNCHANGED mbox /\ Goto(c, "live") /\ NoInfo(c)
  BY <1>1, <1>3, LoadFails DEF WriteParam, NoInfo
<1>4. CASE /\ Len(mbox[c]) < MboxDepth /\ mbox' = [mbox EXCEPT ![c] = Append(@, pc[c])]
           /\ Goto(c, AfterWord[pc[c]]) /\ UNCHANGED ld_info
  <2>1. pc'[c] \in {"addr_l", "size", "loaded"} BY <1>2, <1>4 DEF IInv, TypeOK, Goto
  <2>2. Image(c)'
    BY <1>1, <1>4, <2>1 DEF IInv, Part, Image, AskedFor, At, LoadingLoader, Parametrizing,
                            WriteParam, create_vars
  <2>3. AfterWord[pc[c]] \in Loading \cup {"live"} BY <1>2 DEF Loading, Parametrizing
  <2>4. mbox[c] \in Seq({"addr_h", "addr_l", "size"}) BY DEF IInv, TypeOK
  <2>5. /\ Append(mbox[c], pc[c]) \in Seq({"addr_h", "addr_l", "size"})
        /\ Len(Append(mbox[c], pc[c])) = Len(mbox[c]) + 1 /\ Len(mbox[c]) \in Nat
    BY <1>1, <2>4
  <2>6. Len(Append(mbox[c], pc[c])) <= MboxDepth BY <1>4, <2>5, ContextAssumption
  <2>7. /\ mbox' \in [Contexts -> Seq({"addr_h", "addr_l", "size"})]
        /\ mbox'[c] = Append(mbox[c], pc[c])
        /\ \A d \in Contexts \ {c} : mbox'[d] = mbox[d]
    BY <1>4, <2>5 DEF IInv, TypeOK
  <2>8. \A d \in Contexts : Len(mbox'[d]) <= MboxDepth
    BY <2>6, <2>7 DEF IInv, TypeOK
  <2>9. UNCHANGED <<create_vars, loaded_program, entry, loaded, loader, images, gang_vars, ls>>
    BY DEF WriteParam
  <2> QED BY <1>1, <1>4, <2>2, <2>3, <2>7, <2>8, <2>9, LoadGoesOn DEF IInv, TypeOK
<1> QED BY <1>3, <1>4 DEF WriteParam

LEMMA LoadedStep ==
  ASSUME IInv, NEW c \in Contexts, Loaded(c)
  PROVE  IInv'
<1>1. pc[c] = "loaded" /\ pc[c] \in Loading BY DEF Loaded, At, Loading
<1>2. /\ entry' \in [Contexts -> Images \cup {"garbage"}] /\ entry'[c] = ld_info[c]
      /\ \A d \in Contexts \ {c} : entry'[d] = entry[d]
  BY DEF IInv, TypeOK, Loaded
<1>3. /\ ld_info' \in [Contexts -> Images \cup {"garbage"}]
      /\ \A d \in Contexts \ {c} : ld_info'[d] = ld_info[d]
  BY DEF IInv, TypeOK, Loaded, NoInfo
<1>4. /\ loaded' \in [Contexts -> BOOLEAN] /\ \A d \in Contexts \ {c} : loaded'[d] = loaded[d]
  BY DEF IInv, TypeOK, Loaded
<1>5. Image(c)'
  <2>1. pc'[c] = "live" BY DEF IInv, TypeOK, Goto, Loaded
  <2>2. "ISOLATE" \notin flags[c] => ld_info[c] = ls[c] /\ ls[c] = AskedFor(c)
    BY <1>1 DEF IInv, Part, Image
  <2> QED BY <1>2, <2>1, <2>2 DEF Image, AskedFor, At, LoadingLoader, Parametrizing, Loaded,
                                  create_vars
<1> QED BY <1>1, <1>2, <1>3, <1>4, <1>5, StaysBorn DEF IInv, TypeOK, Loaded

LEMMA LoaderReadsStep ==
  ASSUME IInv, NEW c \in Contexts, LoaderReads(c)
  PROVE  IInv'
<1>1. mbox[c] \in Seq({"addr_h", "addr_l", "size"}) /\ Len(mbox[c]) >= 3 /\ Len(mbox[c]) <= MboxDepth
  BY DEF IInv, TypeOK, LoaderReads
<1> DEFINE rest == SubSeq(mbox[c], 4, Len(mbox[c]))
<1>2. rest \in Seq({"addr_h", "addr_l", "size"}) /\ Len(rest) <= Len(mbox[c]) /\ Len(rest) \in Nat
  BY <1>1, SubSeqProperties
<1>3. mbox' = [mbox EXCEPT ![c] = rest] BY DEF LoaderReads
<1>4. Len(rest) <= MboxDepth BY <1>1, <1>2, ContextAssumption
<1> HIDE DEF rest
<1>5. /\ mbox' \in [Contexts -> Seq({"addr_h", "addr_l", "size"})] /\ mbox'[c] = rest
      /\ \A d \in Contexts \ {c} : mbox'[d] = mbox[d]
  BY <1>2, <1>3 DEF IInv, TypeOK
<1>6. \A d \in Contexts : Len(mbox'[d]) <= MboxDepth BY <1>4, <1>5 DEF IInv, TypeOK
<1>7. TypeOK' BY <1>5, <1>6 DEF IInv, TypeOK, LoaderReads, create_vars, gang_vars
<1>8. \A d \in Contexts : Part(d)'
  BY PartStays DEF IInv, Same, LoaderReads, create_vars
<1>9. GangAccounted' BY DEF IInv, GangAccounted, LoaderReads, gang_vars
<1> QED BY <1>7, <1>8, <1>9 DEF IInv

-----------------------------------------------------------------------------
(* Gangs *)

LEMMA GangStep ==
  ASSUME IInv, GangCreate \/ GangDestroy
  PROVE  IInv'
<1>1. UNCHANGED <<pc, create_vars, load_vars, loader, images>>
  BY DEF GangCreate, GangDestroy, GangAcquire
<1>2. gang' \in {"none", "priv", "dir", "live"} /\ gang_held' \subseteq {"gctx", "pgctx", "dir"}
  BY DEF IInv, TypeOK, GangCreate, GangDestroy, GangAcquire, free_spe_gang_context
<1>3. TypeOK' BY <1>1, <1>2 DEF IInv, TypeOK, create_vars, load_vars
<1>4. \A d \in Contexts : Part(d)'
  BY <1>1, PartStays DEF IInv, Same, create_vars, load_vars
<1>5. GangAccounted'
  BY DEF IInv, GangAccounted, GangCreate, GangDestroy, GangAcquire, free_spe_gang_context
<1> QED BY <1>3, <1>4, <1>5 DEF IInv

-----------------------------------------------------------------------------
\* Every step, whichever call fails, keeps the account and the image.
LEMMA NextIInv == IInv /\ [Next]_vars => IInv'
<1> SUFFICES ASSUME IInv, [Next]_vars PROVE IInv' OBVIOUS
<1>1. ASSUME NEW c \in Contexts, CreateStep(c) PROVE IInv'
  <2>1. SetSigNotify1(c) \/ SetSigNotify2(c) => IInv'
    BY SetSigNotifyStep DEF SetSigNotify1, SetSigNotify2
  <2> QED BY <1>1, <2>1, MallocSpeStep, MallocPrivStep, SpuCreateStep, MapMemStep, MapPsStep,
             MapAreasStep, CheckAreasStep, InitializeEventsStep DEF CreateStep
<1>2. ASSUME NEW c \in Contexts, LoadStep(c) PROVE IInv'
  BY <1>2, LoadElfStep, LoadLoaderStep, ParamsStep, WriteParamStep, LoadedStep DEF LoadStep
<1>3. CASE UNCHANGED vars
  <2>1. TypeOK' BY <1>3 DEF IInv, TypeOK, vars, create_vars, load_vars, gang_vars
  <2>2. \A d \in Contexts : Part(d)'
    BY <1>3, PartStays DEF IInv, Same, vars, create_vars, load_vars
  <2>3. GangAccounted' BY <1>3 DEF IInv, GangAccounted, vars, gang_vars
  <2> QED BY <2>1, <2>2, <2>3 DEF IInv
<1> QED BY <1>1, <1>2, <1>3, CreateBegins, EmulatedLoaderStep, FinalizeStep, DestroyStep,
           LoadBegins, LoaderReadsStep, GangStep DEF Next

THEOREM Invariance == Spec => []IInv
BY InitIInv, NextIInv, PTL DEF Spec

\* Every variable of the contexts and of the gang keeps its type, and the
\* inbound mailbox never holds more words than it has entries.
THEOREM TypeCorrect == Spec => []TypeOK
<1>1. IInv => TypeOK BY DEF IInv
<1> QED BY <1>1, Invariance, PTL

\* Whatever fails in spe_context_create, and after spe_context_destroy, what is
\* held for a context is exactly what free_spe_context would give back.
THEOREM AccountedHolds == Spec => []Accounted
<1>1. IInv => Accounted BY DEF IInv, Part, AccountedFor, GangAccounted, Accounted
<1> QED BY <1>1, Invariance, PTL

\* A context whose last spe_program_load succeeded starts at the entry of the
\* image in its local store, the program or the loader of emulated isolation.
THEOREM EntryIsLoadedHolds == Spec => []EntryIsLoaded
<1>1. IInv => EntryIsLoaded BY DEF IInv, Part, Image, AskedFor, EntryIsLoaded
<1> QED BY <1>1, Invariance, PTL
=============================================================================
