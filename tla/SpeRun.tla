------------------------------- MODULE SpeRun -------------------------------
(***************************************************************************)
(* Running an SPE program: the loop of _base_spe_context_run               *)
(* (src/spebase/run.c), the table of PPE-assisted library calls it serves  *)
(* (src/spebase/lib_builtin.c) and the breadcrumbs it leaves for the       *)
(* debugger.                                                               *)
(*                                                                         *)
(* A handler of the application may itself run another context, so a       *)
(* thread has a stack of runs.  Of the program counter the model keeps     *)
(* whether it is at the start of the program, at the word of parameters    *)
(* that follows the stop instruction of a library call, or at an           *)
(* instruction behind a stop.  How an SPU may stop is a set of records.    *)
(***************************************************************************)
EXTENDS Integers, Sequences, FiniteSets

CONSTANTS
  Threads,       \* threads of the application
  Contexts,      \* SPE contexts
  Isolated,      \* those created with SPE_ISOLATE
  Emulated,      \* those created with SPE_ISOLATE_EMULATE
  EventsEnabled, \* those created with SPE_EVENTS_ENABLE
  CallNums,      \* numbers of library calls
  UserHandlers,  \* handlers the application registers
  Stops,         \* how spu_run() may return: see StopType
  MaxDepth,      \* bound: runs nested in one thread
  None           \* NULL

RESERVED == 4
Builtin == "builtin"

\* The calls handlers[] starts with: the classes C99 (0x2100), POSIX.1 (0x2101)
\* and LIBEA (0x2105).  2 and 3 are reserved and empty, 5 is not reserved.
Defaults == {0, 1, 5}

Bits == {"ERROR", "INVALID_INSTR", "STOPPED_BY_STOP", "HALT",
         "WAITING_ON_CHANNEL", "INVALID_CHANNEL"}

\* The bits of the return value, the class of the stop code, whether an
\* exception is reported and, for a library call, its number.
StopType == [bits : SUBSET Bits,
             code : {"LIBRARY_CALL", "NORMAL_END", "ISO_LOAD_COMPLETE",
                     "ISOLATED_STOP", "USER"},
             exception : BOOLEAN,
             num : CallNums]

ASSUME RunAssumption ==
  /\ IsFiniteSet(Threads) /\ IsFiniteSet(Contexts)
  /\ Isolated \cup Emulated \cup EventsEnabled \subseteq Contexts
  /\ Isolated \cap Emulated = {}
  /\ CallNums \subseteq 0 .. 255
  /\ None \notin Contexts \cup UserHandlers /\ Builtin \notin UserHandlers \cup {None}
  /\ Stops \subseteq StopType
  /\ MaxDepth \in Nat

VARIABLES
  handlers, \* handlers[]
  change,   \* the registration or deregistration a thread is in
  frames,   \* the runs of each thread, the innermost one last
  active,   \* __spe_current_active_context
  prev,     \* the `prev' of this_context_info of each running context
  entry,    \* *entry, as the last run of a context left it
  emulated_entry,
  info,     \* stopinfo->stop_reason during and after the last run
  retval,   \* what the last run returned
  secure,   \* the SPU is in isolated mode
  exiting,  \* an isolated exit was requested (SPU_RunCntl)
  crashed,  \* a NULL handler was called
  again     \* history: contexts run again although an exit was requested

table == <<handlers, change>>
debug == <<active, prev>>
context == <<entry, emulated_entry, info, retval, secure, exiting, again>>
vars == <<table, frames, debug, context, crashed>>

NoChange == [op |-> "none", num |-> 0, handler |-> None]

Init ==
  /\ handlers = [n \in CallNums |-> IF n \in Defaults THEN Builtin ELSE None]
  /\ change = [t \in Threads |-> NoChange]
  /\ frames = [t \in Threads |-> <<>>]
  /\ active = [t \in Threads |-> None]
  /\ prev = [c \in Contexts |-> None]
  /\ entry = [c \in Contexts |-> "start"]
  /\ emulated_entry = [c \in Contexts |-> "start"]
  /\ info = [c \in Contexts |-> "stale"]
  /\ retval = [c \in Contexts |-> "none"]
  /\ secure = Isolated /\ exiting = {}
  /\ crashed = FALSE /\ again = {}

-----------------------------------------------------------------------------
(* Helpers *)

Running == {c \in Contexts : \E t \in Threads : \E i \in 1 .. Len(frames[t]) : frames[t][i].spe = c}

Top(t) == frames[t][Len(frames[t])]
At(t, label) == frames[t] # <<>> /\ Top(t).at = label

SetTop(t, frame) == frames' = [frames EXCEPT ![t][Len(frames[t])] = frame]

\* Mutation: the cleanup, too, goes back from whatever is current.
Leave_Twice(t) ==
  LET p == prev[Top(t).spe] IN
  /\ frames' = [frames EXCEPT ![t] = SubSeq(@, 1, Len(@) - 1)]
  /\ active' = [active EXCEPT ![t] = IF p = None THEN None ELSE prev[p]]
  /\ prev' = prev

\* Leaves the run: freespeinfo and then the cleanup of this_context_info, which
\* both go back to the previous run.
Leave(t) ==
  /\ frames' = [frames EXCEPT ![t] = SubSeq(@, 1, Len(@) - 1)]
  /\ active' = [active EXCEPT ![t] = prev[Top(t).spe]]
  /\ prev' = prev

Finish(t, reason, value) ==
  LET c == Top(t).spe IN
  /\ Leave(t)
  /\ info' = [info EXCEPT ![c] = reason]
  /\ retval' = [retval EXCEPT ![c] = value]

-----------------------------------------------------------------------------
(* The table of library calls.  The tests and the store of a call are      *)
(* separate accesses: nothing protects the table.                          *)

HandlerRegister(t, n, h) ==
  /\ change[t] = NoChange /\ frames[t] = <<>>
  /\ \E mode \in {"NEW", "UPDATE"} :
       \/ mode = "NEW" /\ n >= RESERVED /\ handlers[n] = None
       \/ mode = "UPDATE" /\ handlers[n] # None
  /\ change' = [change EXCEPT ![t] = [op |-> "store", num |-> n, handler |-> h]]
  /\ UNCHANGED <<handlers, frames, debug, context, crashed>>

\* Mutation: the reserved calls can be deregistered like any other.
HandlerDeregister_Any(t, n) ==
  /\ change[t] = NoChange /\ frames[t] = <<>>
  /\ handlers[n] # None
  /\ change' = [change EXCEPT ![t] = [op |-> "store", num |-> n, handler |-> None]]
  /\ UNCHANGED <<handlers, frames, debug, context, crashed>>

HandlerDeregister(t, n) ==
  /\ change[t] = NoChange /\ frames[t] = <<>>
  /\ n >= RESERVED /\ handlers[n] # None
  /\ change' = [change EXCEPT ![t] = [op |-> "store", num |-> n, handler |-> None]]
  /\ UNCHANGED <<handlers, frames, debug, context, crashed>>

StoreHandler(t) ==
  /\ change[t] # NoChange
  /\ handlers' = [handlers EXCEPT ![change[t].num] = change[t].handler]
  /\ change' = [change EXCEPT ![t] = NoChange]
  /\ UNCHANGED <<frames, debug, context, crashed>>

-----------------------------------------------------------------------------
(* Running *)

MayRun(t) ==
  /\ change[t] = NoChange
  /\ \/ frames[t] = <<>>
     \/ At(t, "handler") /\ Top(t).handler \in UserHandlers

\* Up to do_run.  `from' is the *entry of the caller: SPE_DEFAULT_ENTRY, or what
\* the last run left there.  A caller that continues behind a library call
\* nobody served steps over the parameters itself.
Begin(t, c, from, no_callbacks) ==
  /\ MayRun(t) /\ Len(frames[t]) < MaxDepth
  /\ c \notin Running
  /\ c \in Isolated => c \in secure
  /\ from # "parameters"
  /\ frames' = [frames EXCEPT ![t] = Append(@,
       [spe |-> c, at |-> "spu_run", no_callbacks |-> no_callbacks,
        npc |-> IF c \in Emulated THEN emulated_entry[c] ELSE from,
        num |-> 0, handler |-> None])]
  /\ prev' = [prev EXCEPT ![c] = active[t]]
  /\ active' = [active EXCEPT ![t] = c]
  /\ info' = [info EXCEPT ![c] = "stale"]
  /\ retval' = [retval EXCEPT ![c] = "none"]
  /\ again' = IF c \in exiting THEN again \cup {c} ELSE again
  /\ UNCHANGED <<table, entry, emulated_entry, secure, exiting, crashed>>

\* An isolated SPU stops outside isolated mode only after an exit request, and
\* then reports no code any more.
MayStop(c, s) ==
  /\ c \in exiting => s.bits \in {{"ERROR"}, {"STOPPED_BY_STOP"}} /\ s.code = "USER"
  /\ s.exception => c \in EventsEnabled
  /\ s.code \in {"ISO_LOAD_COMPLETE", "ISOLATED_STOP"} => c \in Isolated

\* The bit 0x80 of the return value.
IsolatedBit(c) == c \in secure \ exiting

Ends(reason, value) == [does |-> "finish", reason |-> reason, value |-> value]
Does(what) == [does |-> what, reason |-> "none", value |-> "none"]

\* The program ended: an isolated one must leave isolated mode first.
Ended(c) == IF c \in Isolated THEN Does("exit") ELSE Ends("EXIT", "0")

\* What the run does after spu_run returned s, in the order of the tests.
Verdict(c, no_callbacks, s) ==
  IF "ERROR" \in s.bits THEN Ends("RUNTIME_FATAL", "-1")
  ELSE IF "INVALID_INSTR" \in s.bits THEN Ends("RUNTIME_ERROR", "-1")
  ELSE IF c \in EventsEnabled /\ s.exception THEN Ends("RUNTIME_EXCEPTION", "-1")
  ELSE IF "STOPPED_BY_STOP" \in s.bits THEN
    CASE s.code = "LIBRARY_CALL" /\ ~no_callbacks -> Does("call")
      [] s.code = "NORMAL_END" -> Ended(c)
      [] s.code = "ISO_LOAD_COMPLETE" -> Does("rerun")
      [] s.code = "ISOLATED_STOP" -> Ends("ISOLATION_ERROR", "-1")
      [] OTHER -> IF c \in Isolated /\ ~IsolatedBit(c)
                    THEN Ends(info[c], "0")
                    ELSE Ends("STOP_AND_SIGNAL", "code")
  ELSE IF "HALT" \in s.bits THEN Ends("RUNTIME_ERROR", "-1")
  ELSE IF "WAITING_ON_CHANNEL" \in s.bits THEN Ends("RUNTIME_EXCEPTION", "-1")
  ELSE IF "INVALID_CHANNEL" \in s.bits THEN Ends("RUNTIME_ERROR", "-1")
  ELSE Ends("RUNTIME_FATAL", "-1")

\* spu_run() returns: the counter is reported, and hidden from the caller when
\* isolation is emulated.
Stopped(t, s) ==
  LET c == Top(t).spe
      npc == IF s.code = "LIBRARY_CALL" THEN "parameters" ELSE "behind"
  IN
  /\ s \in Stops /\ MayStop(c, s)
  /\ entry' = [entry EXCEPT ![c] = IF c \in Emulated THEN "start" ELSE npc]
  /\ emulated_entry' = [emulated_entry EXCEPT ![c] = IF c \in Emulated THEN npc ELSE @]
  /\ secure' = IF c \in exiting /\ "ERROR" \notin s.bits THEN secure \ {c} ELSE secure

SpuFinishes(t, s) ==
  LET v == Verdict(Top(t).spe, Top(t).no_callbacks, s) IN
  /\ At(t, "spu_run") /\ Stopped(t, s)
  /\ v.does = "finish" /\ Finish(t, v.reason, v.value)
  /\ UNCHANGED <<table, exiting, again, crashed>>

SpuCalls(t, s) ==
  /\ At(t, "spu_run") /\ Stopped(t, s)
  /\ Verdict(Top(t).spe, Top(t).no_callbacks, s).does = "call"
  /\ SetTop(t, [Top(t) EXCEPT !.at = "lookup", !.npc = "parameters", !.num = s.num])
  /\ UNCHANGED <<table, debug, info, retval, exiting, again, crashed>>

SpuReruns(t, s) ==
  /\ At(t, "spu_run") /\ Stopped(t, s)
  /\ Verdict(Top(t).spe, Top(t).no_callbacks, s).does = "rerun"
  /\ SetTop(t, [Top(t) EXCEPT !.npc = "behind"])
  /\ UNCHANGED <<table, debug, info, retval, exiting, again, crashed>>

\* Mutation: the stop reason is not set before the SPE runs again.
SpuExits_NoReason(t, s) ==
  LET c == Top(t).spe IN
  /\ At(t, "spu_run") /\ Stopped(t, s)
  /\ Verdict(c, Top(t).no_callbacks, s).does = "exit"
  /\ exiting' = exiting \cup {c}
  /\ SetTop(t, [Top(t) EXCEPT !.npc = "behind"])
  /\ UNCHANGED <<table, debug, info, retval, again, crashed>>

\* An isolated program ended: issue_isolated_exit and run it once more.
SpuExits(t, s) ==
  LET c == Top(t).spe IN
  /\ At(t, "spu_run") /\ Stopped(t, s)
  /\ Verdict(c, Top(t).no_callbacks, s).does = "exit"
  /\ info' = [info EXCEPT ![c] = "EXIT"]
  /\ exiting' = exiting \cup {c}
  /\ SetTop(t, [Top(t) EXCEPT !.npc = "behind"])
  /\ UNCHANGED <<table, debug, retval, again, crashed>>

-----------------------------------------------------------------------------
(* Serving a library call *)

\* The first look at handlers[].
Lookup(t) ==
  /\ At(t, "lookup")
  /\ \/ /\ handlers[Top(t).num] # None
        /\ SetTop(t, [Top(t) EXCEPT !.at = "fetch"])
        /\ UNCHANGED <<debug, info, retval>>
     \/ /\ handlers[Top(t).num] = None
        /\ Finish(t, "CALLBACK_ERROR", "-1")
  /\ UNCHANGED <<table, entry, emulated_entry, secure, exiting, again, crashed>>

\* The second one, and the call.
Fetch(t) ==
  LET h == handlers[Top(t).num] IN
  /\ At(t, "fetch")
  /\ SetTop(t, [Top(t) EXCEPT !.at = "handler", !.handler = h])
  /\ crashed' = (h = None)
  /\ UNCHANGED <<table, debug, context>>

\* The program goes on behind the parameters.
HandlerSucceeds(t) ==
  /\ At(t, "handler")
  /\ SetTop(t, [Top(t) EXCEPT !.at = "spu_run", !.handler = None, !.npc = "behind"])
  /\ UNCHANGED <<table, debug, context, crashed>>

HandlerFails(t) ==
  /\ At(t, "handler")
  /\ Finish(t, "CALLBACK_ERROR", "-1")
  /\ UNCHANGED <<table, entry, emulated_entry, secure, exiting, again, crashed>>

Next ==
  /\ ~crashed
  /\ \E t \in Threads :
       \/ \E n \in CallNums :
            \/ \E h \in UserHandlers : HandlerRegister(t, n, h)
            \/ HandlerDeregister(t, n)
       \/ StoreHandler(t)
       \/ \E c \in Contexts, no_callbacks \in BOOLEAN :
            \E from \in {"start", entry[c]} : Begin(t, c, from, no_callbacks)
       \/ \E s \in Stops :
            SpuFinishes(t, s) \/ SpuCalls(t, s) \/ SpuReruns(t, s) \/ SpuExits(t, s)
       \/ Lookup(t) \/ Fetch(t) \/ HandlerSucceeds(t) \/ HandlerFails(t)

Spec == Init /\ [][Next]_vars

-----------------------------------------------------------------------------
(* Properties *)

FrameType == [spe : Contexts, at : {"spu_run", "lookup", "fetch", "handler"},
              no_callbacks : BOOLEAN, npc : {"start", "parameters", "behind"},
              num : CallNums \cup {0}, handler : UserHandlers \cup {Builtin, None}]

Failures == {"RUNTIME_FATAL", "RUNTIME_ERROR", "RUNTIME_EXCEPTION",
             "CALLBACK_ERROR", "ISOLATION_ERROR"}

TypeOK ==
  /\ handlers \in [CallNums -> UserHandlers \cup {Builtin, None}]
  /\ change \in [Threads -> {NoChange} \cup [op : {"store"}, num : CallNums,
                                            handler : UserHandlers \cup {None}]]
  /\ frames \in [Threads -> Seq(FrameType)]
  /\ active \in [Threads -> Contexts \cup {None}]
  /\ prev \in [Contexts -> Contexts \cup {None}]
  /\ {entry, emulated_entry} \subseteq [Contexts -> {"start", "parameters", "behind"}]
  /\ info \in [Contexts -> Failures \cup {"stale", "EXIT", "STOP_AND_SIGNAL"}]
  /\ retval \in [Contexts -> {"none", "0", "-1", "code"}]
  /\ secure \subseteq Isolated /\ exiting \subseteq Isolated /\ again \subseteq exiting
  /\ crashed \in BOOLEAN

\* The breadcrumbs of a thread are exactly its runs, the innermost one first,
\* also while handlers run further contexts and when runs end with an error.
BreadcrumbsFollowRuns ==
  \A t \in Threads :
    /\ active[t] = IF frames[t] = <<>> THEN None ELSE Top(t).spe
    /\ \A i \in 1 .. Len(frames[t]) :
         prev[frames[t][i].spe] = IF i = 1 THEN None ELSE frames[t][i - 1].spe

\* What a run returns agrees with the stop reason it leaves, and that is one of
\* this run: also where isolation is left, which sets no reason of its own.  (A
\* run that fails after it has requested the exit, and is then repeated, leaves
\* the stop info of the caller untouched.)  A run of an isolated program reports
\* its end only when the SPU has left isolated mode.
ReturnMatchesStopInfo ==
  \A c \in Contexts \ (Running \cup again) :
    /\ retval[c] = "0" => info[c] = "EXIT"
    /\ retval[c] = "-1" => info[c] \in Failures
    /\ retval[c] = "code" => info[c] = "STOP_AND_SIGNAL"
    /\ c \in Isolated /\ info[c] = "EXIT" => c \notin secure

\* A reserved call that has a default handler always finds one, whatever is
\* registered and deregistered meanwhile, although the table is read twice and
\* never locked; one that has none is never served.
ReservedCallsServed ==
  \A t \in Threads : frames[t] # <<>> /\ Top(t).at # "spu_run" /\ Top(t).num < RESERVED =>
    IF Top(t).num \in Defaults
      THEN handlers[Top(t).num] # None /\ (At(t, "handler") => Top(t).handler # None)
      ELSE At(t, "lookup")

\* "registering a handler to call zero and one is ignored"
ReservedKept == \A n \in CallNums \cap {0, 1} : handlers[n] = Builtin
=============================================================================
