------------------------------ MODULE SpeEvent ------------------------------
(***************************************************************************)
(* The event layer of one SPE context (src/speevent/spe_event.c): event    *)
(* handlers, the four event sources of the context, and the stop event     *)
(* pipe that hands the stop information of spe_context_run to the readers  *)
(* of spe_stop_info_read.                                                  *)
(*                                                                         *)
(* Several threads call the API on one context.  The two mutexes of        *)
(* spe_context_event_priv are variables; a critical section is one step    *)
(* where the code makes one access to the state the mutex protects, and    *)
(* several steps where it makes several.  The SPE program itself is        *)
(* abstract: a run simply ends and leaves a stop info, which is named by   *)
(* the thread that ran the context.                                        *)
(***************************************************************************)
EXTENDS Integers, Sequences, FiniteSets

CONSTANTS
  Threads,    \* threads of the application that use the context
  Runners,    \* those of them that call spe_context_run
  Handlers,   \* event handlers the application may create
  Requests,   \* the event masks it passes to register and deregister
  MapPS,      \* the context was created with SPE_MAP_PS
  PipeCap,    \* stop infos the stop event pipe holds before write() blocks
  MaxOrphans, \* bound: registrations left behind by destroyed handlers
  None        \* no thread, no handler, no stop info

FileSources == {"OUT_INTR_MBOX", "IN_MBOX", "TAG_GROUP"}
STOPPED == "STOPPED"
Sources == FileSources \cup {STOPPED}

ASSUME ConstantsAssumption ==
  /\ IsFiniteSet(Threads)
  /\ Runners \subseteq Threads
  /\ IsFiniteSet(Handlers)
  /\ Threads \cap Handlers = {}
  /\ None \notin Threads \cup Handlers \cup {"pipe", "stale"}
  /\ Requests \subseteq (SUBSET Sources) \ {{}}
  /\ MapPS \in BOOLEAN
  /\ PipeCap \in Nat \ {0}
  /\ MaxOrphans \in Nat

VARIABLES
  lock,          \* owner of evctx->lock
  stop_lock,     \* owner of evctx->stop_event_lock
  pipe,          \* stop_event_pipe[]: "closed" (both -1) or "open"
  content,       \* the stop infos in the pipe
  handler_count, \* stop_event_handler_count
  buffer,        \* stop_event_buffer, None while stop_event_buffer_count is 0
  events,        \* events[]: the handler whose registration filled the entry last
  handlers,      \* the handlers that exist
  interest,      \* the epoll sets: pairs <<handler, source>>
  orphans,       \* history: stop registrations whose handler was destroyed
  alive,         \* event_private is set
  pc,            \* where each thread is
  arg,           \* its handler and the sources still to process
  fd             \* the pipe end a thread captured: None, "pipe" or "stale"

evctx == <<lock, stop_lock, pipe, content, handler_count, buffer, events>>
vars == <<evctx, handlers, interest, orphans, alive, pc, arg, fd>>

NoArg == [h |-> None, todo |-> {}]

InitialContext ==
  /\ lock = None /\ stop_lock = None
  /\ pipe = "closed" /\ content = <<>>
  /\ handler_count = 0 /\ buffer = None
  /\ events = [s \in Sources |-> None]

Init ==
  /\ InitialContext
  /\ handlers = {} /\ interest = {} /\ orphans = 0
  /\ alive = TRUE
  /\ pc = [t \in Threads |-> "idle"]
  /\ arg = [t \in Threads |-> NoArg]
  /\ fd = [t \in Threads |-> None]

-----------------------------------------------------------------------------
(* Helpers *)

Goto(t, label) == pc' = [pc EXCEPT ![t] = label]

Return(t) ==
  /\ Goto(t, "idle")
  /\ arg' = [arg EXCEPT ![t] = NoArg]

\* The order in which register and deregister look at the bits of the mask.
Rank == [s \in Sources |-> CASE s = "OUT_INTR_MBOX" -> 1
                             [] s = "IN_MBOX" -> 2
                             [] s = "TAG_GROUP" -> 3
                             [] OTHER -> 4]

IsNext(s, todo) == s \in todo /\ \A u \in todo : Rank[s] <= Rank[u]

Registered == {h \in Handlers : <<h, STOPPED>> \in interest}

\* close() of both ends: what the pipe held is gone, the kernel drops it from
\* the epoll sets, and a descriptor captured earlier names something else.
pipe_close(base) ==
  /\ pipe' = "closed"
  /\ content' = <<>>
  /\ interest' = base \ (Handlers \X {STOPPED})
  /\ fd' = [t \in Threads |-> IF fd[t] = None THEN None ELSE "stale"]

\* stop_event_pipe_acquire, when the pipe could be opened
pipe_acquire ==
  /\ pipe' = IF handler_count = 0 THEN "open" ELSE pipe
  /\ content' = IF handler_count = 0 THEN <<>> ELSE content
  /\ buffer' = IF handler_count = 0 THEN None ELSE buffer
  /\ handler_count' = handler_count + 1

\* stop_event_pipe_release, on epoll sets that are to become base
pipe_release(base) ==
  /\ handler_count' = handler_count - 1
  /\ \/ /\ handler_count = 1
        /\ pipe_close(base)
     \/ /\ handler_count # 1
        /\ interest' = base
        /\ UNCHANGED <<pipe, content, fd>>

-----------------------------------------------------------------------------
(* Event handlers *)

HandlerCreate(h) ==
  /\ h \notin handlers
  /\ handlers' = handlers \cup {h}
  /\ UNCHANGED <<evctx, interest, orphans, alive, pc, arg, fd>>

\* Closes the epoll descriptor and frees the handler; the contexts it was
\* registered with are not told.  The caller uses the handler no longer.
HandlerDestroy(h) ==
  /\ h \in handlers
  /\ \A t \in Threads : arg[t].h # h
  /\ h \in Registered => orphans < MaxOrphans
  /\ handlers' = handlers \ {h}
  /\ interest' = interest \ ({h} \X Sources)
  /\ orphans' = IF h \in Registered THEN orphans + 1 ELSE orphans
  /\ UNCHANGED <<evctx, alive, pc, arg, fd>>

-----------------------------------------------------------------------------
(* spe_event_handler_register and spe_event_handler_deregister *)

Begin(t, label, h, todo) ==
  /\ pc[t] = "idle" /\ alive
  /\ Goto(t, label)
  /\ arg' = [arg EXCEPT ![t] = [h |-> h, todo |-> todo]]
  /\ UNCHANGED <<evctx, handlers, interest, orphans, alive, fd>>

RegisterBegin(t, h, mask) == h \in handlers /\ Begin(t, "reg_lock", h, mask)
DeregisterBegin(t, h, mask) == h \in handlers /\ Begin(t, "dereg_lock", h, mask)

ContextLock(t, from, to) ==
  /\ pc[t] = from /\ lock = None
  /\ lock' = t
  /\ Goto(t, to)
  /\ UNCHANGED <<stop_lock, pipe, content, handler_count, buffer, events,
                 handlers, interest, orphans, alive, arg, fd>>

RegisterLock(t) == ContextLock(t, "reg_lock", "reg_source")
DeregisterLock(t) == ContextLock(t, "dereg_lock", "dereg_source")

\* Error or end of the list of sources: drop the context lock and return.
UnlockAndReturn(t) == lock' = None /\ Return(t)

\* The next source of the mask is done: go on, or unlock and return.
SourceDone(t, s) ==
  IF arg[t].todo = {s} THEN UnlockAndReturn(t)
  ELSE /\ arg' = [arg EXCEPT ![t].todo = @ \ {s}]
       /\ UNCHANGED <<lock, pc>>

\* One of the three sources with a file of their own.  The file may fail to
\* open; TAG_GROUP is not supported with SPE_MAP_PS; epoll_ctl may fail, and
\* does when the handler has the file already.  The entry of events[] is
\* overwritten before epoll_ctl is tried.
RegisterSource(t, s) ==
  /\ pc[t] = "reg_source" /\ s \in FileSources /\ IsNext(s, arg[t].todo)
  /\ \/ /\ UnlockAndReturn(t)
        /\ UNCHANGED <<events, interest>>
     \/ /\ s = "TAG_GROUP" => ~MapPS
        /\ events' = [events EXCEPT ![s] = arg[t].h]
        /\ \/ UnlockAndReturn(t) /\ UNCHANGED interest
           \/ /\ <<arg[t].h, s>> \notin interest
              /\ interest' = interest \cup {<<arg[t].h, s>>}
              /\ SourceDone(t, s)
  /\ UNCHANGED <<stop_lock, pipe, content, handler_count, buffer,
                 handlers, orphans, alive, fd>>

DeregisterSource(t, s) ==
  /\ pc[t] = "dereg_source" /\ s \in FileSources /\ IsNext(s, arg[t].todo)
  /\ \/ UnlockAndReturn(t) /\ UNCHANGED <<events, interest>>
     \/ /\ <<arg[t].h, s>> \in interest
        /\ interest' = interest \ {<<arg[t].h, s>>}
        /\ events' = [events EXCEPT ![s] = None]
        /\ SourceDone(t, s)
  /\ UNCHANGED <<stop_lock, pipe, content, handler_count, buffer,
                 handlers, orphans, alive, fd>>

\* stop_event_lock, by a thread that is at one label and goes to another
StopLock(t, from, to) ==
  /\ pc[t] = from /\ stop_lock = None
  /\ stop_lock' = t
  /\ Goto(t, to)
  /\ UNCHANGED <<lock, pipe, content, handler_count, buffer, events,
                 handlers, interest, orphans, alive, arg, fd>>

RegisterStopLock(t) ==
  arg[t].todo = {STOPPED} /\ StopLock(t, "reg_source", "reg_acquire")
DeregisterStopLock(t) ==
  arg[t].todo = {STOPPED} /\ StopLock(t, "dereg_source", "dereg_epoll")

RegisterAcquire(t) ==
  /\ pc[t] = "reg_acquire"
  /\ \/ /\ handler_count = 0  \* pipe() fails
        /\ stop_lock' = None
        /\ UnlockAndReturn(t)
        /\ UNCHANGED <<pipe, content, buffer, handler_count, events>>
     \/ /\ pipe_acquire
        /\ events' = [events EXCEPT ![STOPPED] = arg[t].h]
        /\ Goto(t, "reg_epoll")
        /\ UNCHANGED <<lock, stop_lock, arg>>
  /\ UNCHANGED <<handlers, interest, orphans, alive, fd>>

RegisterEpoll(t) ==
  /\ pc[t] = "reg_epoll"
  /\ \/ pipe_release(interest)  \* epoll_ctl fails
     \/ /\ <<arg[t].h, STOPPED>> \notin interest
        /\ interest' = interest \cup {<<arg[t].h, STOPPED>>}
        /\ UNCHANGED <<pipe, content, handler_count, fd>>
  /\ stop_lock' = None
  /\ UnlockAndReturn(t)
  /\ UNCHANGED <<buffer, events, handlers, orphans, alive>>

DeregisterEpoll(t) ==
  /\ pc[t] = "dereg_epoll"
  /\ \/ /\ <<arg[t].h, STOPPED>> \notin interest
        /\ stop_lock' = None
        /\ UnlockAndReturn(t)
        /\ UNCHANGED <<events, interest>>
     \/ /\ <<arg[t].h, STOPPED>> \in interest
        /\ interest' = interest \ {<<arg[t].h, STOPPED>>}
        /\ events' = [events EXCEPT ![STOPPED] = None]
        /\ Goto(t, "dereg_release")
        /\ UNCHANGED <<lock, stop_lock, arg>>
  /\ UNCHANGED <<pipe, content, handler_count, buffer, handlers, orphans, alive, fd>>

DeregisterRelease(t) ==
  /\ pc[t] = "dereg_release"
  /\ pipe_release(interest)
  /\ stop_lock' = None
  /\ UnlockAndReturn(t)
  /\ UNCHANGED <<buffer, events, handlers, orphans, alive>>

-----------------------------------------------------------------------------
(* spe_event_wait *)

Ready(h) == {s \in Sources : <<h, s>> \in interest /\ (s = STOPPED => content # <<>>)}

\* epoll_wait reports some of the sources that are ready; mailboxes and tag
\* groups are ready whenever the SPE pleases.
WaitEpoll(t, h, batch) ==
  /\ h \in handlers /\ batch # {} /\ batch \subseteq Ready(h)
  /\ Begin(t, "wait_copy", h, batch)

\* One event of the batch, copied from events[] under the context lock.
WaitCopy(t, s) ==
  /\ pc[t] = "wait_copy" /\ s \in arg[t].todo
  /\ lock = None
  /\ IF arg[t].todo = {s} THEN Return(t)
     ELSE arg' = [arg EXCEPT ![t].todo = @ \ {s}] /\ UNCHANGED pc
  /\ UNCHANGED <<evctx, handlers, interest, orphans, alive, fd>>

-----------------------------------------------------------------------------
(* spe_context_run *)

\* _base_spe_context_run returned with a stop info.
RunBase(t) ==
  /\ t \in Runners /\ pc[t] = "idle" /\ alive
  /\ Goto(t, "run_lock")
  /\ UNCHANGED <<evctx, handlers, interest, orphans, alive, arg, fd>>

RunLock(t) == StopLock(t, "run_lock", "run_fd")

\* Without a pipe the stop info goes to the buffer, over an older one.  With a
\* pipe its write end is captured and the thread counts as a user of the pipe.
RunBuffer(t) ==
  /\ pc[t] = "run_fd" /\ pipe = "closed"
  /\ buffer' = t
  /\ stop_lock' = None
  /\ Return(t)
  /\ UNCHANGED <<lock, pipe, content, handler_count, events,
                 handlers, interest, orphans, alive, fd>>

RunCapture(t) ==
  /\ pc[t] = "run_fd" /\ pipe = "open"
  /\ fd' = [fd EXCEPT ![t] = "pipe"]
  /\ Goto(t, "run_acquire")
  /\ UNCHANGED <<evctx, handlers, interest, orphans, alive, arg>>

\* Mutations: the pipe is not acquired for the write; the lock is kept for it.
RunAcquire_NoReference(t) ==
  /\ pc[t] = "run_acquire"
  /\ stop_lock' = None
  /\ Goto(t, "run_write")
  /\ UNCHANGED <<lock, pipe, content, handler_count, buffer, events,
                 handlers, interest, orphans, alive, arg, fd>>

RunAcquire_KeepsLock(t) ==
  /\ pc[t] = "run_acquire"
  /\ pipe_acquire
  /\ Goto(t, "run_write")
  /\ UNCHANGED <<lock, stop_lock, events, handlers, interest, orphans, alive, arg, fd>>

RunAcquire(t) ==
  /\ pc[t] = "run_acquire"
  /\ pipe_acquire
  /\ stop_lock' = None
  /\ Goto(t, "run_write")
  /\ UNCHANGED <<lock, events, handlers, interest, orphans, alive, arg, fd>>

\* write() on the captured descriptor, outside the lock: blocks while the pipe
\* is full, and is lost when the descriptor no longer names the pipe.
RunWrite(t) ==
  /\ pc[t] = "run_write"
  /\ \/ fd[t] = "pipe" /\ Len(content) < PipeCap /\ content' = Append(content, t)
     \/ fd[t] # "pipe" /\ UNCHANGED content
  /\ fd' = [fd EXCEPT ![t] = None]
  /\ Goto(t, "run_relock")
  /\ UNCHANGED <<lock, stop_lock, pipe, handler_count, buffer, events,
                 handlers, interest, orphans, alive, arg>>

\* A signal interrupts a write() that is blocked: the error is not looked at.
RunInterrupted(t) ==
  /\ pc[t] = "run_write" /\ fd[t] = "pipe" /\ Len(content) = PipeCap
  /\ fd' = [fd EXCEPT ![t] = None]
  /\ Goto(t, "run_relock")
  /\ UNCHANGED <<evctx, handlers, interest, orphans, alive, arg>>

RunRelock(t) == StopLock(t, "run_relock", "run_release")

RunRelease(t) ==
  /\ pc[t] = "run_release"
  /\ pipe_release(interest)
  /\ stop_lock' = None
  /\ Return(t)
  /\ UNCHANGED <<lock, buffer, events, handlers, orphans, alive>>

-----------------------------------------------------------------------------
(* spe_stop_info_read *)

ReadBegin(t) ==
  /\ pc[t] = "idle" /\ alive
  /\ Goto(t, "read_lock")
  /\ UNCHANGED <<evctx, handlers, interest, orphans, alive, arg, fd>>

ReadLock(t) == StopLock(t, "read_lock", "read")

\* Without a pipe the buffer is taken, once; otherwise one stop info is read
\* from the pipe, which is non-blocking.  EAGAIN when there is none.
Read(t) ==
  /\ pc[t] = "read"
  /\ \/ /\ pipe = "closed"
        /\ buffer' = None
        /\ UNCHANGED content
     \/ /\ pipe = "open"
        /\ content' = IF content = <<>> THEN <<>> ELSE Tail(content)
        /\ UNCHANGED buffer
  /\ stop_lock' = None
  /\ Return(t)
  /\ UNCHANGED <<lock, pipe, handler_count, events,
                 handlers, interest, orphans, alive, fd>>

-----------------------------------------------------------------------------
(* Destruction and creation of the context: the caller has no call pending *)

Finalize ==
  /\ alive /\ \A t \in Threads : pc[t] = "idle"
  /\ alive' = FALSE
  /\ pipe' = "closed" /\ content' = <<>> /\ interest' = {}
  /\ orphans' = 0
  /\ UNCHANGED <<lock, stop_lock, handler_count, buffer, events, handlers, pc, arg, fd>>

Initialize ==
  /\ ~alive
  /\ alive' = TRUE
  /\ lock' = None /\ stop_lock' = None
  /\ pipe' = "closed" /\ content' = <<>>
  /\ handler_count' = 0 /\ buffer' = None
  /\ events' = [s \in Sources |-> None]
  /\ UNCHANGED <<handlers, interest, orphans, pc, arg, fd>>

-----------------------------------------------------------------------------
\* The rest of a call once it has begun.
Step(t) ==
  \/ RegisterLock(t) \/ RegisterStopLock(t) \/ RegisterAcquire(t) \/ RegisterEpoll(t)
  \/ DeregisterLock(t) \/ DeregisterStopLock(t) \/ DeregisterEpoll(t) \/ DeregisterRelease(t)
  \/ \E s \in Sources : RegisterSource(t, s) \/ DeregisterSource(t, s) \/ WaitCopy(t, s)
  \/ RunLock(t) \/ RunBuffer(t) \/ RunCapture(t) \/ RunAcquire(t)
  \/ RunWrite(t) \/ RunRelock(t) \/ RunRelease(t)
  \/ ReadLock(t) \/ Read(t)

Call(t) ==
  \/ \E h \in Handlers, mask \in Requests :
       RegisterBegin(t, h, mask) \/ DeregisterBegin(t, h, mask)
  \/ \E h \in Handlers, batch \in SUBSET Sources : WaitEpoll(t, h, batch)
  \/ RunBase(t) \/ ReadBegin(t)

Next ==
  \/ \E t \in Threads : Call(t) \/ Step(t) \/ RunInterrupted(t)
  \/ \E h \in Handlers : HandlerCreate(h) \/ HandlerDestroy(h)
  \/ Finalize \/ Initialize

Spec == Init /\ [][Next]_vars

\* A thread that is inside a call keeps running, and a mutex that is released
\* again and again is granted to each thread that waits for it.  No thread is
\* obliged to make a call.
FairSpec == Spec /\ \A t \in Threads : SF_vars(Step(t))

-----------------------------------------------------------------------------
(* Properties *)

PC == {"idle", "reg_lock", "reg_source", "reg_acquire", "reg_epoll",
       "dereg_lock", "dereg_source", "dereg_epoll", "dereg_release", "wait_copy",
       "run_lock", "run_fd", "run_acquire", "run_write", "run_relock", "run_release",
       "read_lock", "read"}

\* Every variable has its type (struct spe_context_event_priv and the locals
\* of the handlers).
ThreadsType ==
  /\ pc \in [Threads -> PC]
  /\ arg \in [Threads -> [h : Handlers \cup {None}, todo : SUBSET Sources]]
  /\ fd \in [Threads -> {None, "pipe", "stale"}]

TypeOK ==
  /\ ThreadsType
  /\ lock \in Threads \cup {None} /\ stop_lock \in Threads \cup {None}
  /\ pipe \in {"closed", "open"}
  /\ content \in Seq(Threads) /\ Len(content) <= PipeCap
  /\ handler_count \in Int
  /\ buffer \in Threads \cup {None}
  /\ events \in [Sources -> Handlers \cup {None}]
  /\ handlers \subseteq Handlers
  /\ interest \subseteq Handlers \X Sources
  /\ orphans \in Nat
  /\ alive \in BOOLEAN

\* The threads that hold a reference of their own to the pipe.
UserPC == {"reg_epoll", "dereg_release", "run_write", "run_relock", "run_release"}
Users == {t \in Threads : pc[t] \in UserPC}

\* stop_event_handler_count is the number of stop event registrations, of those
\* left behind by destroyed handlers and of threads that keep the pipe open
\* for themselves: no path of register, deregister or run forgets a reference
\* or drops one twice.
StopCount ==
  alive => handler_count = Cardinality(Registered) + Cardinality(Users) + orphans

\* The descriptor a run captured under the lock still names the stop event
\* pipe when write() uses it without the lock ("to avoid closing the pipe after
\* unlocked"), whatever deregistrations came in between.
WriterHasPipe ==
  \A t \in Threads :
    pc[t] \in {"run_acquire", "run_write"} => fd[t] = "pipe" /\ pipe = "open"

\* The threads that are between stop_event_lock and stop_event_unlock.
StopCS == {"reg_acquire", "reg_epoll", "dereg_epoll", "dereg_release",
           "run_fd", "run_acquire", "run_release", "read"}

\* A registered stop event handler always finds the pipe open.
RegisteredHasPipe == Registered # {} => pipe = "open"

\* A stop info has one home: while the pipe is open the buffer is invalid, so
\* spe_stop_info_read never returns an old stop info after newer ones.
OneHome == pipe = "open" => buffer = None

\* While some stop event handler stays registered, a stop info leaves the pipe
\* only in the order of arrival and only through spe_stop_info_read (the
\* "events were lost" and "too many events" checks of test_event_stop.c).
StopInfoKept ==
  [][Registered # {} /\ Registered' # {} =>
       \/ content' = content
       \/ \E t \in Threads : pc[t] = "run_write" /\ content' = Append(content, t)
       \/ \E t \in Threads : pc[t] = "read" /\ content' = Tail(content)]_vars

\* Every call returns, except that spe_context_run may stay blocked in write():
\* a full pipe blocks no reader, no registration and no deregistration
\* ("unlock here to avoid deadlocks").  If the threads that do not run the
\* context keep reading stop infos, spe_context_run returns as well.
CallsReturn ==
  /\ \A t \in Threads : pc[t] # "idle" ~> pc[t] \in {"idle", "run_write"}
  /\ (\A t \in Threads \ Runners : SF_vars(ReadBegin(t)))
       => \A t \in Threads : pc[t] = "run_lock" ~> pc[t] = "idle"

\* An event that spe_event_wait copies for a source the handler has registered
\* carries the data of that registration.
WaitReportsOwn ==
  [][\A t \in Threads, s \in Sources :
       WaitCopy(t, s) /\ <<arg[t].h, s>> \in interest => events[s] = arg[t].h]_vars

\* The abstract channel: the pipe is its queue, and a thread posts from the
\* moment it captured the write end until its write() is over.
Channel == INSTANCE StopChannel
             WITH Capacity <- PipeCap,
                  mode <- IF pipe = "open" THEN "queue" ELSE "slot",
                  slot <- buffer,
                  queue <- content,
                  posting <- {t \in Threads : fd[t] # None}

\* Register, deregister, run and read, with their locks, counter and pipe,
\* implement the channel: a post that was accepted is never cut off by the
\* close of the pipe, and every stop info is in one place at a time.
ImplementsChannel == Channel!Spec

\* "don't write stop info to the pipe if no stop event handler is registered"
WriteNeedsHandler ==
  [][\A t \in Threads : RunCapture(t) => Registered # {}]_vars
=============================================================================
