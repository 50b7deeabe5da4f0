----------------------------- MODULE SpeThread -----------------------------
(***************************************************************************)
(* One SPE thread of the libspe 1.2 API: do_spe_run (src/libspe12/spe.c)   *)
(* against spe_kill and spe_get_event (src/libspe12/spethreads.c) of the   *)
(* application's threads.                                                  *)
(*                                                                         *)
(* event_lock and the condition event_deliver are modelled as such: a      *)
(* waiter leaves the wait when it is signalled or, as POSIX permits and no *)
(* loop here rules out, by itself, then takes the lock again.  Everything  *)
(* the code does without the lock, the `stop' flag, the event slot and its *)
(* data, is a step per store.  SIGKILL cancels the thread asynchronously:  *)
(* it may end at any of its steps and, as a cancelled pthread_cond_wait    *)
(* takes the lock back first, with event_lock held.  Events are numbered   *)
(* by the run they report, so that the data of one is told from the data   *)
(* of another; 0 is the cleared ev_data.                                   *)
(***************************************************************************)
EXTENDS Naturals, Sequences, SequencesExt, FiniteSets

CONSTANTS
  Senders,        \* application threads that call spe_kill
  Signals,        \* the signals they send
  Applications,   \* what the application may be, see application
  MaxRuns,        \* bound: calls of _base_spe_context_run
  PipeSize,       \* capacity of the event pipe, in events
  NoOne

ASSUME ThreadAssumption ==
  /\ Signals \subseteq {"SIGSTOP", "SIGCONT", "SIGKILL"}
  /\ NoOne \notin {"SIGSTOP", "SIGCONT", "SIGKILL", "spe"}
  /\ Applications \subseteq {"any", "answers"}
  /\ MaxRuns \in Nat \ {0} /\ PipeSize \in Nat \ {0}
  /\ IsFiniteSet(Senders)

Kinds == {"stop", "error", "exit"}

VARIABLES
  use_events,    \* of the group of the thread
  application,   \* sends "any" signal, or SIGCONT only as the answer to an
                 \* event, once for each, and never SIGKILL
  place, ret, runs, \* the SPE thread: its place, the last result, calls so far
  stop, killed, event_pending, event_lock, thread_status, ret_status,
  cancelled,     \* pthread_cancel was called
  event, ev_data, ev_pipe,
  sig,           \* the signal each caller is sending, or NoOne
  reader, got,   \* the thread in spe_get_event, and what it has read so far
  sent, seen,    \* history: events generated, events received
  answered,      \* events the application has answered with SIGCONT
  last,          \* history: the last of SIGSTOP and SIGCONT that was sent
  spurious       \* history: a wait with an event has ended without a signal

slot == <<event, ev_data, ev_pipe>>
flags == <<stop, killed, event_pending, cancelled>>
app == <<sig, reader, got, seen, answered, last>>
result == <<thread_status, ret_status>>
steady == <<use_events, application, spurious>>
thread_vars == <<steady, place, ret, runs, flags, event_lock, result, slot, app, sent>>

\* The store comes from calloc.
ThreadInit ==
  /\ use_events \in BOOLEAN
  /\ application \in Applications
  /\ place = "run" /\ ret = "end" /\ runs = 0
  /\ stop = FALSE /\ killed = FALSE /\ event_pending = FALSE /\ cancelled = FALSE
  /\ event_lock = NoOne
  /\ thread_status = 2 /\ ret_status = "zero"
  /\ event = "none" /\ ev_data = 0 /\ ev_pipe = <<>>
  /\ sig = [c \in Senders |-> NoOne]
  /\ reader = "idle" /\ got = <<"none", 0>>
  /\ sent = <<>> /\ seen = <<>>
  /\ answered = 0 /\ last = "SIGCONT" /\ spurious = FALSE

Ended == place \in {"done", "cancelled"}

-----------------------------------------------------------------------------
(* do_spe_run *)

At(label, next) == place = label /\ place' = next

Lock == event_lock = NoOne /\ event_lock' = "spe"
Unlock == event_lock' = NoOne

AfterRun == CASE ret = "error" -> "error_lock"
              [] ret = "stop"  -> "event_lock"
              [] ret = "end"   -> "exit"

\* _base_spe_context_run: the program stopped with a code of its own, failed,
\* or came to its end.
RunBase ==
  /\ At("run", "stop_check")
  /\ ret' \in {"end", "error"} \cup (IF runs + 1 < MaxRuns THEN {"stop"} ELSE {})
  /\ runs' = runs + 1
  /\ thread_status' = 10
  /\ UNCHANGED <<steady, flags, event_lock, ret_status, slot, app, sent>>

StopCheck ==
  /\ At("stop_check", IF stop THEN "stop_lock" ELSE AfterRun)
  /\ UNCHANGED <<steady, ret, runs, flags, event_lock, result, slot, app, sent>>

StopLock ==
  /\ At("stop_lock", "stop_sleep") /\ Lock
  /\ thread_status' = 20
  /\ UNCHANGED <<steady, ret, runs, flags, ret_status, slot, app, sent>>

StopSleep ==
  /\ At("stop_sleep", "stop_wait") /\ Unlock
  /\ UNCHANGED <<steady, ret, runs, flags, result, slot, app, sent>>

StopWake ==
  /\ At("stop_wake", "stop_unlock") /\ Lock
  /\ UNCHANGED <<steady, ret, runs, flags, result, slot, app, sent>>

StopUnlock ==
  /\ At("stop_unlock", "stop_clear") /\ Unlock
  /\ UNCHANGED <<steady, ret, runs, flags, result, slot, app, sent>>

StopClear ==
  /\ At("stop_clear", AfterRun)
  /\ stop' = FALSE
  /\ thread_status' = 10
  /\ UNCHANGED <<steady, ret, runs, killed, event_pending, cancelled, event_lock,
                 ret_status, slot, app, sent>>

\* ret < 0, and ret > 0.  Only EIO and EFAULT make an event.
ErrorLock ==
  /\ At("error_lock", "error_slot") \/ At("error_lock", "error_unlock")
  /\ Lock
  /\ UNCHANGED <<steady, ret, runs, flags, result, slot, app, sent>>

EventLock ==
  /\ At("event_lock", IF use_events THEN "stop_slot" ELSE "event_off") /\ Lock
  /\ UNCHANGED <<steady, ret, runs, flags, result, slot, app, sent>>

\* Without events the thread ends when its program stops.
EventOff ==
  /\ At("event_off", "done") /\ Unlock
  /\ thread_status' = 99
  /\ UNCHANGED <<steady, ret, runs, flags, ret_status, slot, app, sent>>

\* The three stores that make an event: the slot, its data, and the pipe, to
\* which whatever the slot holds by then is written.
SlotOf == [stop |-> "stop_slot", error |-> "error_slot", exit |-> "exit_slot"]
DataOf == [stop |-> "stop_data", error |-> "error_data", exit |-> "exit_data"]
WriteOf == [stop |-> "stop_write", error |-> "error_write", exit |-> "exit_write"]
AfterWrite == [stop |-> "event_sleep", error |-> "error_unlock", exit |-> "finish"]

SetEvent(kind) ==
  /\ At(SlotOf[kind], DataOf[kind])
  /\ event' = kind
  /\ sent' = Append(sent, <<kind, runs>>)
  /\ UNCHANGED <<steady, ret, runs, flags, event_lock, result, ev_data, ev_pipe, app>>

SetData(kind) ==
  /\ At(DataOf[kind], WriteOf[kind])
  /\ ev_data' = runs
  /\ UNCHANGED <<steady, ret, runs, flags, event_lock, result, event, ev_pipe, app, sent>>

WritePipe(kind) ==
  /\ At(WriteOf[kind], AfterWrite[kind])
  /\ Len(ev_pipe) < PipeSize
  /\ ev_pipe' = Append(ev_pipe, event)
  /\ UNCHANGED <<steady, ret, runs, flags, event_lock, result, event, ev_data, app, sent>>

\* Mutation: the thread does not tell that it waits.
EventSleep_NotPending ==
  /\ At("event_sleep", "event_wait") /\ Unlock
  /\ UNCHANGED <<steady, ret, runs, flags, result, slot, app, sent>>

EventSleep ==
  /\ At("event_sleep", "event_wait") /\ Unlock
  /\ event_pending' = TRUE
  /\ UNCHANGED <<steady, ret, runs, stop, killed, cancelled, result, slot, app, sent>>

EventWake ==
  /\ At("event_wake", "event_unlock") /\ Lock
  /\ event_pending' = FALSE
  /\ UNCHANGED <<steady, ret, runs, stop, killed, cancelled, result, slot, app, sent>>

EventUnlock ==
  /\ At("event_unlock", "loop") /\ Unlock
  /\ UNCHANGED <<steady, ret, runs, flags, result, slot, app, sent>>

\* while (ret != 0 && !killed)
Loop ==
  /\ At("loop", IF killed THEN "exit" ELSE "run")
  /\ thread_status' = IF killed THEN thread_status ELSE 2
  /\ UNCHANGED <<steady, ret, runs, flags, event_lock, ret_status, slot, app, sent>>

ErrorUnlock ==
  /\ At("error_unlock", "error_done") /\ Unlock
  /\ UNCHANGED <<steady, ret, runs, flags, result, slot, app, sent>>

ErrorDone ==
  /\ At("error_done", "done")
  /\ stop' = TRUE
  /\ thread_status' = 99
  /\ UNCHANGED <<steady, ret, runs, killed, event_pending, cancelled, event_lock,
                 ret_status, slot, app, sent>>

\* The status is saved on this way out only.
Exit ==
  /\ At("exit", IF use_events THEN SlotOf["exit"] ELSE "finish")
  /\ ret_status' = ret
  /\ UNCHANGED <<steady, ret, runs, flags, event_lock, thread_status, slot, app, sent>>

Finish ==
  /\ At("finish", "done")
  /\ thread_status' = 99
  /\ UNCHANGED <<steady, ret, runs, flags, event_lock, ret_status, slot, app, sent>>

Waits == {"stop_wait", "stop_wake", "event_wait", "event_wake"}

\* Asynchronous cancellation.
Cancelled ==
  /\ cancelled /\ ~Ended
  /\ IF place \in Waits THEN Lock ELSE UNCHANGED event_lock
  /\ place' = "cancelled"
  /\ UNCHANGED <<steady, ret, runs, flags, result, slot, app, sent>>

\* pthread_cond_wait returns without a signal: nothing is tested again.
SpuriousWake ==
  /\ \/ At("stop_wait", "stop_wake") /\ UNCHANGED spurious
     \/ At("event_wait", "event_wake") /\ spurious' = TRUE
  /\ UNCHANGED <<use_events, application, ret, runs, flags, event_lock, result, slot, app, sent>>

-----------------------------------------------------------------------------
(* spe_kill, for a thread that nobody has waited for *)

cond_signal == CASE place = "stop_wait"  -> "stop_wake"
                 [] place = "event_wait" -> "event_wake"
                 [] OTHER             -> place

\* SIGSTOP takes no lock.
Stop(c) ==
  /\ "SIGSTOP" \in Signals /\ sig[c] = NoOne
  /\ stop' = TRUE
  /\ last' = "SIGSTOP"
  /\ UNCHANGED <<steady, place, ret, runs, killed, event_pending, cancelled, event_lock,
                 result, slot, sig, reader, got, seen, answered, sent>>

KillBegin(c, s) ==
  /\ s \in Signals \ {"SIGSTOP"} /\ sig[c] = NoOne
  /\ \/ application = "any" /\ UNCHANGED answered
     \/ /\ application = "answers" /\ s = "SIGCONT"
        /\ answered < Len(seen) /\ answered' = answered + 1
  /\ sig' = [sig EXCEPT ![c] = s]
  /\ UNCHANGED <<steady, place, ret, runs, flags, event_lock, result, slot, reader, got,
                 seen, sent, last>>

\* The critical section of SIGCONT.
Cont(c) ==
  /\ sig[c] = "SIGCONT" /\ event_lock = NoOne
  /\ place' = IF stop \/ event_pending THEN cond_signal ELSE place
  /\ last' = "SIGCONT"
  /\ sig' = [sig EXCEPT ![c] = NoOne]
  /\ UNCHANGED <<steady, ret, runs, flags, event_lock, result, slot, reader, got, seen, answered, sent>>

\* Mutation: a waiting thread is neither woken nor cancelled.
Kill_OnlyMarks(c) ==
  /\ sig[c] = "SIGKILL" /\ event_lock = NoOne
  /\ killed' = TRUE
  /\ cancelled' = (cancelled \/ ~event_pending)
  /\ sig' = [sig EXCEPT ![c] = NoOne]
  /\ UNCHANGED <<steady, place, ret, runs, stop, event_pending, event_lock, result, slot,
                 reader, got, seen, answered, sent, last>>

\* The critical section of SIGKILL: a thread that waits with an event is woken
\* to find the flag, every other one is cancelled.
Kill(c) ==
  /\ sig[c] = "SIGKILL" /\ event_lock = NoOne
  /\ killed' = TRUE
  /\ IF event_pending THEN place' = cond_signal /\ UNCHANGED cancelled
                      ELSE cancelled' = TRUE /\ UNCHANGED place
  /\ sig' = [sig EXCEPT ![c] = NoOne]
  /\ UNCHANGED <<steady, ret, runs, stop, event_pending, event_lock, result, slot,
                 reader, got, seen, answered, sent, last>>

-----------------------------------------------------------------------------
(* spe_get_event, asking for the thread events, by one application thread *)

\* The scan finds the slot set.  The slot is read without event_lock.
GetSlot ==
  /\ reader = "idle" /\ event # "none"
  /\ got' = <<event, ev_data>>
  /\ reader' = "slot_read"
  /\ UNCHANGED <<steady, place, ret, runs, flags, event_lock, result, slot, sig, seen, answered, sent, last>>

\* Mutation: the entry stays in the pipe.
SlotRead_Leaves ==
  /\ reader = "slot_read"
  /\ reader' = "slot_clear"
  /\ UNCHANGED <<steady, place, ret, runs, flags, event_lock, result, slot, sig, got, seen, answered, sent, last>>

\* A blocking read, with grp_list.mutex held.
SlotRead ==
  /\ reader = "slot_read" /\ ev_pipe # <<>>
  /\ ev_pipe' = Tail(ev_pipe)
  /\ reader' = "slot_clear"
  /\ UNCHANGED <<steady, place, ret, runs, flags, event_lock, result, event, ev_data,
                 sig, got, seen, answered, sent, last>>

SlotClear ==
  /\ reader = "slot_clear"
  /\ ev_data' = 0 /\ event' = "none"
  /\ reader' = "idle" /\ got' = <<"none", 0>>
  /\ seen' = Append(seen, got)
  /\ UNCHANGED <<steady, place, ret, runs, flags, event_lock, result, ev_pipe, sig, answered, sent, last>>

\* The scan finds nothing and the call polls, with a time-out.
GetPoll ==
  /\ reader = "idle" /\ event = "none"
  /\ reader' = "poll"
  /\ UNCHANGED <<steady, place, ret, runs, flags, event_lock, result, slot, sig, got, seen, answered, sent, last>>

PollTimeout ==
  /\ reader = "poll" /\ ev_pipe = <<>>
  /\ reader' = "idle"
  /\ UNCHANGED <<steady, place, ret, runs, flags, event_lock, result, slot, sig, got, seen, answered, sent, last>>

PollRead ==
  /\ reader = "poll" /\ ev_pipe # <<>>
  /\ ev_pipe' = Tail(ev_pipe)
  /\ got' = <<Head(ev_pipe), 0>>
  /\ reader' = "poll_data"
  /\ UNCHANGED <<steady, place, ret, runs, flags, event_lock, result, event, ev_data,
                 sig, seen, answered, sent, last>>

PollData ==
  /\ reader = "poll_data"
  /\ got' = <<got[1], ev_data>>
  /\ ev_data' = 0
  /\ reader' = "poll_clear"
  /\ UNCHANGED <<steady, place, ret, runs, flags, event_lock, result, event, ev_pipe,
                 sig, seen, answered, sent, last>>

\* Mutation: the slot is not cleared after the pipe was read.
PollClear_KeepsEvent ==
  /\ reader = "poll_clear"
  /\ reader' = "idle" /\ got' = <<"none", 0>>
  /\ seen' = Append(seen, got)
  /\ UNCHANGED <<steady, place, ret, runs, flags, event_lock, result, slot, sig, answered,
                 sent, last>>

PollClear ==
  /\ reader = "poll_clear"
  /\ event' = "none"
  /\ reader' = "idle" /\ got' = <<"none", 0>>
  /\ seen' = Append(seen, got)
  /\ UNCHANGED <<steady, place, ret, runs, flags, event_lock, result, ev_data, ev_pipe,
                 sig, answered, sent, last>>

\* spe_wait_status: only the exit of the program is told from other ends.
spe_wait_status == IF ret_status = "end" THEN "exited" ELSE "SIGILL"

-----------------------------------------------------------------------------
Stopping == \/ StopCheck \/ StopLock \/ StopSleep \/ StopWake \/ StopUnlock \/ StopClear
Emit(kind) == SetEvent(kind) \/ SetData(kind) \/ WritePipe(kind)
Waiting == EventLock \/ EventOff \/ EventSleep \/ EventWake \/ EventUnlock \/ Loop
Ending == ErrorLock \/ ErrorUnlock \/ ErrorDone \/ Exit \/ Finish \/ Cancelled

SpeStep == Stopping \/ Waiting \/ Ending \/ \E kind \in Kinds : Emit(kind)
KillStep(c) == Cont(c) \/ Kill(c)
GetStep == SlotRead \/ SlotClear \/ PollTimeout \/ PollRead \/ PollData \/ PollClear

ThreadNext ==
  \/ RunBase \/ SpeStep \/ SpuriousWake
  \/ \E c \in Senders : Stop(c) \/ (\E s \in Signals : KillBegin(c, s)) \/ KillStep(c)
  \/ GetSlot \/ GetPoll \/ GetStep

ThreadSpec == ThreadInit /\ [][ThreadNext]_thread_vars

\* Threads are scheduled and a mutex that is released again and again is
\* granted to each waiter.  The program need not stop, nobody need call and no
\* wait need end by itself.
FairSpec ==
  /\ ThreadSpec
  /\ SF_thread_vars(SpeStep) /\ SF_thread_vars(Cancelled)
  /\ \A c \in Senders : SF_thread_vars(KillStep(c))
  /\ WF_thread_vars(GetStep)

-----------------------------------------------------------------------------
(* Properties *)

\* The labels of do_spe_run.
Places ==
  {"run", "stop_check", "stop_lock", "stop_sleep", "stop_wait", "stop_wake", "stop_unlock",
   "stop_clear", "event_lock", "event_off", "stop_slot", "stop_data", "stop_write",
   "event_sleep", "event_wait", "event_wake", "event_unlock", "loop",
   "error_lock", "error_slot", "error_data", "error_write", "error_unlock", "error_done",
   "exit", "exit_slot", "exit_data", "exit_write", "finish", "done", "cancelled"}

\* Every variable has its type; the pipe holds no more than it can.
ThreadTypeOK ==
  /\ place \in Places /\ ret \in {"end", "stop", "error"} /\ runs \in 0 .. MaxRuns
  /\ use_events \in BOOLEAN /\ stop \in BOOLEAN /\ killed \in BOOLEAN
  /\ event_pending \in BOOLEAN /\ cancelled \in BOOLEAN
  /\ application \in Applications
  /\ event_lock \in {NoOne, "spe"}
  /\ thread_status \in {2, 10, 20, 99} /\ ret_status \in {"zero", "end", "stop", "error"}
  /\ event \in Kinds \cup {"none"} /\ ev_data \in 0 .. MaxRuns
  /\ ev_pipe \in Seq(Kinds \cup {"none"}) /\ Len(ev_pipe) <= PipeSize
  /\ sig \in [Senders -> Signals \cup {NoOne}]
  /\ reader \in {"idle", "slot_read", "slot_clear", "poll", "poll_data", "poll_clear"}
  /\ got \in (Kinds \cup {"none"}) \X (0 .. MaxRuns)
  /\ sent \in Seq(Kinds \X (0 .. MaxRuns))
  /\ seen \in Seq((Kinds \cup {"none"}) \X (0 .. MaxRuns))
  /\ answered \in Nat /\ last \in {"SIGSTOP", "SIGCONT"} /\ spurious \in BOOLEAN

\* SIGKILL ends the thread, at whatever point it meets it: running, stopped,
\* waiting with an event, or between two of these.
KillEnds == killed ~> Ended

\* A SIGCONT that is sent while the thread reports a stop always wakes it, for
\* the sender waits for event_lock until the thread waits for the signal.
ContWakes ==
  \A c \in Senders :
    sig[c] = "SIGCONT" /\ place \in {"stop_slot", "stop_data", "stop_write", "event_sleep", "event_wait"}
      ~> place \in {"loop", "run", "exit"} \cup {"cancelled"}

\* "SPE events are queued, ensuring that if multiple events are generated, each
\* is delivered; SPE events are delivered in the order received."
InOrder == IsPrefix([i \in DOMAIN seen |-> seen[i][1]], [i \in DOMAIN sent |-> sent[i][1]])

\* This holds for an application that receives each event before it answers it
\* with SIGCONT, as long as no wait for the answer ends without it.
EventsInOrder == application = "answers" /\ ~ spurious => InOrder

\* The promise has no such condition: it fails for that application, too, when
\* the thread goes on unanswered.
AnsweredInOrder == application = "answers" => InOrder

\* "SPE events have associated data": an event comes with the data of the run
\* it reports.
EventData == \A i \in DOMAIN seen : i \in DOMAIN sent => seen[i] = sent[i]

\* A call of spe_get_event that found an event returns.
ReadReturns == reader = "slot_read" ~> reader = "idle"

\* It does in such an application: the pipe holds what the slot announces.
GetEventReturns == application = "answers" => ReadReturns

\* "SIGCONT Resume execution of the specified SPE thread."
ContResumes == last = "SIGCONT" ~> place # "stop_wait" \/ last = "SIGSTOP"

\* "SIGSTOP Stop execution of the specified SPE thread": a request is kept until
\* the thread was told to go on.
StopIsKept == [][stop /\ ~stop' => last = "SIGCONT"]_thread_vars

\* "On success, 0 is returned. On error, -1 is returned": spe_kill returns.
KillReturns == \A c \in Senders : sig[c] # NoOne ~> sig[c] = NoOne

\* "WNOHANG Return immediately if the SPE thread has not exited": of a thread
\* that has exited, spe_wait with WNOHANG must find thread_status at 99.
ExitIsSeen == Ended => thread_status = 99

\* "WTERMSIG(status) Returns the number of the signal that caused the SPE thread
\* to terminate."
TermSignal == place = "cancelled" => spe_wait_status = "SIGKILL"
=============================================================================
