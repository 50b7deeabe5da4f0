--------------------------- MODULE SpeEventProofs ---------------------------
(***************************************************************************)
(* Theorems about SpeEvent, for any number of threads and handlers.        *)
(***************************************************************************)
EXTENDS SpeEvent, FiniteSetTheorems, TLAPS

-----------------------------------------------------------------------------
(* Type correctness *)

LEMMA GotoType ==
  ASSUME ThreadsType, NEW t \in Threads, NEW label \in PC, Goto(t, label)
  PROVE  pc' \in [Threads -> PC]
  BY DEF Goto, ThreadsType

LEMMA ReturnType ==
  ASSUME ThreadsType, NEW t \in Threads, Return(t)
  PROVE  /\ pc' \in [Threads -> PC]
         /\ arg' \in [Threads -> [h : Handlers \cup {None}, todo : SUBSET Sources]]
<1>1. "idle" \in PC
  BY DEF PC
<1> QED BY <1>1 DEF Return, Goto, ThreadsType, NoArg

\* The thread variables keep their types whenever a thread moves on.
LEMMA ThreadsTypeStep ==
  ASSUME ThreadsType, [Next]_vars
  PROVE  ThreadsType'
<1>1. CASE UNCHANGED vars
  BY <1>1 DEF vars, ThreadsType
<1>2. ASSUME NEW t \in Threads, Call(t) PROVE ThreadsType'
  <2>1. ASSUME NEW h \in Handlers, NEW todo \in SUBSET Sources,
               NEW label \in PC, Begin(t, label, h, todo)
        PROVE  ThreadsType'
    BY <2>1, GotoType DEF Begin, ThreadsType
  <2>2. {"reg_lock", "dereg_lock", "wait_copy", "run_lock", "read_lock"} \subseteq PC
    BY DEF PC
  <2>3. CASE RunBase(t) \/ ReadBegin(t)
    BY <2>3, <2>2, GotoType DEF RunBase, ReadBegin, ThreadsType
  <2>4. Requests \subseteq SUBSET Sources
    BY ConstantsAssumption
  <2> QED BY <1>2, <2>1, <2>2, <2>3, <2>4 DEF Call, RegisterBegin, DeregisterBegin, WaitEpoll
<1>3. ASSUME NEW t \in Threads, Step(t) \/ RunInterrupted(t) PROVE ThreadsType'
  <2>1. PC = PC \cup {"reg_source", "reg_acquire", "reg_epoll", "dereg_source",
                      "dereg_epoll", "dereg_release", "run_fd", "run_acquire", "run_write",
                      "run_relock", "run_release", "read"}
    BY DEF PC
  <2>2. ASSUME NEW from, NEW to \in PC, ContextLock(t, from, to) \/ StopLock(t, from, to)
        PROVE  ThreadsType'
    BY <2>2, GotoType DEF ContextLock, StopLock, ThreadsType
  <2>3. ASSUME NEW s \in Sources, RegisterSource(t, s) \/ DeregisterSource(t, s) \/ WaitCopy(t, s)
        PROVE  ThreadsType'
    <3>1. CASE Return(t) /\ UNCHANGED fd
      BY <3>1, ReturnType DEF ThreadsType
    <3>2. CASE arg' = [arg EXCEPT ![t].todo = @ \ {s}] /\ UNCHANGED <<pc, fd>>
      BY <3>2 DEF ThreadsType
    <3> QED BY <2>3, <3>1, <3>2
            DEF RegisterSource, DeregisterSource, WaitCopy, SourceDone, UnlockAndReturn
  <2>4. fd \in [Threads -> {None, "pipe", "stale"}]
    BY DEF ThreadsType
  <2>5. ASSUME NEW base, pipe_release(base), Return(t) PROVE ThreadsType'
    BY <2>4, <2>5, ReturnType DEF pipe_release, pipe_close, ThreadsType
  <2>6. CASE RegisterAcquire(t) \/ DeregisterEpoll(t) \/ RunBuffer(t) \/ Read(t)
    BY <2>6, <2>1, ReturnType, GotoType
       DEF RegisterAcquire, DeregisterEpoll, RunBuffer, Read, UnlockAndReturn, ThreadsType
  <2>7. CASE RegisterEpoll(t) \/ DeregisterRelease(t) \/ RunRelease(t)
    BY <2>7, <2>5, ReturnType
       DEF RegisterEpoll, DeregisterRelease, RunRelease, UnlockAndReturn, ThreadsType
  <2>8. CASE RunCapture(t) \/ RunAcquire(t) \/ RunWrite(t) \/ RunInterrupted(t)
    BY <2>8, <2>1, GotoType DEF RunCapture, RunAcquire, RunWrite, RunInterrupted, ThreadsType
  <2> QED BY <1>3, <2>1, <2>2, <2>3, <2>6, <2>7, <2>8
          DEF Step, RegisterLock, DeregisterLock, RegisterStopLock, DeregisterStopLock,
              RunLock, RunRelock, ReadLock
<1>4. CASE \E h \in Handlers : HandlerCreate(h) \/ HandlerDestroy(h)
  BY <1>4 DEF HandlerCreate, HandlerDestroy, ThreadsType
<1>5. CASE Finalize \/ Initialize
  BY <1>5 DEF Finalize, Initialize, ThreadsType
<1> QED BY <1>1, <1>2, <1>3, <1>4, <1>5 DEF Next

\* A thread inside register, deregister or wait works on a handler.
HandlerPC == {"reg_lock", "reg_source", "reg_acquire", "reg_epoll",
              "dereg_lock", "dereg_source", "dereg_epoll", "dereg_release", "wait_copy"}

HandlerCalls == \A t \in Threads : pc[t] \in HandlerPC => arg[t].h \in Handlers

LEMMA HandlerCallsStep ==
  ASSUME ThreadsType, HandlerCalls, [Next]_vars
  PROVE  HandlerCalls'
<1> USE DEF ThreadsType, HandlerCalls, HandlerPC
<1>1. CASE UNCHANGED vars
  BY <1>1 DEF vars
<1>2. ASSUME NEW t \in Threads, NEW label, Goto(t, label),
             \/ UNCHANGED arg /\ (label \in HandlerPC => pc[t] \in HandlerPC)
             \/ arg' = [arg EXCEPT ![t].todo = @ \ {STOPPED}] /\ pc[t] \in HandlerPC
             \/ \E h \in Handlers : \E todo : arg' = [arg EXCEPT ![t] = [h |-> h, todo |-> todo]]
      PROVE  HandlerCalls'
  BY <1>2 DEF Goto
<1>3. ASSUME NEW t \in Threads, Return(t) PROVE HandlerCalls'
  BY <1>3 DEF Return, Goto, NoArg
<1>4. ASSUME NEW t \in Threads, Call(t) PROVE HandlerCalls'
  BY <1>2, <1>4 DEF Call, RegisterBegin, DeregisterBegin, WaitEpoll, RunBase, ReadBegin, Begin
<1>5. ASSUME NEW t \in Threads, NEW s \in Sources,
             RegisterSource(t, s) \/ DeregisterSource(t, s) \/ WaitCopy(t, s)
      PROVE  HandlerCalls'
  <2>1. CASE arg' = [arg EXCEPT ![t].todo = @ \ {s}] /\ UNCHANGED pc
    BY <2>1
  <2> QED BY <1>3, <1>5, <2>1
          DEF RegisterSource, DeregisterSource, WaitCopy, SourceDone, UnlockAndReturn
<1>6. ASSUME NEW t \in Threads, Step(t) \/ RunInterrupted(t) PROVE HandlerCalls'
  <2>1. CASE RegisterAcquire(t) \/ DeregisterEpoll(t) \/ RegisterEpoll(t) \/ DeregisterRelease(t)
             \/ RunBuffer(t) \/ RunRelease(t) \/ Read(t)
    BY <1>2, <1>3, <2>1 DEF RegisterAcquire, DeregisterEpoll, RegisterEpoll, DeregisterRelease,
                            RunBuffer, RunRelease, Read, UnlockAndReturn
  <2> QED BY <1>2, <1>5, <1>6, <2>1
          DEF Step, RunInterrupted, RegisterLock, DeregisterLock, ContextLock,
              RegisterStopLock, DeregisterStopLock, RunLock, RunRelock, ReadLock, StopLock,
              RunCapture, RunAcquire, RunWrite
<1>7. CASE \/ \E h \in Handlers : HandlerCreate(h) \/ HandlerDestroy(h)
           \/ Finalize \/ Initialize
  BY <1>7 DEF HandlerCreate, HandlerDestroy, Finalize, Initialize
<1> QED BY <1>1, <1>4, <1>6, <1>7 DEF Next

PipeType ==
  /\ pipe \in {"closed", "open"}
  /\ content \in Seq(Threads) /\ Len(content) <= PipeCap
  /\ handler_count \in Int

LEMMA AcquireType ==
  ASSUME TypeOK, pipe_acquire
  PROVE  PipeType' /\ buffer' \in Threads \cup {None}
<1>1. <<>> \in Seq(Threads) /\ Len(<<>>) <= PipeCap
  BY ConstantsAssumption
<1> QED BY <1>1 DEF TypeOK, PipeType, pipe_acquire

LEMMA ReleaseType ==
  ASSUME TypeOK, NEW base \in SUBSET (Handlers \X Sources), pipe_release(base)
  PROVE  PipeType' /\ interest' \subseteq Handlers \X Sources
<1>1. <<>> \in Seq(Threads) /\ Len(<<>>) <= PipeCap
  BY ConstantsAssumption
<1>2. base \ (Handlers \X {STOPPED}) \subseteq Handlers \X Sources
  OBVIOUS
<1>3. CASE pipe_close(base)
  BY <1>1, <1>2, <1>3 DEF TypeOK, PipeType, pipe_release, pipe_close
<1>4. CASE interest' = base /\ UNCHANGED <<pipe, content>>
  BY <1>4 DEF TypeOK, PipeType, pipe_release
<1> QED BY <1>3, <1>4 DEF pipe_release

\* Every variable of the event layer keeps its type.
THEOREM TypeCorrect == Spec => []TypeOK
<1>1. Init => TypeOK /\ HandlerCalls
  BY ConstantsAssumption
  DEF Init, InitialContext, TypeOK, ThreadsType, HandlerCalls, HandlerPC, NoArg, PC
<1>2. TypeOK /\ HandlerCalls /\ [Next]_vars => TypeOK' /\ HandlerCalls'
  <2> SUFFICES ASSUME TypeOK, HandlerCalls, [Next]_vars PROVE TypeOK'
    BY HandlerCallsStep DEF TypeOK
  <2>1. ThreadsType'
    BY ThreadsTypeStep DEF TypeOK
  <2>2. ASSUME NEW t \in Threads PROVE arg[t].h \in Handlers \cup {None}
    BY DEF TypeOK, ThreadsType
  <2>8. /\ <<>> \in Seq(Threads) /\ Len(<<>>) <= PipeCap
        /\ 0 \in Nat /\ {} \subseteq Handlers \X Sources
    BY ConstantsAssumption
  <2>9. [s \in Sources |-> None] \in [Sources -> Handlers \cup {None}]
    OBVIOUS
  <2>3. CASE UNCHANGED vars
    BY <2>1, <2>3 DEF vars, evctx, TypeOK
  <2>4. ASSUME NEW t \in Threads, Call(t) \/ RunInterrupted(t) PROVE TypeOK'
    BY <2>1, <2>4 DEF Call, RegisterBegin, DeregisterBegin, WaitEpoll, RunBase, ReadBegin,
                      Begin, RunInterrupted, evctx, TypeOK
  <2>5. ASSUME NEW t \in Threads, Step(t) PROVE TypeOK'
    <3>1. CASE \E from, to : ContextLock(t, from, to) \/ StopLock(t, from, to)
      BY <2>1, <3>1 DEF ContextLock, StopLock, TypeOK
    <3>2. CASE RegisterAcquire(t)
      <4>1. CASE pipe_acquire /\ events' = [events EXCEPT ![STOPPED] = arg[t].h]
        BY <2>1, <2>2, <3>2, <4>1, AcquireType DEF RegisterAcquire, UnlockAndReturn, PipeType, TypeOK
      <4>2. CASE UNCHANGED <<pipe, content, buffer, handler_count, events>>
        BY <2>1, <3>2, <4>2 DEF RegisterAcquire, UnlockAndReturn, TypeOK
      <4> QED BY <3>2, <4>1, <4>2 DEF RegisterAcquire
    <3>3. ASSUME NEW base \in SUBSET (Handlers \X Sources), pipe_release(base),
                 lock' \in {lock, None}, stop_lock' = None,
                 UNCHANGED <<buffer, events, handlers, orphans, alive>>
          PROVE  TypeOK'
      BY <2>1, <3>3, ReleaseType DEF PipeType, TypeOK
    <3>4. CASE RegisterEpoll(t)
      <4>1. CASE pipe_release(interest)
        BY <3>3, <3>4, <4>1 DEF RegisterEpoll, UnlockAndReturn, TypeOK
      <4>2. CASE ~pipe_release(interest)
        <5>1. arg[t].h \in Handlers
          BY <3>4 DEF RegisterEpoll, HandlerCalls, HandlerPC
        <5> QED BY <2>1, <3>4, <4>2, <5>1 DEF RegisterEpoll, UnlockAndReturn, TypeOK, Sources
      <4> QED BY <4>1, <4>2
    <3>5. CASE DeregisterEpoll(t)
      BY <2>1, <3>5 DEF DeregisterEpoll, UnlockAndReturn, TypeOK
    <3>6. CASE DeregisterRelease(t) \/ RunRelease(t)
      BY <3>3, <3>6 DEF DeregisterRelease, RunRelease, UnlockAndReturn, TypeOK
    <3>7. ASSUME NEW s \in Sources, RegisterSource(t, s) \/ DeregisterSource(t, s) \/ WaitCopy(t, s)
          PROVE  TypeOK'
      <4>1. CASE WaitCopy(t, s)
        BY <2>1, <4>1 DEF WaitCopy, evctx, TypeOK
      <4>2. CASE RegisterSource(t, s)
        <5>1. arg[t].h \in Handlers
          BY <4>2 DEF RegisterSource, HandlerCalls, HandlerPC
        <5>2. lock' \in {lock, None}
          BY <4>2 DEF RegisterSource, SourceDone, UnlockAndReturn
        <5>3. /\ events' = events \/ events' = [events EXCEPT ![s] = arg[t].h]
              /\ interest' \subseteq interest \cup {<<arg[t].h, s>>}
          BY <4>2 DEF RegisterSource
        <5>4. events' \in [Sources -> Handlers \cup {None}]
          BY <5>1, <5>3 DEF TypeOK
        <5>5. interest' \subseteq Handlers \X Sources
          BY <5>1, <5>3 DEF TypeOK
        <5> QED BY <2>1, <4>2, <5>2, <5>4, <5>5 DEF RegisterSource, TypeOK
      <4>3. CASE DeregisterSource(t, s)
        <5>1. lock' \in {lock, None}
          BY <4>3 DEF DeregisterSource, SourceDone, UnlockAndReturn
        <5> QED BY <2>1, <4>3, <5>1 DEF DeregisterSource, TypeOK
      <4> QED BY <3>7, <4>1, <4>2, <4>3
    <3>8. CASE RunBuffer(t) \/ RunCapture(t)
      BY <2>1, <3>8 DEF RunBuffer, RunCapture, evctx, TypeOK
    <3>10. CASE RunWrite(t)
      <4>1. /\ content' \in {content, Append(content, t)}
            /\ content' = Append(content, t) => Len(content) < PipeCap
        BY <3>10 DEF RunWrite
      <4>2. content' \in Seq(Threads) /\ Len(content') <= PipeCap
        BY <4>1, ConstantsAssumption DEF TypeOK
      <4> QED BY <2>1, <3>10, <4>2 DEF RunWrite, TypeOK
    <3>11. CASE Read(t)
      <4>1. content' = content \/ (content # <<>> /\ content' = Tail(content))
        BY <3>11 DEF Read
      <4>2. content # <<>> => /\ Tail(content) \in Seq(Threads)
                              /\ Len(Tail(content)) = Len(content) - 1
        BY DEF TypeOK
      <4>3. content' \in Seq(Threads) /\ Len(content') <= PipeCap
        BY <4>1, <4>2, ConstantsAssumption DEF TypeOK
      <4>4. buffer' \in {buffer, None}
        BY <3>11 DEF Read
      <4>5. UNCHANGED <<lock, pipe, handler_count, events, handlers, interest, orphans, alive>>
            /\ stop_lock' = None
        BY <3>11 DEF Read
      <4> QED BY <2>1, <4>3, <4>4, <4>5 DEF TypeOK
    <3>9. CASE RunAcquire(t)
      BY <2>1, <3>9, AcquireType DEF RunAcquire, PipeType, TypeOK
    <3> QED BY <2>5, <3>1, <3>2, <3>4, <3>5, <3>6, <3>7, <3>8, <3>9, <3>10, <3>11
            DEF Step, RegisterLock, DeregisterLock, RegisterStopLock, DeregisterStopLock,
                RunLock, RunRelock, ReadLock
  <2>6. ASSUME NEW h \in Handlers, HandlerCreate(h) \/ HandlerDestroy(h) PROVE TypeOK'
    BY <2>1, <2>6 DEF HandlerCreate, HandlerDestroy, evctx, TypeOK
  <2>7. CASE Finalize \/ Initialize
    <3>1. CASE Finalize
      BY <2>1, <2>8, <3>1 DEF Finalize, TypeOK
    <3>2. CASE Initialize
      BY <2>1, <2>8, <2>9, <3>2 DEF Initialize, TypeOK
    <3> QED BY <2>7, <3>1, <3>2
  <2> QED BY <2>3, <2>4, <2>5, <2>6, <2>7 DEF Next
<1> QED BY <1>1, <1>2, PTL DEF Spec

-----------------------------------------------------------------------------
(* The inductive invariant *)

\* stop_event_lock is held in the critical sections.
LockHeld == \A t \in Threads : pc[t] \in StopCS => stop_lock = t

\* A thread has a captured descriptor exactly until its write() is over, and the
\* descriptor is not stale; before the thread counts as a user of the pipe, the
\* lock keeps the pipe open.
CapturePC == {"run_acquire", "run_write"}
Captured ==
  \A t \in Threads :
    /\ fd[t] = IF pc[t] \in CapturePC THEN "pipe" ELSE None
    /\ pc[t] = "run_acquire" => pipe = "open"

\* The counter decides whether the pipe is open.
PipeCount == alive => (pipe = "open" <=> handler_count > 0)

\* A destroyed context is quiet.
Quiet ==
  ~alive => /\ pipe = "closed" /\ interest = {} /\ orphans = 0
            /\ \A t \in Threads : pc[t] = "idle"

\* A closed pipe holds nothing.
ClosedIsEmpty == pipe = "closed" => content = <<>>

IInv ==
  /\ TypeOK /\ HandlerCalls
  /\ LockHeld /\ Captured /\ StopCount /\ PipeCount /\ Quiet /\ ClosedIsEmpty /\ OneHome

LEMMA FiniteSets ==
  /\ IsFiniteSet(Registered) /\ IsFiniteSet(Users)
  /\ Cardinality(Registered) \in Nat /\ Cardinality(Users) \in Nat
<1>1. Registered \in SUBSET Handlers /\ Users \in SUBSET Threads
  BY DEF Registered, Users
<1>2. IsFiniteSet(Registered) /\ IsFiniteSet(Users)
  BY <1>1, FS_Subset, ConstantsAssumption
<1> QED BY <1>2, FS_CardinalityType

\* How the number of users changes when a thread moves from one label to another.
LEMMA UsersMove ==
  ASSUME TypeOK, NEW t \in Threads, NEW label, Goto(t, label)
  PROVE  Cardinality(Users') = Cardinality(Users)
                               + (IF label \in UserPC THEN 1 ELSE 0)
                               - (IF pc[t] \in UserPC THEN 1 ELSE 0)
<1>1. \A u \in Threads : pc'[u] = IF u = t THEN label ELSE pc[u]
  BY DEF Goto, TypeOK, ThreadsType
<1>2. CASE label \in UserPC
  <2>1. Users' = Users \cup {t}
    BY <1>1, <1>2 DEF Users
  <2>2. t \in Users <=> pc[t] \in UserPC
    BY DEF Users
  <2>3. Cardinality(Users \cup {t}) = IF t \in Users THEN Cardinality(Users) ELSE Cardinality(Users) + 1
    BY FiniteSets, FS_AddElement
  <2>4. Cardinality(Users') = IF t \in Users THEN Cardinality(Users) ELSE Cardinality(Users) + 1
    BY <2>1, <2>3
  <2> QED BY <1>2, <2>2, <2>4, FiniteSets
<1>3. CASE label \notin UserPC
  <2>1. Users' = Users \ {t}
    BY <1>1, <1>3 DEF Users
  <2>2. t \in Users <=> pc[t] \in UserPC
    BY DEF Users
  <2>3. Cardinality(Users \ {t}) = IF t \in Users THEN Cardinality(Users) - 1 ELSE Cardinality(Users)
    BY FiniteSets, FS_RemoveElement
  <2>4. Cardinality(Users') = IF t \in Users THEN Cardinality(Users) - 1 ELSE Cardinality(Users)
    BY <2>1, <2>3
  <2> QED BY <1>3, <2>2, <2>4, FiniteSets
<1> QED BY <1>2, <1>3

LEMMA RegisteredAdd ==
  ASSUME NEW h \in Handlers, h \notin Registered, interest' = interest \cup {<<h, STOPPED>>}
  PROVE  Cardinality(Registered') = Cardinality(Registered) + 1
<1>1. Registered' = Registered \cup {h}
  BY DEF Registered
<1> QED BY <1>1, FiniteSets, FS_AddElement

LEMMA RegisteredRemove ==
  ASSUME NEW h \in Handlers, h \in Registered,
         NEW S, <<h, STOPPED>> \in S, S \subseteq {h} \X Sources, interest' = interest \ S
  PROVE  Cardinality(Registered') = Cardinality(Registered) - 1
<1>1. Registered' = Registered \ {h}
  BY DEF Registered
<1> QED BY <1>1, FiniteSets, FS_RemoveElement

\* stop_event_lock is taken before and released after every critical section.
LEMMA LockHeldStep ==
  ASSUME TypeOK, LockHeld, Quiet, [Next]_vars
  PROVE  LockHeld'
<1> USE DEF LockHeld
<1>1. CASE UNCHANGED vars
  BY <1>1 DEF vars, evctx
<1>2. ASSUME NEW t \in Threads, NEW label, Goto(t, label), label \notin StopCS,
             stop_lock' = stop_lock \/ (pc[t] \in StopCS /\ stop_lock' = None)
      PROVE  LockHeld'
  BY <1>2 DEF Goto, TypeOK, ThreadsType
<1>3. ASSUME NEW t \in Threads, NEW label \in StopCS, Goto(t, label), UNCHANGED stop_lock,
             pc[t] \in StopCS
      PROVE  LockHeld'
  BY <1>3 DEF Goto, TypeOK, ThreadsType
<1>4. ASSUME NEW t \in Threads, NEW from, NEW to, StopLock(t, from, to)
      PROVE  LockHeld'
  <2>1. \A u \in Threads : pc[u] \notin StopCS
    BY <1>4, ConstantsAssumption DEF StopLock
  <2> QED BY <1>4, <2>1 DEF StopLock, Goto, TypeOK, ThreadsType
<1>5. UNCHANGED <<pc, stop_lock>> => LockHeld'
  OBVIOUS
<1>6. ASSUME NEW t \in Threads, Return(t),
             stop_lock' = stop_lock \/ (pc[t] \in StopCS /\ stop_lock' = None)
      PROVE  LockHeld'
  BY <1>2, <1>6 DEF Return, StopCS
<1>7. ASSUME NEW t \in Threads, Call(t) \/ RunInterrupted(t) PROVE LockHeld'
  BY <1>2, <1>7 DEF Call, RegisterBegin, DeregisterBegin, WaitEpoll, RunBase, ReadBegin, Begin,
                    RunInterrupted, evctx, StopCS
<1>8. ASSUME NEW t \in Threads, Step(t) PROVE LockHeld'
  <2>1. CASE RegisterLock(t) \/ DeregisterLock(t)
    BY <1>2, <2>1 DEF RegisterLock, DeregisterLock, ContextLock, StopCS
  <2>2. CASE RegisterAcquire(t) \/ RegisterEpoll(t) \/ DeregisterEpoll(t) \/ DeregisterRelease(t)
    BY <1>3, <1>6, <2>2
    DEF RegisterAcquire, RegisterEpoll, DeregisterEpoll, DeregisterRelease, UnlockAndReturn, StopCS
  <2>3. ASSUME NEW s \in Sources, RegisterSource(t, s) \/ DeregisterSource(t, s) \/ WaitCopy(t, s)
        PROVE  LockHeld'
    BY <1>5, <1>6, <2>3
    DEF RegisterSource, DeregisterSource, WaitCopy, SourceDone, UnlockAndReturn, evctx
  <2>4. CASE RunBuffer(t) \/ RunRelease(t) \/ Read(t)
    BY <1>6, <2>4 DEF RunBuffer, RunRelease, Read, StopCS
  <2>5. CASE RunCapture(t) \/ RunAcquire(t) \/ RunWrite(t)
    BY <1>2, <1>3, <2>5 DEF RunCapture, RunAcquire, RunWrite, StopCS, evctx
  <2> QED BY <1>4, <1>8, <2>1, <2>2, <2>3, <2>4, <2>5
          DEF Step, RegisterStopLock, DeregisterStopLock, RunLock, RunRelock, ReadLock
<1>9. CASE \E h \in Handlers : HandlerCreate(h) \/ HandlerDestroy(h)
  BY <1>5, <1>9 DEF HandlerCreate, HandlerDestroy, evctx
<1>10. CASE Finalize \/ Initialize
  BY <1>10 DEF Finalize, Initialize, Quiet, StopCS
<1> QED BY <1>1, <1>7, <1>8, <1>9, <1>10 DEF Next

\* What a step must show once types and locks are settled.
Rest == Captured /\ StopCount /\ PipeCount /\ Quiet /\ ClosedIsEmpty /\ OneHome

\* While the context lives the counter is a natural number.
LEMMA CountIsNat ==
  ASSUME IInv, alive
  PROVE  /\ handler_count = Cardinality(Registered) + Cardinality(Users) + orphans
         /\ handler_count \in Nat
         /\ Users # {} => handler_count > 0
         /\ Registered # {} => handler_count > 0
         /\ pipe = "open" <=> handler_count > 0
<1>1. Users # {} => Cardinality(Users) # 0
  BY FiniteSets, FS_EmptySet
<1>2. Registered # {} => Cardinality(Registered) # 0
  BY FiniteSets, FS_EmptySet
<1> QED BY <1>1, <1>2, FiniteSets DEF IInv, StopCount, PipeCount, TypeOK

\* Steps that leave the pipe, its users and its registrations alone.
LEMMA FrameStep ==
  ASSUME IInv, alive, NEW t \in Threads, NEW label, Goto(t, label),
         pc[t] \in UserPC <=> label \in UserPC,
         pc[t] \notin CapturePC, label \notin CapturePC,
         UNCHANGED <<pipe, handler_count, orphans, alive, fd>>, Registered' = Registered,
         content' = content \/ pipe = "open",
         buffer' \in {buffer, None} \/ pipe = "closed"
  PROVE  Rest'
<1>1. Cardinality(Users') = Cardinality(Users)
  BY UsersMove, FiniteSets DEF IInv
<1>2. StopCount'
  BY <1>1 DEF IInv, StopCount
<1>3. Captured'
  BY DEF IInv, Captured, CapturePC, Goto, TypeOK, ThreadsType
<1> QED BY <1>2, <1>3 DEF IInv, Rest, PipeCount, Quiet, ClosedIsEmpty, OneHome, TypeOK

\* stop_event_pipe_acquire by a thread that becomes a user of the pipe.
LEMMA AcquireStep ==
  ASSUME IInv, alive, NEW t \in Threads, NEW label \in UserPC, Goto(t, label),
         pc[t] \notin UserPC, pc[t] \in CapturePC <=> label \in CapturePC,
         pipe_acquire, UNCHANGED <<orphans, alive, fd, interest>>
  PROVE  Rest'
<1>1. Cardinality(Users') = Cardinality(Users) + 1
  BY UsersMove, FiniteSets DEF IInv
<1>2. handler_count' = handler_count + 1 /\ pipe' = "open"
  BY CountIsNat DEF pipe_acquire, IInv, TypeOK
<1>3. Registered' = Registered
  BY DEF Registered
<1>7. orphans \in Nat
  BY DEF IInv, TypeOK
<1>8. handler_count' = Cardinality(Registered') + Cardinality(Users') + orphans'
  BY <1>1, <1>2, <1>3, <1>7, CountIsNat, FiniteSets
<1>4. StopCount' /\ PipeCount'
  BY <1>2, <1>8, CountIsNat DEF StopCount, PipeCount
<1>5. Captured'
  BY <1>2 DEF IInv, Captured, CapturePC, UserPC, Goto, TypeOK, ThreadsType
<1>6. OneHome'
  BY <1>2, CountIsNat DEF IInv, OneHome, pipe_acquire, TypeOK
<1> QED BY <1>2, <1>4, <1>5, <1>6 DEF Rest, Quiet, ClosedIsEmpty

\* A thread in a critical section that finds the counter at one, and is itself a
\* user, is the last one: no handler is registered, no thread has captured the pipe.
LEMMA LastUser ==
  ASSUME IInv, alive, NEW t \in Users, pc[t] \in StopCS, pc[t] \notin CapturePC,
         handler_count = 1
  PROVE  /\ Registered = {} /\ Users = {t} /\ orphans = 0
         /\ \A u \in Threads : pc[u] \notin CapturePC
<1>1. Cardinality(Registered) = 0 /\ Cardinality(Users) = 1 /\ orphans = 0
  <2>1. Cardinality(Users) # 0
    BY FiniteSets, FS_EmptySet
  <2> QED BY <2>1, CountIsNat, FiniteSets DEF IInv, TypeOK
<1>2. Registered = {} /\ Users = {t}
  <2>1. \E x : Users = {x}
    BY <1>1, FiniteSets, FS_Singleton
  <2> QED BY <1>1, <2>1, FiniteSets, FS_EmptySet
<1>3. ASSUME NEW u \in Threads, pc[u] = "run_acquire" PROVE FALSE
  <2>1. t \in Threads
    BY DEF Users
  <2> QED BY <1>3, <2>1 DEF IInv, LockHeld, StopCS, CapturePC
<1>4. ASSUME NEW u \in Threads, pc[u] = "run_write" PROVE FALSE
  BY <1>2, <1>4 DEF Users, UserPC, CapturePC
<1> QED BY <1>1, <1>2, <1>3, <1>4 DEF CapturePC

\* stop_event_pipe_release: when the counter reaches zero, no other thread has
\* captured the pipe.
LEMMA ReleaseStep ==
  ASSUME IInv, NEW t \in Threads, pc[t] \in {"reg_epoll", "dereg_release", "run_release"},
         pipe_release(interest), Return(t), UNCHANGED <<buffer, orphans, alive>>
  PROVE  Rest'
<1>1. alive
  BY DEF IInv, Quiet
<1>2. t \in Users /\ pc[t] \in StopCS /\ pc[t] \notin CapturePC
  BY DEF Users, UserPC, StopCS, CapturePC
<1>3. Cardinality(Users') = Cardinality(Users) - 1
  BY <1>2, UsersMove, FiniteSets DEF IInv, Return, UserPC, Users
<1>4. \A u \in Threads : pc'[u] = IF u = t THEN "idle" ELSE pc[u]
  BY DEF Return, Goto, IInv, TypeOK, ThreadsType
<1>5. CASE handler_count = 1
  <2>1. Registered = {} /\ Users = {t} /\ orphans = 0
    BY <1>1, <1>2, <1>5, LastUser
  <2>2. Cardinality(Users) = 1
    BY <2>1, FS_Singleton
  <2>3. \A u \in Threads : pc[u] \notin CapturePC
    BY <1>1, <1>2, <1>5, LastUser
  <2>4. pipe_close(interest) /\ handler_count' = 0
    BY <1>5 DEF pipe_release
  <2>5. Registered' = {}
    BY <2>4 DEF pipe_close, Registered
  <2>6. \A u \in Threads : fd[u] = None /\ fd'[u] = None
    BY <2>3, <2>4 DEF pipe_close, IInv, Captured
  <2>7. Captured'
    BY <2>3, <2>6, <1>4 DEF Captured, CapturePC
  <2>8. Cardinality(Users') = 0 /\ Cardinality(Registered') = 0
    BY <1>3, <2>2, <2>5, FS_EmptySet
  <2>9. StopCount' /\ PipeCount'
    BY <2>1, <2>4, <2>8 DEF StopCount, PipeCount, pipe_close
  <2> QED BY <1>1, <2>4, <2>7, <2>9 DEF Rest, Quiet, ClosedIsEmpty, OneHome, pipe_close
<1>6. CASE handler_count # 1
  <2>1. handler_count' = handler_count - 1 /\ UNCHANGED <<interest, pipe, content, fd>>
    BY <1>6 DEF pipe_release
  <2>2. Registered' = Registered
    BY <2>1 DEF Registered
  <2>3. handler_count > 1
    BY <1>1, <1>2, <1>6, CountIsNat
  <2>6. orphans \in Nat
    BY DEF IInv, TypeOK
  <2>7. handler_count' = Cardinality(Registered') + Cardinality(Users') + orphans'
    BY <1>1, <1>3, <2>1, <2>2, <2>6, CountIsNat, FiniteSets
  <2>4. StopCount' /\ PipeCount'
    BY <1>1, <2>1, <2>3, <2>7, CountIsNat DEF StopCount, PipeCount
  <2>5. Captured'
    BY <1>2, <1>4, <2>1 DEF Captured, CapturePC, IInv
  <2> QED BY <1>1, <2>1, <2>4, <2>5 DEF IInv, Rest, Quiet, ClosedIsEmpty, OneHome
<1> QED BY <1>5, <1>6

LEMMA SourceStep ==
  ASSUME IInv, NEW t \in Threads, NEW s \in Sources,
         RegisterSource(t, s) \/ DeregisterSource(t, s) \/ WaitCopy(t, s)
  PROVE  Rest'
<1>1. alive
  BY DEF RegisterSource, DeregisterSource, WaitCopy, IInv, Quiet
<1>2. Registered' = Registered
  BY DEF RegisterSource, DeregisterSource, WaitCopy, FileSources, STOPPED, Registered
<1>3. UNCHANGED <<pipe, content, buffer, handler_count, orphans, alive, fd>>
  BY DEF RegisterSource, DeregisterSource, WaitCopy, evctx
<1>4. pc[t] \in {"reg_source", "dereg_source", "wait_copy"}
  BY DEF RegisterSource, DeregisterSource, WaitCopy
<1>5. CASE Return(t)
  <2>1. Goto(t, "idle")
    BY <1>5 DEF Return
  <2> QED BY <1>1, <1>2, <1>3, <1>4, <2>1, FrameStep DEF UserPC, CapturePC
<1>6. CASE UNCHANGED pc
  <2>1. Goto(t, pc[t])
    BY <1>6 DEF Goto, IInv, TypeOK, ThreadsType
  <2> QED BY <1>1, <1>2, <1>3, <1>4, <2>1, FrameStep DEF UserPC, CapturePC
<1> QED BY <1>5, <1>6
        DEF RegisterSource, DeregisterSource, WaitCopy, SourceDone, UnlockAndReturn

LEMMA RegisterStep ==
  ASSUME IInv, NEW t \in Threads,
         \/ RegisterAcquire(t) \/ RegisterEpoll(t)
         \/ DeregisterEpoll(t) \/ DeregisterRelease(t)
  PROVE  Rest'
<1>1. pc[t] \in {"reg_acquire", "reg_epoll", "dereg_epoll", "dereg_release"}
  BY DEF RegisterAcquire, RegisterEpoll, DeregisterEpoll, DeregisterRelease
<1>2. alive /\ arg[t].h \in Handlers
  BY <1>1 DEF IInv, Quiet, HandlerCalls, HandlerPC
<1>3. CASE RegisterAcquire(t)
  <2>1. CASE pipe_acquire /\ Goto(t, "reg_epoll")
    BY <1>1, <1>2, <1>3, <2>1, AcquireStep DEF RegisterAcquire, UserPC, CapturePC
  <2>2. CASE UNCHANGED <<pipe, content, buffer, handler_count>> /\ Return(t)
    BY <1>2, <1>3, <2>2, FrameStep DEF RegisterAcquire, Return, UserPC, CapturePC, Registered
  <2> QED BY <1>3, <2>1, <2>2 DEF RegisterAcquire, UnlockAndReturn
<1>4. CASE RegisterEpoll(t)
  <2>1. CASE pipe_release(interest)
    BY <1>1, <1>4, <2>1, ReleaseStep DEF RegisterEpoll, UnlockAndReturn
  <2>2. CASE /\ <<arg[t].h, STOPPED>> \notin interest
             /\ interest' = interest \cup {<<arg[t].h, STOPPED>>}
             /\ UNCHANGED <<pipe, content, handler_count, fd>>
    <3>1. Cardinality(Registered') = Cardinality(Registered) + 1
      BY <1>2, <2>2, RegisteredAdd DEF Registered
    <3>2. Goto(t, "idle") /\ pc[t] = "reg_epoll" /\ UNCHANGED <<orphans, alive, buffer>>
      BY <1>4 DEF RegisterEpoll, UnlockAndReturn, Return
    <3>3. Cardinality(Users') = Cardinality(Users) - 1
      BY <3>2, UsersMove, FiniteSets DEF IInv, UserPC
    <3>4. orphans \in Nat
      BY DEF IInv, TypeOK
    <3>5. handler_count = Cardinality(Registered') + Cardinality(Users') + orphans
      BY <1>2, <3>1, <3>3, <3>4, CountIsNat, FiniteSets
    <3>6. Captured'
      BY <2>2, <3>2 DEF IInv, Captured, CapturePC, Goto, TypeOK, ThreadsType
    <3> QED BY <1>2, <2>2, <3>2, <3>5, <3>6
            DEF IInv, Rest, StopCount, PipeCount, Quiet, ClosedIsEmpty, OneHome
  <2> QED BY <1>4, <2>1, <2>2 DEF RegisterEpoll
<1>5. CASE DeregisterEpoll(t)
  <2>1. CASE Return(t) /\ UNCHANGED interest
    BY <1>2, <1>5, <2>1, FrameStep DEF DeregisterEpoll, Return, UserPC, CapturePC, Registered
  <2>2. CASE /\ <<arg[t].h, STOPPED>> \in interest
             /\ interest' = interest \ {<<arg[t].h, STOPPED>>}
             /\ Goto(t, "dereg_release")
    <3>1. Cardinality(Registered') = Cardinality(Registered) - 1
      <4>1. /\ <<arg[t].h, STOPPED>> \in {<<arg[t].h, STOPPED>>}
            /\ {<<arg[t].h, STOPPED>>} \subseteq {arg[t].h} \X Sources
            /\ arg[t].h \in Registered
        BY <1>2, <2>2 DEF Registered, Sources
      <4> QED BY <1>2, <2>2, <4>1, RegisteredRemove
    <3>2. pc[t] = "dereg_epoll" /\ UNCHANGED <<pipe, content, handler_count, fd, orphans, alive, buffer>>
      BY <1>5 DEF DeregisterEpoll
    <3>3. Cardinality(Users') = Cardinality(Users) + 1
      BY <2>2, <3>2, UsersMove, FiniteSets DEF IInv, UserPC
    <3>4. orphans \in Nat
      BY DEF IInv, TypeOK
    <3>5. handler_count = Cardinality(Registered') + Cardinality(Users') + orphans
      BY <1>2, <3>1, <3>3, <3>4, CountIsNat, FiniteSets
    <3>6. Captured'
      BY <2>2, <3>2 DEF IInv, Captured, CapturePC, Goto, TypeOK, ThreadsType
    <3> QED BY <1>2, <3>2, <3>5, <3>6
            DEF IInv, Rest, StopCount, PipeCount, Quiet, ClosedIsEmpty, OneHome
  <2> QED BY <1>5, <2>1, <2>2 DEF DeregisterEpoll, UnlockAndReturn
<1>6. CASE DeregisterRelease(t)
  BY <1>1, <1>6, ReleaseStep DEF DeregisterRelease, UnlockAndReturn
<1> QED BY <1>3, <1>4, <1>5, <1>6

LEMMA RunStep ==
  ASSUME IInv, NEW t \in Threads,
         \/ RunBuffer(t) \/ RunCapture(t) \/ RunAcquire(t) \/ RunWrite(t)
         \/ RunInterrupted(t) \/ RunRelease(t) \/ Read(t)
  PROVE  Rest'
<1>1. pc[t] \in {"run_fd", "run_acquire", "run_write", "run_release", "read"}
  BY DEF RunBuffer, RunCapture, RunAcquire, RunWrite, RunInterrupted, RunRelease, Read
<1>2. alive
  BY <1>1 DEF IInv, Quiet
<1>3. CASE RunBuffer(t)
  BY <1>2, <1>3, FrameStep DEF RunBuffer, Return, UserPC, CapturePC, Registered
<1>4. CASE Read(t)
  <2>1. Goto(t, "idle") /\ Registered' = Registered /\ pc[t] = "read"
    BY <1>4 DEF Read, Return, Registered
  <2>2. content' = content \/ pipe = "open"
    BY <1>4 DEF Read
  <2>3. buffer' \in {buffer, None}
    BY <1>4 DEF Read
  <2> QED BY <1>2, <1>4, <2>1, <2>2, <2>3, FrameStep DEF Read, UserPC, CapturePC
<1>5. CASE RunAcquire(t)
  BY <1>2, <1>5, AcquireStep DEF RunAcquire, UserPC, CapturePC
<1>6. CASE RunRelease(t)
  BY <1>1, <1>6, ReleaseStep DEF RunRelease
<1>7. ASSUME NEW label, Goto(t, label), pc[t] \in UserPC <=> label \in UserPC,
             UNCHANGED <<handler_count, orphans, interest>>
      PROVE  StopCount' \/ ~alive'
  <2>1. Cardinality(Users') = Cardinality(Users)
    BY <1>7, UsersMove, FiniteSets DEF IInv
  <2> QED BY <1>2, <1>7, <2>1 DEF IInv, StopCount, Registered
<1>8. CASE RunCapture(t)
  <2>1. StopCount'
    BY <1>2, <1>7, <1>8 DEF RunCapture, evctx, UserPC, StopCount
  <2>2. Captured'
    BY <1>8 DEF RunCapture, evctx, IInv, Captured, CapturePC, Goto, TypeOK, ThreadsType
  <2> QED BY <1>2, <1>8, <2>1, <2>2
          DEF RunCapture, evctx, IInv, Rest, PipeCount, Quiet, ClosedIsEmpty, OneHome
<1>9. CASE RunWrite(t) \/ RunInterrupted(t)
  <2>1. StopCount'
    BY <1>2, <1>7, <1>9 DEF RunWrite, RunInterrupted, evctx, UserPC, StopCount
  <2>2. Captured'
    BY <1>9 DEF RunWrite, RunInterrupted, evctx, IInv, Captured, CapturePC, Goto, TypeOK, ThreadsType
  <2>3. pipe = "open"
    <3>1. t \in Users
      BY <1>9 DEF RunWrite, RunInterrupted, Users, UserPC
    <3> QED BY <1>2, <3>1, CountIsNat
  <2> QED BY <1>2, <1>9, <2>1, <2>2, <2>3
          DEF RunWrite, RunInterrupted, evctx, IInv, Rest, PipeCount, Quiet, ClosedIsEmpty, OneHome
<1> QED BY <1>3, <1>4, <1>5, <1>6, <1>8, <1>9

\* Every step of the event layer keeps the inductive invariant.
LEMMA IInvStep ==
  ASSUME IInv, [Next]_vars, TypeOK'
  PROVE  IInv'
<1>1. HandlerCalls' /\ LockHeld'
  BY HandlerCallsStep, LockHeldStep DEF IInv, TypeOK
<1> SUFFICES Rest'
  BY <1>1 DEF IInv, Rest
<1>2. CASE UNCHANGED vars
  BY <1>2 DEF vars, evctx, IInv, Rest, Captured, StopCount, Registered, Users, PipeCount, Quiet,
              ClosedIsEmpty, OneHome
<1>3. ASSUME NEW t \in Threads, Call(t) PROVE Rest'
  <2>1. PICK label \in {"reg_lock", "dereg_lock", "wait_copy", "run_lock", "read_lock"} :
          /\ pc[t] = "idle" /\ alive /\ Goto(t, label)
          /\ UNCHANGED <<evctx, interest, orphans, alive, fd>>
    BY <1>3 DEF Call, RegisterBegin, DeregisterBegin, WaitEpoll, RunBase, ReadBegin, Begin
  <2> QED BY <2>1, FrameStep DEF evctx, UserPC, CapturePC, Registered
<1>4. ASSUME NEW t \in Threads, Step(t) \/ RunInterrupted(t) PROVE Rest'
  <2>1. ASSUME NEW from, NEW to, ContextLock(t, from, to) \/ StopLock(t, from, to),
               from # "idle", from \in UserPC <=> to \in UserPC,
               from \notin CapturePC, to \notin CapturePC
        PROVE  Rest'
    <3>1. pc[t] = from /\ Goto(t, to)
          /\ UNCHANGED <<pipe, content, handler_count, buffer, interest, orphans, alive, fd>>
      BY <2>1 DEF ContextLock, StopLock
    <3>2. alive /\ Registered' = Registered
      BY <2>1, <3>1 DEF IInv, Quiet, Registered
    <3> QED BY <2>1, <3>1, <3>2, FrameStep
  <2>2. CASE RegisterLock(t) \/ DeregisterLock(t)
    BY <2>1, <2>2 DEF RegisterLock, DeregisterLock, UserPC, CapturePC
  <2>3. CASE RegisterStopLock(t) \/ DeregisterStopLock(t)
    BY <2>1, <2>3 DEF RegisterStopLock, DeregisterStopLock, UserPC, CapturePC
  <2>4. CASE RunLock(t) \/ RunRelock(t) \/ ReadLock(t)
    BY <2>1, <2>4 DEF RunLock, RunRelock, ReadLock, UserPC, CapturePC
  <2> QED BY <1>4, <2>2, <2>3, <2>4, SourceStep, RegisterStep, RunStep DEF Step
<1>5. ASSUME NEW h \in Handlers, HandlerCreate(h) PROVE Rest'
  BY <1>5 DEF HandlerCreate, evctx, IInv, Rest, Captured, StopCount, Registered, Users, PipeCount,
              Quiet, ClosedIsEmpty, OneHome
<1>6. ASSUME NEW h \in Handlers, HandlerDestroy(h) PROVE Rest'
  <2>1. /\ UNCHANGED <<evctx, alive, pc, fd>> /\ interest' = interest \ ({h} \X Sources)
        /\ Users' = Users
    BY <1>6 DEF HandlerDestroy, Users
  <2>2. CASE h \in Registered
    <3>1. <<h, STOPPED>> \in {h} \X Sources
      BY DEF Sources
    <3>2. Cardinality(Registered') = Cardinality(Registered) - 1
      BY <2>1, <2>2, <3>1, RegisteredRemove
    <3>3. orphans' = orphans + 1 /\ orphans \in Nat
      BY <1>6, <2>2 DEF HandlerDestroy, IInv, TypeOK
    <3>4. StopCount'
      BY <2>1, <3>2, <3>3, FiniteSets DEF IInv, StopCount, evctx
    <3>5. alive
      BY <2>2 DEF Registered, IInv, Quiet
    <3> QED BY <2>1, <3>4, <3>5
            DEF evctx, IInv, Rest, Captured, PipeCount, Quiet, ClosedIsEmpty, OneHome
  <2>3. CASE h \notin Registered
    <3>1. Registered' = Registered /\ orphans' = orphans
      BY <1>6, <2>1, <2>3 DEF HandlerDestroy, Registered
    <3> QED BY <2>1, <3>1
            DEF evctx, IInv, Rest, StopCount, Captured, PipeCount, Quiet, ClosedIsEmpty, OneHome
  <2> QED BY <2>2, <2>3
<1>7. CASE Finalize
  BY <1>7 DEF Finalize, IInv, Rest, StopCount, Captured, CapturePC, PipeCount, Quiet,
              ClosedIsEmpty, OneHome
<1>8. CASE Initialize
  <2>1. Registered' = {} /\ Users' = {} /\ orphans' = 0
    BY <1>8 DEF Initialize, IInv, Quiet, Registered, Users, UserPC
  <2>2. StopCount'
    BY <1>8, <2>1, FS_EmptySet DEF Initialize, StopCount
  <2> QED BY <1>8, <2>2 DEF Initialize, IInv, Rest, Captured, CapturePC, PipeCount, Quiet,
                            ClosedIsEmpty, OneHome
<1> QED BY <1>2, <1>3, <1>4, <1>5, <1>6, <1>7, <1>8 DEF Next

LEMMA InitIInv == Init /\ TypeOK => IInv
<1> SUFFICES ASSUME Init, TypeOK PROVE IInv
  OBVIOUS
<1>1. Registered = {} /\ Users = {}
  BY DEF Init, Registered, Users, UserPC
<1>2. StopCount
  BY <1>1, FS_EmptySet DEF Init, InitialContext, StopCount
<1> QED BY <1>2 DEF Init, InitialContext, IInv, HandlerCalls, HandlerPC, LockHeld, StopCS, Captured,
                    CapturePC, PipeCount, Quiet, ClosedIsEmpty, OneHome

LEMMA Inductive == Spec => []IInv
<1>1. Init /\ TypeOK => IInv
  BY InitIInv
<1>2. IInv /\ [Next]_vars /\ TypeOK' => IInv'
  BY IInvStep
<1> QED BY <1>1, <1>2, TypeCorrect, PTL DEF Spec

-----------------------------------------------------------------------------
(* The safety properties *)

\* The pipe is counted exactly: registrations, orphans and users.
THEOREM StopCountHolds == Spec => []StopCount
<1>1. IInv => StopCount
  BY DEF IInv
<1> QED BY <1>1, Inductive, PTL

\* A captured write end is the write end of the open pipe.
THEOREM WriterHasPipeHolds == Spec => []WriterHasPipe
<1>1. ASSUME IInv, NEW t \in Threads, pc[t] \in {"run_acquire", "run_write"}
      PROVE  fd[t] = "pipe" /\ pipe = "open"
  <2>1. fd[t] = "pipe" /\ alive /\ (pc[t] = "run_acquire" => pipe = "open")
    BY <1>1 DEF IInv, Captured, CapturePC, Quiet
  <2>2. pc[t] = "run_write" => t \in Users
    BY DEF Users, UserPC
  <2> QED BY <1>1, <2>1, <2>2, CountIsNat
<1>2. IInv => WriterHasPipe
  BY <1>1 DEF WriterHasPipe
<1> QED BY <1>2, Inductive, PTL

\* A registered stop event handler finds the pipe open.
THEOREM RegisteredHasPipeHolds == Spec => []RegisteredHasPipe
<1>1. IInv => RegisteredHasPipe
  BY CountIsNat DEF RegisteredHasPipe, IInv, Quiet, Registered
<1> QED BY <1>1, Inductive, PTL

\* The buffer and the pipe never hold stop infos at the same time.
THEOREM OneHomeHolds == Spec => []OneHome
<1>1. IInv => OneHome
  BY DEF IInv
<1> QED BY <1>1, Inductive, PTL

\* A release that closes the pipe finds no handler registered.
LEMMA ReleaseOrLast ==
  ASSUME IInv, NEW t \in Threads, pc[t] \in {"reg_epoll", "dereg_release", "run_release"},
         pipe_release(interest)
  PROVE  \/ UNCHANGED <<pipe, content, fd>>
         \/ /\ pipe = "open" /\ Registered = {}
            /\ \A u \in Threads : fd[u] = None
            /\ pipe_close(interest)
<1>1. alive /\ t \in Users /\ pc[t] \in StopCS /\ pc[t] \notin CapturePC
  BY DEF IInv, Quiet, Users, UserPC, StopCS, CapturePC
<1>2. CASE handler_count = 1
  <2>1. Registered = {} /\ \A u \in Threads : pc[u] \notin CapturePC
    BY <1>1, <1>2, LastUser
  <2>2. \A u \in Threads : fd[u] = None
    BY <2>1 DEF IInv, Captured
  <2> QED BY <1>1, <1>2, <2>1, <2>2, CountIsNat DEF pipe_release
<1>3. CASE handler_count # 1
  BY <1>3 DEF pipe_release
<1> QED BY <1>2, <1>3

\* While a handler stays registered the pipe loses no stop info and keeps order.
THEOREM StopInfoKeptHolds == Spec => StopInfoKept
<1> DEFINE Kept == \/ content' = content
                   \/ \E t \in Threads : pc[t] = "run_write" /\ content' = Append(content, t)
                   \/ \E t \in Threads : pc[t] = "read" /\ content' = Tail(content)
<1>1. ASSUME IInv, [Next]_vars, Registered # {}, Registered' # {} PROVE Kept
  <2>1. alive
    BY <1>1 DEF IInv, Quiet, Registered
  <2>2. handler_count # 0
    BY <1>1, <2>1, CountIsNat
  <2>3. CASE UNCHANGED vars
    BY <2>3 DEF vars, evctx
  <2>4. ASSUME NEW t \in Threads, Call(t) \/ RunInterrupted(t) PROVE Kept
    BY <2>4 DEF Call, RegisterBegin, DeregisterBegin, WaitEpoll, RunBase, ReadBegin, Begin,
                RunInterrupted, evctx
  <2>5. ASSUME NEW t \in Threads, Step(t) PROVE Kept
    <3>1. CASE RegisterAcquire(t) \/ RunAcquire(t)
      BY <2>2, <3>1 DEF RegisterAcquire, RunAcquire, pipe_acquire
    <3>2. CASE RegisterEpoll(t) \/ DeregisterRelease(t) \/ RunRelease(t)
      BY <1>1, <3>2, ReleaseOrLast DEF RegisterEpoll, DeregisterRelease, RunRelease
    <3>3. CASE Read(t)
      BY <3>3 DEF Read
    <3>4. CASE RunWrite(t)
      BY <3>4 DEF RunWrite
    <3>5. ASSUME NEW s \in Sources, RegisterSource(t, s) \/ DeregisterSource(t, s) \/ WaitCopy(t, s)
          PROVE  Kept
      BY <3>5 DEF RegisterSource, DeregisterSource, WaitCopy, evctx
    <3>6. CASE \E from, to : ContextLock(t, from, to) \/ StopLock(t, from, to)
      BY <3>6 DEF ContextLock, StopLock
    <3>7. CASE RunBuffer(t) \/ RunCapture(t) \/ DeregisterEpoll(t)
      BY <3>7 DEF RunBuffer, RunCapture, DeregisterEpoll, evctx
    <3> QED BY <2>5, <3>1, <3>2, <3>3, <3>4, <3>5, <3>6, <3>7
            DEF Step, RegisterLock, DeregisterLock, RegisterStopLock, DeregisterStopLock,
                RunLock, RunRelock, ReadLock
  <2>6. ASSUME NEW h \in Handlers, HandlerCreate(h) \/ HandlerDestroy(h) PROVE Kept
    BY <2>6 DEF HandlerCreate, HandlerDestroy, evctx
  <2>7. CASE Finalize \/ Initialize
    BY <1>1, <2>1, <2>7 DEF Finalize, Initialize, Registered
  <2> QED BY <1>1, <2>3, <2>4, <2>5, <2>6, <2>7 DEF Next
<1>2. IInv /\ [Next]_vars => [Registered # {} /\ Registered' # {} => Kept]_vars
  BY <1>1
<1> QED BY <1>2, Inductive, PTL DEF Spec, StopInfoKept

-----------------------------------------------------------------------------
(* Refinement *)

\* The event layer implements the abstract channel.
THEOREM Refinement == Spec => ImplementsChannel
<1> DEFINE Posting == {t \in Threads : fd[t] # None}
<1>1. Init => Channel!Init
  BY DEF Init, InitialContext, Channel!Init
<1>2. ASSUME IInv, [Next]_vars PROVE [Channel!Next]_(Channel!channel)
  <2> USE DEF Channel!channel
  <2>1. CASE UNCHANGED <<pipe, content, buffer, fd>>
    BY <2>1
  <2>2. CASE UNCHANGED vars
    BY <2>1, <2>2 DEF vars, evctx
  <2>3. ASSUME NEW t \in Threads, Call(t) PROVE [Channel!Next]_(Channel!channel)
    BY <2>1, <2>3 DEF Call, RegisterBegin, DeregisterBegin, WaitEpoll, RunBase, ReadBegin, Begin, evctx
  <2>4. ASSUME NEW t \in Threads, Step(t) \/ RunInterrupted(t)
        PROVE  [Channel!Next]_(Channel!channel)
    <3>1. alive \/ pc[t] = "idle"
      BY <1>2 DEF IInv, Quiet
    <3>2. ASSUME pipe_acquire, UNCHANGED fd, alive PROVE [Channel!Next]_(Channel!channel)
      <4>1. CASE handler_count = 0
        <5>1. pipe = "closed"
          BY <1>2, <3>2, <4>1, CountIsNat DEF IInv, TypeOK
        <5>2. Channel!Open
          BY <3>2, <4>1, <5>1 DEF pipe_acquire, Channel!Open
        <5> QED BY <5>2 DEF Channel!Next
      <4>2. CASE handler_count # 0
        BY <2>1, <3>2, <4>2 DEF pipe_acquire
      <4> QED BY <4>1, <4>2
    <3>3. CASE RegisterAcquire(t) \/ RunAcquire(t)
      BY <2>1, <3>1, <3>2, <3>3 DEF RegisterAcquire, RunAcquire
    <3>4. CASE RegisterEpoll(t) \/ DeregisterRelease(t) \/ RunRelease(t)
      <4>1. UNCHANGED buffer
        BY <3>4 DEF RegisterEpoll, DeregisterRelease, RunRelease
      <4>2. CASE pipe_close(interest) /\ pipe = "open" /\ \A u \in Threads : fd[u] = None
        <5>1. Posting = {} /\ Posting' = {}
          BY <4>2 DEF pipe_close
        <5>2. Channel!Close
          BY <4>1, <4>2, <5>1 DEF pipe_close, Channel!Close
        <5> QED BY <5>2 DEF Channel!Next
      <4> QED BY <1>2, <2>1, <3>4, <4>1, <4>2, ReleaseOrLast
              DEF RegisterEpoll, DeregisterRelease, RunRelease
    <3>5. CASE RunBuffer(t)
      <4>1. Channel!PostSlot(t)
        BY <3>5 DEF RunBuffer, Channel!PostSlot
      <4> QED BY <4>1 DEF Channel!Next
    <3>6. CASE RunCapture(t)
      <4>1. fd[t] = None
        BY <1>2, <3>6 DEF RunCapture, IInv, Captured, CapturePC
      <4>2. Posting' = Posting \cup {t} /\ t \notin Posting
        BY <1>2, <3>6, <4>1, ConstantsAssumption DEF RunCapture, IInv, TypeOK, ThreadsType
      <4>3. Channel!PostBegin(t)
        BY <3>6, <4>2 DEF RunCapture, evctx, Channel!PostBegin
      <4> QED BY <4>3 DEF Channel!Next
    <3>7. CASE RunWrite(t) \/ RunInterrupted(t)
      <4>1. fd[t] = "pipe" /\ fd[t] # None
        BY <1>2, <3>7, ConstantsAssumption DEF RunWrite, RunInterrupted, IInv, Captured, CapturePC
      <4>2. Posting' = Posting \ {t} /\ t \in Posting
        BY <1>2, <3>7, <4>1 DEF RunWrite, RunInterrupted, IInv, TypeOK, ThreadsType
      <4>3. Channel!PostEnd(t)
        BY <3>7, <4>1, <4>2 DEF RunWrite, RunInterrupted, evctx, Channel!PostEnd
      <4> QED BY <4>3 DEF Channel!Next
    <3>8. CASE Read(t)
      BY <2>1, <3>8 DEF Read, Channel!Take, Channel!Next
    <3>9. ASSUME NEW s \in Sources, RegisterSource(t, s) \/ DeregisterSource(t, s) \/ WaitCopy(t, s)
          PROVE  UNCHANGED <<pipe, content, buffer, fd>>
      BY <3>9 DEF RegisterSource, DeregisterSource, WaitCopy, evctx
    <3>10. (\E from, to : ContextLock(t, from, to) \/ StopLock(t, from, to))
             => UNCHANGED <<pipe, content, buffer, fd>>
      BY DEF ContextLock, StopLock
    <3>11. CASE DeregisterEpoll(t)
      BY <2>1, <3>11 DEF DeregisterEpoll
    <3> QED BY <2>1, <2>4, <3>3, <3>4, <3>5, <3>6, <3>7, <3>8, <3>9, <3>10, <3>11
            DEF Step, RegisterLock, DeregisterLock, RegisterStopLock, DeregisterStopLock,
                RunLock, RunRelock, ReadLock
  <2>5. ASSUME NEW h \in Handlers, HandlerCreate(h) \/ HandlerDestroy(h)
        PROVE  UNCHANGED <<pipe, content, buffer, fd>>
    BY <2>5 DEF HandlerCreate, HandlerDestroy, evctx
  <2>6. CASE Finalize \/ Initialize
    <3>1. Posting = {} /\ Posting' = {}
      BY <1>2, <2>6 DEF Finalize, Initialize, IInv, Quiet, Captured, CapturePC
    <3>2. Channel!Reset
      BY <2>6, <3>1 DEF Finalize, Initialize, Channel!Reset
    <3> QED BY <3>2 DEF Channel!Next
  <2> QED BY <1>2, <2>1, <2>2, <2>3, <2>4, <2>5, <2>6 DEF Next
<1> QED BY <1>1, <1>2, Inductive, PTL DEF Spec, ImplementsChannel, Channel!Spec
=============================================================================
