---------------------------- MODULE SpeRunProofs ----------------------------
(***************************************************************************)
(* Proofs about SpeRun, for any number of threads and contexts, any depth  *)
(* of nested runs and any way an SPU may stop: the breadcrumbs of each     *)
(* thread are its runs, the result of a run agrees with its stop info, and *)
(* the reserved library calls that have a default handler always find one. *)
(***************************************************************************)
EXTENDS SpeRun, TLAPS

\* A context runs at most once: prev[] has one entry for it.
Distinct ==
  \A t, u \in Threads : \A i \in 1 .. Len(frames[t]), j \in 1 .. Len(frames[u]) :
    frames[t][i].spe = frames[u][j].spe => t = u /\ i = j

\* The reserved entries that have a default are never empty, nor about to be, and
\* the others always are.
Reserved ==
  /\ \A n \in CallNums : n < RESERVED => (handlers[n] # None <=> n \in Defaults)
  /\ \A t \in Threads : change[t] # NoChange /\ change[t].num < RESERVED =>
       change[t].num \in Defaults /\ change[t].handler # None

\* What a run that serves a library call has read from the table.
Serves(f) == f.at # "spu_run" =>
               /\ f.num \in CallNums
               /\ f.at # "lookup" /\ f.num < RESERVED => f.num \in Defaults
               /\ f.at = "handler" /\ f.num < RESERVED => f.handler # None
Serving == \A t \in Threads : \A i \in 1 .. Len(frames[t]) : Serves(frames[t][i])

\* A run has no result yet, an isolated one is still in isolated mode, and its
\* stop reason is that of the exit it has requested.
Begun(c) == /\ retval[c] = "none"
            /\ c \in Isolated => c \in secure
            /\ c \notin again => info[c] = IF c \in exiting THEN "EXIT" ELSE "stale"
Live == \A c \in Running : Begun(c)

\* What ReturnMatchesStopInfo says of a context.
Reported(c) == /\ retval[c] = "0" => info[c] = "EXIT"
               /\ retval[c] = "-1" => info[c] \in Failures
               /\ retval[c] = "code" => info[c] = "STOP_AND_SIGNAL"
               /\ c \in Isolated /\ info[c] = "EXIT" => c \notin secure

IInv == /\ TypeOK /\ Distinct /\ BreadcrumbsFollowRuns
        /\ Reserved /\ Serving /\ Live /\ ReturnMatchesStopInfo

-----------------------------------------------------------------------------
(* The stacks of runs *)

\* Some run of the stacks is one of c.
LEMMA RunningIs ==
  /\ \A t \in Threads : \A i \in 1 .. Len(frames[t]) :
       frames[t][i].spe \in Contexts => frames[t][i].spe \in Running
  /\ \A c \in Running : c \in Contexts /\ \E t \in Threads : \E i \in 1 .. Len(frames[t]) : frames[t][i].spe = c
BY DEF Running

LEMMA FrameIs ==
  ASSUME TypeOK, NEW t \in Threads
  PROVE  /\ frames[t] \in Seq(FrameType) /\ Len(frames[t]) \in Nat
         /\ \A i \in 1 .. Len(frames[t]) : /\ frames[t][i] \in FrameType
                                        /\ frames[t][i].spe \in Contexts /\ frames[t][i].spe \in Running
<1>1. frames[t] \in Seq(FrameType) /\ Len(frames[t]) \in Nat BY DEF TypeOK
<1>2. ASSUME NEW i \in 1 .. Len(frames[t])
      PROVE  frames[t][i] \in FrameType /\ frames[t][i].spe \in Contexts
  <2>1. frames[t][i] \in FrameType BY <1>1
  <2> QED BY <2>1 DEF FrameType
<1> QED BY <1>1, <1>2, RunningIs

\* The innermost run is the last of the stack.
LEMMA TopIs ==
  ASSUME TypeOK, NEW t \in Threads, frames[t] # <<>>
  PROVE  /\ frames[t] \in Seq(FrameType) /\ Len(frames[t]) \in 1 .. Len(frames[t])
         /\ Top(t) = frames[t][Len(frames[t])] /\ Top(t) \in FrameType
         /\ Top(t).spe \in Contexts /\ Top(t).spe \in Running
<1>1. frames[t] \in Seq(FrameType) BY DEF TypeOK
<1>2. Len(frames[t]) \in 1 .. Len(frames[t]) BY <1>1
<1>3. Top(t) = frames[t][Len(frames[t])] /\ Top(t) \in FrameType BY <1>1, <1>2 DEF Top
<1> QED BY <1>1, <1>2, <1>3, RunningIs DEF FrameType

\* Where a frame goes that is put on top, put in the place of the innermost one,
\* or taken away.
LEMMA Push ==
  ASSUME TypeOK, NEW t \in Threads, NEW f \in FrameType, frames' = [frames EXCEPT ![t] = Append(@, f)]
  PROVE  /\ frames' \in [Threads -> Seq(FrameType)]
         /\ \A u \in Threads \ {t} : frames'[u] = frames[u]
         /\ Len(frames[t]) \in Nat /\ Len(frames'[t]) = Len(frames[t]) + 1
         /\ \A i \in 1 .. Len(frames[t]) : frames'[t][i] = frames[t][i]
         /\ frames'[t][Len(frames[t]) + 1] = f
<1>1. frames[t] \in Seq(FrameType) /\ frames'[t] = Append(frames[t], f) BY DEF TypeOK
<1>2. Append(frames[t], f) \in Seq(FrameType) BY <1>1
<1>3. frames' \in [Threads -> Seq(FrameType)] BY <1>2 DEF TypeOK
<1>4. \A u \in Threads \ {t} : frames'[u] = frames[u] BY DEF TypeOK
<1> QED BY <1>1, <1>3, <1>4

LEMMA Replace ==
  ASSUME TypeOK, NEW t \in Threads, frames[t] # <<>>, NEW f \in FrameType, SetTop(t, f)
  PROVE  /\ frames' \in [Threads -> Seq(FrameType)]
         /\ \A u \in Threads \ {t} : frames'[u] = frames[u]
         /\ Len(frames[t]) \in Nat /\ Len(frames'[t]) = Len(frames[t])
         /\ \A i \in 1 .. Len(frames[t]) - 1 : frames'[t][i] = frames[t][i]
         /\ frames'[t][Len(frames[t])] = f
<1> DEFINE n == Len(frames[t])
<1>1. frames[t] \in Seq(FrameType) /\ n \in 1 .. n BY TopIs
<1>2. frames'[t] = [frames[t] EXCEPT ![n] = f] BY DEF TypeOK, SetTop
<1>3. [frames[t] EXCEPT ![n] = f] \in Seq(FrameType) BY <1>1
<1>4. frames' \in [Threads -> Seq(FrameType)] BY <1>3 DEF TypeOK, SetTop
<1>5. \A u \in Threads \ {t} : frames'[u] = frames[u] BY DEF TypeOK, SetTop
<1>6. /\ Len(frames'[t]) = n /\ frames'[t][n] = f
      /\ \A i \in 1 .. n - 1 : frames'[t][i] = frames[t][i]
  BY <1>1, <1>2
<1> QED BY <1>1, <1>4, <1>5, <1>6

LEMMA Pop ==
  ASSUME TypeOK, NEW t \in Threads, frames[t] # <<>>, Leave(t)
  PROVE  /\ frames' \in [Threads -> Seq(FrameType)]
         /\ \A u \in Threads \ {t} : frames'[u] = frames[u]
         /\ Len(frames[t]) \in Nat /\ Len(frames[t]) > 0 /\ Len(frames'[t]) = Len(frames[t]) - 1
         /\ \A i \in 1 .. Len(frames[t]) - 1 : frames'[t][i] = frames[t][i]
<1> DEFINE n == Len(frames[t])
<1>1. frames[t] \in Seq(FrameType) /\ n \in 1 .. n BY TopIs
<1>2. frames'[t] = SubSeq(frames[t], 1, n - 1) BY DEF TypeOK, Leave
<1>3. SubSeq(frames[t], 1, n - 1) \in Seq(FrameType) BY <1>1
<1>4. frames' \in [Threads -> Seq(FrameType)] BY <1>3 DEF TypeOK, Leave
<1>5. \A u \in Threads \ {t} : frames'[u] = frames[u] BY DEF TypeOK, Leave
<1>6. Len(frames'[t]) = n - 1 /\ \A i \in 1 .. n - 1 : frames'[t][i] = frames[t][i]
  BY <1>1, <1>2
<1> QED BY <1>1, <1>4, <1>5, <1>6

\* A stack is empty when its length is 0.
LEMMA EmptyStack ==
  ASSUME NEW stack \in Seq(FrameType)
  PROVE  stack = <<>> <=> Len(stack) = 0
OBVIOUS

-----------------------------------------------------------------------------
(* What each of the three changes does to the runs *)

LEMMA PushRuns ==
  ASSUME IInv, NEW t \in Threads, NEW f \in FrameType, frames' = [frames EXCEPT ![t] = Append(@, f)],
         f.spe \notin Running,
         prev' = [prev EXCEPT ![f.spe] = active[t]], active' = [active EXCEPT ![t] = f.spe]
  PROVE  /\ Distinct' /\ BreadcrumbsFollowRuns' /\ Running' = Running \cup {f.spe}
         /\ Serves(f) => Serving'
<1> USE DEF IInv
<1> DEFINE n == Len(frames[t])
           c == f.spe
<1>0. /\ \A u \in Threads \ {t} : frames'[u] = frames[u]
      /\ frames' \in [Threads -> Seq(FrameType)]
      /\ n \in Nat /\ Len(frames'[t]) = n + 1
      /\ \A i \in 1 .. n : frames'[t][i] = frames[t][i]
      /\ frames'[t][n + 1] = f
  BY Push
<1>1. c \in Contexts BY DEF FrameType
<1>2. \A u \in Threads : \A i \in 1 .. Len(frames[u]) : frames[u][i].spe \in Contexts \ {c}
  BY FrameIs
<1>3. Distinct' BY <1>2, <1>0 DEF Distinct
<1>4. prev'[c] = active[t] /\ \A d \in Contexts \ {c} : prev'[d] = prev[d] BY <1>1 DEF TypeOK
<1>5. BreadcrumbsFollowRuns'
  <2>1. ASSUME NEW u \in Threads \ {t}
        PROVE  /\ active'[u] = IF frames'[u] = <<>> THEN None ELSE frames'[u][Len(frames'[u])].spe
               /\ \A i \in 1 .. Len(frames'[u]) :
                    prev'[frames'[u][i].spe] = IF i = 1 THEN None ELSE frames'[u][i - 1].spe
    <3>1. active'[u] = active[u] /\ frames'[u] = frames[u] BY <1>0 DEF TypeOK
    <3>2. active'[u] = IF frames'[u] = <<>> THEN None ELSE frames'[u][Len(frames'[u])].spe
      BY <3>1 DEF BreadcrumbsFollowRuns, Top
    <3>3. ASSUME NEW i \in 1 .. Len(frames'[u])
          PROVE  prev'[frames'[u][i].spe] = IF i = 1 THEN None ELSE frames'[u][i - 1].spe
      <4>1. frames[u][i].spe \in Contexts \ {c} BY <1>2, <3>1
      <4> QED BY <1>4, <3>1, <4>1 DEF BreadcrumbsFollowRuns
    <3> QED BY <3>2, <3>3
  <2>2. active'[t] = IF frames'[t] = <<>> THEN None ELSE frames'[t][Len(frames'[t])].spe
    <3>1. frames'[t] # <<>> BY <1>0, EmptyStack
    <3>2. active'[t] = c BY DEF TypeOK
    <3> QED BY <1>0, <3>1, <3>2
  <2>3. ASSUME NEW i \in 1 .. Len(frames'[t])
        PROVE  prev'[frames'[t][i].spe] = IF i = 1 THEN None ELSE frames'[t][i - 1].spe
    <3>1. CASE i \in 1 .. n
      <4>1. frames'[t][i] = frames[t][i] /\ (i # 1 => frames'[t][i - 1] = frames[t][i - 1]) BY <3>1, <1>0
      <4> QED BY <1>2, <1>4, <3>1, <4>1 DEF BreadcrumbsFollowRuns
    <3>2. CASE i = n + 1
      <4>1. prev'[frames'[t][i].spe] = IF frames[t] = <<>> THEN None ELSE Top(t).spe
        BY <1>4, <3>2, <1>0 DEF BreadcrumbsFollowRuns
      <4>2. i # 1 => frames'[t][i - 1] = frames[t][n] BY <3>2, <1>0
      <4>3. frames[t] = <<>> <=> i = 1 BY <3>2, <1>0, EmptyStack DEF TypeOK
      <4> QED BY <4>1, <4>2, <4>3 DEF Top
    <3> QED BY <3>1, <3>2, <1>0
  <2>4. ASSUME NEW u \in Threads, NEW i \in 1 .. Len(frames'[u])
        PROVE  prev'[frames'[u][i].spe] = IF i = 1 THEN None ELSE frames'[u][i - 1].spe
    BY <2>1, <2>3
  <2> QED BY <2>1, <2>2, <2>4 DEF BreadcrumbsFollowRuns, Top
<1>6. Running' = Running \cup {c}
  <2>1. ASSUME NEW d \in Running' PROVE d \in Running \cup {c}
    <3>0. PICK u \in Threads : \E i \in 1 .. Len(frames'[u]) : frames'[u][i].spe = d BY DEF Running
    <3>1. PICK i \in 1 .. Len(frames'[u]) : frames'[u][i].spe = d BY <3>0
    <3>2. d \in Contexts BY DEF Running
    <3>3. u # t => i \in 1 .. Len(frames[u]) /\ frames[u][i].spe = d BY <3>1, <1>0
    <3>4. u = t /\ i # n + 1 => i \in 1 .. Len(frames[u]) /\ frames[u][i].spe = d BY <3>1, <1>0
    <3>5. u = t /\ i = n + 1 => d = c BY <3>1, <1>0
    <3> QED BY <3>2, <3>3, <3>4, <3>5 DEF Running
  <2>2. ASSUME NEW d \in Running PROVE d \in Running'
    <3>0. PICK u \in Threads : \E i \in 1 .. Len(frames[u]) : frames[u][i].spe = d BY DEF Running
    <3>1. PICK i \in 1 .. Len(frames[u]) : frames[u][i].spe = d BY <3>0
    <3>2. d \in Contexts BY DEF Running
    <3>3. i \in 1 .. Len(frames'[u]) /\ frames'[u][i].spe = d BY <3>1, <1>0
    <3> QED BY <3>2, <3>3 DEF Running
  <2>3. c \in Running'
    <3>1. n + 1 \in 1 .. Len(frames'[t]) /\ frames'[t][n + 1].spe = c BY <1>0
    <3> QED BY <1>1, <3>1 DEF Running
  <2> QED BY <2>1, <2>2, <2>3
<1>7. Serves(f) => Serving'
  <2> SUFFICES ASSUME Serves(f), NEW u \in Threads, NEW i \in 1 .. Len(frames'[u])
               PROVE  Serves(frames'[u][i])
    BY DEF Serving
  <2>1. CASE u = t /\ i = n + 1 BY <1>0, <2>1
  <2>2. CASE ~ (u = t /\ i = n + 1)
    <3>1. i \in 1 .. Len(frames[u]) /\ frames'[u][i] = frames[u][i] BY <1>0, <2>2
    <3> QED BY <3>1 DEF Serving
  <2> QED BY <2>1, <2>2
<1> QED BY <1>3, <1>5, <1>6, <1>7

LEMMA ReplaceRuns ==
  ASSUME IInv, NEW t \in Threads, frames[t] # <<>>, NEW f \in FrameType, SetTop(t, f),
         f.spe = Top(t).spe, UNCHANGED debug
  PROVE  /\ Distinct' /\ BreadcrumbsFollowRuns' /\ Running' = Running
         /\ Serves(f) => Serving'
<1> USE DEF IInv
<1>0. /\ \A u \in Threads \ {t} : frames'[u] = frames[u]
      /\ frames' \in [Threads -> Seq(FrameType)]
      /\ Len(frames[t]) \in Nat /\ Len(frames'[t]) = Len(frames[t])
      /\ \A i \in 1 .. Len(frames[t]) - 1 : frames'[t][i] = frames[t][i]
      /\ frames'[t][Len(frames[t])] = f
  BY Replace
<1>1. \A u \in Threads : Len(frames'[u]) = Len(frames[u]) BY <1>0
<1>2. \A u \in Threads : \A i \in 1 .. Len(frames[u]) : frames'[u][i].spe = frames[u][i].spe
  <2>1. ASSUME NEW i \in 1 .. Len(frames[t]) PROVE frames'[t][i].spe = frames[t][i].spe
    <3>1. i = Len(frames[t]) \/ i \in 1 .. Len(frames[t]) - 1 BY <1>0
    <3>2. Top(t) = frames[t][Len(frames[t])] BY DEF Top
    <3> QED BY <1>0, <3>1, <3>2
  <2> QED BY <1>0, <2>1
<1>3. Distinct' BY <1>1, <1>2 DEF Distinct
<1>4. Running' = Running
  <2>1. ASSUME NEW c \in Contexts
        PROVE  (\E u \in Threads : \E i \in 1 .. Len(frames'[u]) : frames'[u][i].spe = c) <=> c \in Running
    BY <1>1, <1>2 DEF Running
  <2> QED BY <2>1 DEF Running
<1>5. UNCHANGED <<active, prev>> BY DEF debug
<1>6. ASSUME NEW u \in Threads
      PROVE  active'[u] = IF frames'[u] = <<>> THEN None ELSE frames'[u][Len(frames'[u])].spe
  <2>1. frames'[u] = <<>> <=> frames[u] = <<>> BY <1>0, <1>1, EmptyStack DEF TypeOK
  <2>2. frames[u] # <<>> => frames'[u][Len(frames'[u])].spe = Top(u).spe BY <1>1, <1>2, TopIs DEF Top
  <2> QED BY <1>5, <2>1, <2>2 DEF BreadcrumbsFollowRuns
<1>7. ASSUME NEW u \in Threads, NEW i \in 1 .. Len(frames'[u])
      PROVE  prev'[frames'[u][i].spe] = IF i = 1 THEN None ELSE frames'[u][i - 1].spe
  <2>1. i \in 1 .. Len(frames[u]) /\ (i # 1 => i - 1 \in 1 .. Len(frames[u])) BY <1>1
  <2> QED BY <1>2, <1>5, <2>1 DEF BreadcrumbsFollowRuns
<1>8. BreadcrumbsFollowRuns' BY <1>6, <1>7 DEF BreadcrumbsFollowRuns, Top
<1>9. Serves(f) => Serving'
  <2> SUFFICES ASSUME Serves(f), NEW u \in Threads, NEW i \in 1 .. Len(frames'[u])
               PROVE  Serves(frames'[u][i])
    BY DEF Serving
  <2>1. CASE u = t /\ i = Len(frames[t]) BY <1>0, <2>1
  <2>2. CASE ~ (u = t /\ i = Len(frames[t]))
    <3>1. i \in 1 .. Len(frames[u]) /\ frames'[u][i] = frames[u][i] BY <1>0, <2>2
    <3> QED BY <3>1 DEF Serving
  <2> QED BY <2>1, <2>2
<1> QED BY <1>3, <1>4, <1>8, <1>9

LEMMA PopRuns ==
  ASSUME IInv, NEW t \in Threads, frames[t] # <<>>, Leave(t)
  PROVE  /\ Distinct' /\ BreadcrumbsFollowRuns' /\ Running' = Running \ {Top(t).spe}
         /\ Serving'
<1> USE DEF IInv
<1> DEFINE n == Len(frames[t])
           c == Top(t).spe
<1>0. /\ \A u \in Threads \ {t} : frames'[u] = frames[u]
      /\ frames' \in [Threads -> Seq(FrameType)]
      /\ n \in Nat /\ Len(frames'[t]) = n - 1
      /\ \A i \in 1 .. n - 1 : frames'[t][i] = frames[t][i]
  BY Pop
<1>1. /\ n \in 1 .. n /\ c = frames[t][n].spe /\ c \in Contexts BY TopIs
<1>2. \A u \in Threads : \A i \in 1 .. Len(frames'[u]) :
        i \in 1 .. Len(frames[u]) /\ frames'[u][i] = frames[u][i] /\ (u = t => i < n)
  BY <1>0
<1>3. Distinct' BY <1>2 DEF Distinct
<1>4. prev' = prev /\ active'[t] = prev[c] /\ \A u \in Threads \ {t} : active'[u] = active[u]
  BY DEF Leave, TypeOK
<1>5. BreadcrumbsFollowRuns'
  <2>1. ASSUME NEW u \in Threads \ {t}
        PROVE  active'[u] = IF frames'[u] = <<>> THEN None ELSE frames'[u][Len(frames'[u])].spe
    BY <1>4, <1>0 DEF BreadcrumbsFollowRuns, Top
  <2>2. active'[t] = IF frames'[t] = <<>> THEN None ELSE frames'[t][Len(frames'[t])].spe
    <3>1. active'[t] = IF n = 1 THEN None ELSE frames[t][n - 1].spe
      <4>1. prev[frames[t][n].spe] = IF n = 1 THEN None ELSE frames[t][n - 1].spe
        BY <1>1 DEF BreadcrumbsFollowRuns
      <4> QED BY <1>1, <1>4, <4>1
    <3>2. frames'[t] = <<>> <=> n = 1
      <4>1. frames'[t] = <<>> <=> Len(frames'[t]) = 0 BY <1>0, EmptyStack
      <4> QED BY <1>0, <4>1
    <3>3. n # 1 => frames'[t][Len(frames'[t])] = frames[t][n - 1]
      <4>1. \A k \in Nat : k >= 1 /\ k # 1 => k - 1 \in 1 .. k - 1 OBVIOUS
      <4>2. n \in Nat /\ n >= 1 BY <1>0, <1>1
      <4>3. n # 1 => n - 1 \in 1 .. n - 1
        <5> HIDE DEF n
        <5> QED BY <4>1, <4>2
      <4>4. n # 1 => frames'[t][n - 1] = frames[t][n - 1] BY <1>0, <4>3
      <4> QED BY <1>0, <4>4
    <3> QED BY <3>1, <3>2, <3>3
  <2>3. ASSUME NEW u \in Threads, NEW i \in 1 .. Len(frames'[u])
        PROVE  prev'[frames'[u][i].spe] = IF i = 1 THEN None ELSE frames'[u][i - 1].spe
    <3>1. i # 1 => i - 1 \in 1 .. Len(frames'[u]) BY <1>0
    <3> QED BY <1>2, <1>4, <3>1 DEF BreadcrumbsFollowRuns
  <2> QED BY <2>1, <2>2, <2>3 DEF BreadcrumbsFollowRuns, Top
<1>6. Running' = Running \ {c}
  <2>1. ASSUME NEW d \in Running' PROVE d \in Running /\ d # c
    <3>0. PICK u \in Threads : \E i \in 1 .. Len(frames'[u]) : frames'[u][i].spe = d BY DEF Running
    <3>1. PICK i \in 1 .. Len(frames'[u]) : frames'[u][i].spe = d BY <3>0
    <3>2. d \in Contexts BY DEF Running
    <3>3. i \in 1 .. Len(frames[u]) /\ frames[u][i].spe = d /\ (u = t => i < n) BY <1>2, <3>1
    <3>4. d # c BY <1>1, <3>3 DEF Distinct
    <3> QED BY <3>2, <3>3, <3>4 DEF Running
  <2>2. ASSUME NEW d \in Running \ {c} PROVE d \in Running'
    <3>0. PICK u \in Threads : \E i \in 1 .. Len(frames[u]) : frames[u][i].spe = d BY DEF Running
    <3>1. PICK i \in 1 .. Len(frames[u]) : frames[u][i].spe = d BY <3>0
    <3>2. d \in Contexts BY DEF Running
    <3>3. u = t => i # n BY <1>1, <3>1
    <3>4. i \in 1 .. Len(frames'[u]) /\ frames'[u][i].spe = d BY <3>1, <3>3, <1>0
    <3> QED BY <3>2, <3>4 DEF Running
  <2> QED BY <2>1, <2>2
<1>7. Serving'
  <2> SUFFICES ASSUME NEW u \in Threads, NEW i \in 1 .. Len(frames'[u])
               PROVE  Serves(frames'[u][i])
    BY DEF Serving
  <2> QED BY <1>2 DEF Serving
<1> QED BY <1>3, <1>5, <1>6, <1>7

-----------------------------------------------------------------------------
(* The results of runs *)

\* A step that is about the run of c leaves the results of the others.
LEMMA Results ==
  ASSUME IInv, NEW c \in Contexts,
         \A d \in Contexts \ {c} :
           /\ retval'[d] = retval[d] /\ info'[d] = info[d]
           /\ (d \in secure' <=> d \in secure) /\ (d \in exiting' <=> d \in exiting)
           /\ (d \in again' <=> d \in again) /\ (d \in Running' <=> d \in Running),
         c \in Running' => Begun(c)',
         c \notin Running' \cup again' => Reported(c)'
  PROVE  Live' /\ ReturnMatchesStopInfo'
<1> USE DEF IInv
<1>1. Live'
  <2> SUFFICES ASSUME NEW d \in Running' PROVE Begun(d)' BY DEF Live
  <2>1. d \in Contexts BY DEF Running
  <2>2. CASE d # c
    <3>1. d \in Running BY <2>1, <2>2
    <3> QED BY <2>1, <2>2, <3>1 DEF Live, Begun
  <2> QED BY <2>2
<1>2. ReturnMatchesStopInfo'
  <2> SUFFICES ASSUME NEW d \in Contexts, d \notin Running', d \notin again'
               PROVE  Reported(d)'
    BY DEF ReturnMatchesStopInfo, Reported
  <2>1. CASE d # c
    <3>1. d \notin Running /\ d \notin again BY <2>1
    <3>2. Reported(d) BY <3>1 DEF ReturnMatchesStopInfo, Reported
    <3> QED BY <2>1, <3>2 DEF Reported
  <2> QED BY <2>1
<1> QED BY <1>1, <1>2

\* The run may end with a failure, with the end of the program, with a stop that
\* is the application's, or with that of an SPU which has left isolated mode.
LEMMA VerdictIs ==
  ASSUME NEW c \in Contexts, NEW no_callbacks \in BOOLEAN, NEW s \in StopType
  PROVE  LET v == Verdict(c, no_callbacks, s) IN
         \/ v.does = "finish" /\ v.value = "-1" /\ v.reason \in Failures
         \/ v.does = "finish" /\ v.value = "0" /\ v.reason = "EXIT" /\ c \notin Isolated
         \/ v.does = "finish" /\ v.value = "code" /\ v.reason = "STOP_AND_SIGNAL"
         \/ /\ v.does = "finish" /\ v.value = "0" /\ v.reason = info[c]
            /\ c \in Isolated /\ ~ IsolatedBit(c) /\ "ERROR" \notin s.bits
         \/ v.does = "exit" /\ c \in Isolated /\ s.code = "NORMAL_END"
         \/ v.does = "call" /\ s.code = "LIBRARY_CALL"
         \/ v.does = "rerun" /\ s.code = "ISO_LOAD_COMPLETE"
<1>1. s.code \in {"LIBRARY_CALL", "NORMAL_END", "ISO_LOAD_COMPLETE", "ISOLATED_STOP", "USER"}
  BY DEF StopType
<1> DEFINE v == Verdict(c, no_callbacks, s)
<1>2. CASE "ERROR" \in s.bits \/ "INVALID_INSTR" \in s.bits \/ (c \in EventsEnabled /\ s.exception)
           \/ "STOPPED_BY_STOP" \notin s.bits
  <2>1. v \in {Ends("RUNTIME_FATAL", "-1"), Ends("RUNTIME_ERROR", "-1"), Ends("RUNTIME_EXCEPTION", "-1")}
    BY <1>2 DEF Verdict
  <2> QED BY <2>1 DEF Ends, Failures
<1>3. CASE ~ ("ERROR" \in s.bits \/ "INVALID_INSTR" \in s.bits \/ (c \in EventsEnabled /\ s.exception)
              \/ "STOPPED_BY_STOP" \notin s.bits)
  <2>1. v = CASE s.code = "LIBRARY_CALL" /\ ~no_callbacks -> Does("call")
              [] s.code = "NORMAL_END" -> Ended(c)
              [] s.code = "ISO_LOAD_COMPLETE" -> Does("rerun")
              [] s.code = "ISOLATED_STOP" -> Ends("ISOLATION_ERROR", "-1")
              [] OTHER -> IF c \in Isolated /\ ~IsolatedBit(c)
                            THEN Ends(info[c], "0")
                            ELSE Ends("STOP_AND_SIGNAL", "code")
    BY <1>3 DEF Verdict
  <2>2. CASE s.code = "NORMAL_END" BY <2>1, <2>2 DEF Ended, Ends, Does
  <2>3. CASE s.code = "ISO_LOAD_COMPLETE" BY <2>1, <2>3 DEF Does
  <2>4. CASE s.code = "ISOLATED_STOP" BY <2>1, <2>4 DEF Ends, Failures
  <2>5. CASE s.code = "LIBRARY_CALL" /\ ~no_callbacks BY <2>1, <2>5 DEF Does
  <2>6. CASE s.code = "USER" \/ (s.code = "LIBRARY_CALL" /\ no_callbacks)
    BY <1>3, <2>1, <2>6 DEF Ends
  <2> QED BY <1>1, <2>2, <2>3, <2>4, <2>5, <2>6
<1> QED BY <1>2, <1>3

\* An SPU that stops for anything but the application has requested no exit.
LEMMA StoppedIs ==
  ASSUME TypeOK, NEW t \in Threads, At(t, "spu_run"), NEW s, Stopped(t, s)
  PROVE  /\ s \in StopType /\ Top(t).spe \in Contexts /\ Top(t).no_callbacks \in BOOLEAN
         /\ {entry', emulated_entry'} \subseteq [Contexts -> {"start", "parameters", "behind"}]
         /\ secure' \subseteq secure /\ \A d \in secure : d # Top(t).spe => d \in secure'
         /\ Top(t).spe \in exiting /\ "ERROR" \notin s.bits => Top(t).spe \notin secure'
         /\ s.code # "USER" => Top(t).spe \notin exiting /\ secure' = secure
<1>1. s \in StopType BY RunAssumption DEF Stopped
<1>2. Top(t).spe \in Contexts /\ Top(t).no_callbacks \in BOOLEAN
  BY TopIs DEF At, FrameType
<1>3. entry' \in [Contexts -> {"start", "parameters", "behind"}]
  BY DEF Stopped, TypeOK
<1>4. emulated_entry' \in [Contexts -> {"start", "parameters", "behind"}]
  BY DEF Stopped, TypeOK
<1>5. /\ secure' \subseteq secure /\ \A d \in secure : d # Top(t).spe => d \in secure'
      /\ Top(t).spe \in exiting /\ "ERROR" \notin s.bits => Top(t).spe \notin secure'
      /\ s.code # "USER" => Top(t).spe \notin exiting /\ secure' = secure
  BY DEF Stopped, MayStop
<1> QED BY <1>1, <1>2, <1>3, <1>4, <1>5

-----------------------------------------------------------------------------
(* The steps *)

LEMMA InitIInv == Init => IInv
<1> SUFFICES ASSUME Init PROVE IInv OBVIOUS
<1>1. TypeOK
  <2>1. handlers \in [CallNums -> UserHandlers \cup {Builtin, None}] BY DEF Init
  <2>2. change \in [Threads -> {NoChange} \cup [op : {"store"}, num : CallNums, handler : UserHandlers \cup {None}]]
    BY DEF Init
  <2>3. frames \in [Threads -> Seq(FrameType)]
    <3>1. <<>> \in Seq(FrameType) OBVIOUS
    <3> QED BY <3>1 DEF Init
  <2>4. active \in [Threads -> Contexts \cup {None}] /\ prev \in [Contexts -> Contexts \cup {None}]
    BY DEF Init
  <2>5. {entry, emulated_entry} \subseteq [Contexts -> {"start", "parameters", "behind"}] BY DEF Init
  <2>6. info \in [Contexts -> Failures \cup {"stale", "EXIT", "STOP_AND_SIGNAL"}] BY DEF Init
  <2>7. retval \in [Contexts -> {"none", "0", "-1", "code"}] BY DEF Init
  <2>8. secure \subseteq Isolated /\ exiting \subseteq Isolated /\ again \subseteq exiting BY DEF Init
  <2>9. crashed \in BOOLEAN BY DEF Init
  <2> QED BY <2>1, <2>2, <2>3, <2>4, <2>5, <2>6, <2>7, <2>8, <2>9 DEF TypeOK
<1>2. \A t \in Threads : frames[t] = <<>> /\ Len(frames[t]) = 0 BY DEF Init
<1>3. Running = {} BY <1>2 DEF Running
<1>4. Distinct BY <1>2 DEF Distinct
<1>5. BreadcrumbsFollowRuns BY <1>2 DEF BreadcrumbsFollowRuns, Init
<1>6. Serving BY <1>2 DEF Serving
<1>7. Reserved BY RunAssumption DEF Reserved, Init
<1>8. Live BY <1>3 DEF Live
<1>9. ReturnMatchesStopInfo BY DEF ReturnMatchesStopInfo, Init
<1> QED BY <1>1, <1>4, <1>5, <1>6, <1>7, <1>8, <1>9 DEF IInv

\* Changes of the table leave the runs alone.
LEMMA TableStep ==
  ASSUME IInv, TypeOK', Reserved', UNCHANGED <<frames, debug, context>>
  PROVE  IInv'
BY DEF IInv, Distinct, BreadcrumbsFollowRuns, Top, Serving, Live, Begun, Running, ReturnMatchesStopInfo,
       debug, context

LEMMA HandlerRegisterStep ==
  ASSUME IInv, NEW t \in Threads, NEW n \in CallNums, NEW h \in UserHandlers, HandlerRegister(t, n, h)
  PROVE  IInv'
<1> USE DEF IInv
<1> DEFINE new == [op |-> "store", num |-> n, handler |-> h]
<1>1. /\ change' = [change EXCEPT ![t] = new] /\ UNCHANGED <<handlers, frames, debug, context, crashed>>
      /\ n >= RESERVED \/ handlers[n] # None
  BY DEF HandlerRegister
<1>2. TypeOK'
  <2>1. change' \in [Threads -> {NoChange} \cup [op : {"store"}, num : CallNums, handler : UserHandlers \cup {None}]]
    BY <1>1 DEF TypeOK
  <2> QED BY <1>1, <2>1 DEF TypeOK, debug, context
<1>3. Reserved'
  <2>1. \A u \in Threads : change'[u] \in {change[u], new} BY <1>1 DEF TypeOK
  <2>2. new.num < RESERVED => new.num \in Defaults /\ new.handler # None
    BY <1>1, RunAssumption DEF Reserved, RESERVED
  <2> QED BY <1>1, <2>1, <2>2 DEF Reserved
<1> QED BY <1>1, <1>2, <1>3, TableStep

LEMMA HandlerDeregisterStep ==
  ASSUME IInv, NEW t \in Threads, NEW n \in CallNums, HandlerDeregister(t, n)
  PROVE  IInv'
<1> USE DEF IInv
<1> DEFINE new == [op |-> "store", num |-> n, handler |-> None]
<1>1. /\ change' = [change EXCEPT ![t] = new] /\ UNCHANGED <<handlers, frames, debug, context, crashed>>
      /\ n >= RESERVED
  BY DEF HandlerDeregister
<1>2. TypeOK'
  <2>1. change' \in [Threads -> {NoChange} \cup [op : {"store"}, num : CallNums, handler : UserHandlers \cup {None}]]
    BY <1>1 DEF TypeOK
  <2> QED BY <1>1, <2>1 DEF TypeOK, debug, context
<1>3. Reserved'
  <2>1. \A u \in Threads : change'[u] \in {change[u], new} BY <1>1 DEF TypeOK
  <2>2. ~ (new.num < RESERVED) BY <1>1, RunAssumption DEF RESERVED
  <2> QED BY <1>1, <2>1, <2>2 DEF Reserved
<1> QED BY <1>1, <1>2, <1>3, TableStep

LEMMA StoreHandlerStep ==
  ASSUME IInv, NEW t \in Threads, StoreHandler(t)
  PROVE  IInv'
<1> USE DEF IInv
<1> DEFINE n == change[t].num
           h == change[t].handler
<1>1. /\ handlers' = [handlers EXCEPT ![n] = h] /\ change' = [change EXCEPT ![t] = NoChange]
      /\ UNCHANGED <<frames, debug, context, crashed>> /\ change[t] # NoChange
  BY DEF StoreHandler
<1>2. n \in CallNums /\ h \in UserHandlers \cup {None} BY <1>1 DEF TypeOK
<1>3. TypeOK'
  <2>1. handlers' \in [CallNums -> UserHandlers \cup {Builtin, None}] BY <1>1, <1>2 DEF TypeOK
  <2>2. change' \in [Threads -> {NoChange} \cup [op : {"store"}, num : CallNums, handler : UserHandlers \cup {None}]]
    BY <1>1 DEF TypeOK
  <2> QED BY <1>1, <2>1, <2>2 DEF TypeOK, debug, context
<1>4. Reserved'
  <2>1. \A u \in Threads : change'[u] \in {change[u], NoChange} BY <1>1 DEF TypeOK
  <2>2. \A m \in CallNums : handlers'[m] = IF m = n THEN h ELSE handlers[m] BY <1>1 DEF TypeOK
  <2> QED BY <1>1, <2>1, <2>2 DEF Reserved
<1> QED BY <1>1, <1>3, <1>4, TableStep

LEMMA BeginStep ==
  ASSUME IInv, NEW t \in Threads, NEW c \in Contexts, NEW no_callbacks \in BOOLEAN,
         NEW from \in {"start", entry[c]}, Begin(t, c, from, no_callbacks)
  PROVE  IInv'
<1> USE DEF IInv
<1> DEFINE f == [spe |-> c, at |-> "spu_run", no_callbacks |-> no_callbacks,
                 npc |-> IF c \in Emulated THEN emulated_entry[c] ELSE from,
                 num |-> 0, handler |-> None]
<1>1. /\ frames' = [frames EXCEPT ![t] = Append(@, f)]
      /\ prev' = [prev EXCEPT ![c] = active[t]] /\ active' = [active EXCEPT ![t] = c]
      /\ info' = [info EXCEPT ![c] = "stale"] /\ retval' = [retval EXCEPT ![c] = "none"]
      /\ again' = IF c \in exiting THEN again \cup {c} ELSE again
      /\ c \notin Running /\ (c \in Isolated => c \in secure)
      /\ UNCHANGED <<table, entry, emulated_entry, secure, exiting, crashed>>
  BY DEF Begin
<1>2. f \in FrameType
  <2>1. emulated_entry[c] \in {"start", "parameters", "behind"} /\ from \in {"start", "parameters", "behind"}
    BY DEF TypeOK
  <2> QED BY <2>1 DEF FrameType
<1>3. Serves(f) /\ f.spe = c BY DEF Serves
<1>4. Distinct' /\ BreadcrumbsFollowRuns' /\ Running' = Running \cup {c} /\ Serving'
  <2> HIDE DEF f
  <2> QED BY <1>1, <1>2, <1>3, PushRuns
<1>5. TypeOK'
  <2>1. frames' \in [Threads -> Seq(FrameType)] BY <1>1, <1>2, Push
  <2>2. active' \in [Threads -> Contexts \cup {None}] /\ prev' \in [Contexts -> Contexts \cup {None}]
    BY <1>1 DEF TypeOK
  <2>3. /\ info' \in [Contexts -> Failures \cup {"stale", "EXIT", "STOP_AND_SIGNAL"}]
        /\ retval' \in [Contexts -> {"none", "0", "-1", "code"}]
    BY <1>1 DEF TypeOK
  <2>4. again' \subseteq exiting BY <1>1 DEF TypeOK
  <2> QED BY <1>1, <2>1, <2>2, <2>3, <2>4 DEF TypeOK, table
<1>6. Reserved' BY <1>1 DEF Reserved, table
<1>7. Live' /\ ReturnMatchesStopInfo'
  <2>1. Begun(c)' BY <1>1 DEF Begun, TypeOK
  <2>2. \A d \in Contexts \ {c} :
           /\ retval'[d] = retval[d] /\ info'[d] = info[d]
           /\ (d \in secure' <=> d \in secure) /\ (d \in exiting' <=> d \in exiting)
           /\ (d \in again' <=> d \in again) /\ (d \in Running' <=> d \in Running)
    BY <1>1, <1>4 DEF TypeOK
  <2> QED BY <1>4, <2>1, <2>2, Results
<1> QED BY <1>4, <1>5, <1>6, <1>7

\* A run that goes on: what it reads goes into its own frame.
LEMMA RunGoesOn ==
  ASSUME IInv, NEW t \in Threads, frames[t] # <<>>, NEW f \in FrameType, SetTop(t, f),
         f.spe = Top(t).spe, Serves(f), UNCHANGED <<table, debug, retval, again>>,
         crashed' \in BOOLEAN, {entry', emulated_entry'} \subseteq [Contexts -> {"start", "parameters", "behind"}],
         secure' = secure,
         \/ UNCHANGED <<info, exiting>>
         \/ /\ f.spe \in Isolated \ exiting
            /\ info' = [info EXCEPT ![f.spe] = "EXIT"] /\ exiting' = exiting \cup {f.spe}
  PROVE  IInv'
<1> USE DEF IInv
<1> DEFINE c == f.spe
<1>1. c \in Contexts /\ c \in Running BY TopIs
<1>2. Distinct' /\ BreadcrumbsFollowRuns' /\ Running' = Running /\ Serving' BY ReplaceRuns
<1>3. TypeOK'
  <2>1. frames' \in [Threads -> Seq(FrameType)] BY Replace
  <2>2. info' \in [Contexts -> Failures \cup {"stale", "EXIT", "STOP_AND_SIGNAL"}] BY DEF TypeOK
  <2>3. exiting' \subseteq Isolated /\ again' \subseteq exiting' BY DEF TypeOK
  <2> QED BY <2>1, <2>2, <2>3 DEF TypeOK, table, debug
<1>4. Reserved' BY DEF Reserved, table
<1>5. Live' /\ ReturnMatchesStopInfo'
  <2>1. Begun(c) BY <1>1 DEF Live
  <2>2. c \notin again => info'[c] = IF c \in exiting' THEN "EXIT" ELSE "stale"
    BY <1>1, <2>1 DEF Begun, TypeOK
  <2>3. Begun(c)' BY <2>1, <2>2 DEF Begun
  <2>4. \A d \in Contexts \ {c} :
           /\ retval'[d] = retval[d] /\ info'[d] = info[d]
           /\ (d \in secure' <=> d \in secure) /\ (d \in exiting' <=> d \in exiting)
           /\ (d \in again' <=> d \in again) /\ (d \in Running' <=> d \in Running)
    BY <1>2 DEF TypeOK
  <2> QED BY <1>1, <1>2, <2>3, <2>4, Results
<1> QED BY <1>2, <1>3, <1>4, <1>5

\* A run that ends with a result which agrees with its reason.
LEMMA RunEnds ==
  ASSUME IInv, NEW t \in Threads, frames[t] # <<>>, NEW reason, NEW value, Finish(t, reason, value),
         reason \in Failures \cup {"stale", "EXIT", "STOP_AND_SIGNAL"}, value \in {"0", "-1", "code"},
         Top(t).spe \notin again =>
           /\ value = "0" => reason = "EXIT"
           /\ value = "-1" => reason \in Failures
           /\ value = "code" => reason = "STOP_AND_SIGNAL"
           /\ Top(t).spe \in Isolated /\ reason = "EXIT" => Top(t).spe \notin secure',
         UNCHANGED <<table, exiting, again, crashed>>,
         {entry', emulated_entry'} \subseteq [Contexts -> {"start", "parameters", "behind"}],
         secure' \subseteq secure, \A d \in secure : d # Top(t).spe => d \in secure'
  PROVE  IInv'
<1> USE DEF IInv
<1>0. PICK c \in Contexts : c = Top(t).spe BY TopIs
<1>1. c = Top(t).spe /\ Leave(t) /\ info' = [info EXCEPT ![c] = reason] /\ retval' = [retval EXCEPT ![c] = value]
  BY <1>0 DEF Finish
<1>2. Distinct' /\ BreadcrumbsFollowRuns' /\ Running' = Running \ {c} /\ Serving' BY <1>1, PopRuns
<1>3. TypeOK'
  <2>1. frames' \in [Threads -> Seq(FrameType)] BY <1>1, Pop
  <2>2. active' \in [Threads -> Contexts \cup {None}] /\ prev' = prev
    <3>1. prev[c] \in Contexts \cup {None} BY <1>1 DEF TypeOK
    <3> QED BY <1>1, <3>1 DEF TypeOK, Leave
  <2>3. /\ info' \in [Contexts -> Failures \cup {"stale", "EXIT", "STOP_AND_SIGNAL"}]
        /\ retval' \in [Contexts -> {"none", "0", "-1", "code"}]
    BY <1>1 DEF TypeOK
  <2> QED BY <2>1, <2>2, <2>3 DEF TypeOK, table
<1>4. Reserved' BY DEF Reserved, table
<1>5. Live' /\ ReturnMatchesStopInfo'
  <2>1. c \notin again' => Reported(c)'
    <3>1. retval'[c] = value /\ info'[c] = reason BY <1>1 DEF TypeOK
    <3> QED BY <1>1, <3>1 DEF Reported
  <2>2. \A d \in Contexts \ {c} :
           /\ retval'[d] = retval[d] /\ info'[d] = info[d]
           /\ (d \in secure' <=> d \in secure) /\ (d \in exiting' <=> d \in exiting)
           /\ (d \in again' <=> d \in again) /\ (d \in Running' <=> d \in Running)
    <3>1. \A d \in Contexts \ {c} : retval'[d] = retval[d] /\ info'[d] = info[d] BY <1>1 DEF TypeOK
    <3> QED BY <1>1, <1>2, <3>1
  <2> QED BY <1>1, <1>2, <2>1, <2>2, Results
<1> QED BY <1>2, <1>3, <1>4, <1>5

LEMMA SpuFinishesStep ==
  ASSUME IInv, NEW t \in Threads, NEW s \in Stops, SpuFinishes(t, s)
  PROVE  IInv'
<1> USE DEF IInv
<1>1. PICK c \in Contexts, no_callbacks \in BOOLEAN : c = Top(t).spe /\ no_callbacks = Top(t).no_callbacks
  BY StoppedIs DEF SpuFinishes
<1>2. PICK v : v = Verdict(c, no_callbacks, s) OBVIOUS
<1>3. /\ At(t, "spu_run") /\ Stopped(t, s) /\ frames[t] # <<>> /\ v.does = "finish"
      /\ Finish(t, v.reason, v.value) /\ UNCHANGED <<table, exiting, again, crashed>>
  BY <1>1, <1>2 DEF SpuFinishes, At
<1>4. Begun(c) BY <1>1, <1>3, TopIs DEF Live
<1>5. \/ v.value = "-1" /\ v.reason \in Failures
      \/ v.value = "0" /\ v.reason = "EXIT" /\ c \notin Isolated
      \/ v.value = "code" /\ v.reason = "STOP_AND_SIGNAL"
      \/ v.value = "0" /\ v.reason = info[c] /\ c \in Isolated /\ ~ IsolatedBit(c) /\ "ERROR" \notin s.bits
  BY <1>2, <1>3, StoppedIs, VerdictIs
<1>6. v.value \in {"0", "-1", "code"} /\ v.reason \in Failures \cup {"stale", "EXIT", "STOP_AND_SIGNAL"}
  BY <1>5 DEF TypeOK
<1>7. c \notin again =>
        /\ v.value = "0" => v.reason = "EXIT"
        /\ v.value = "-1" => v.reason \in Failures
        /\ v.value = "code" => v.reason = "STOP_AND_SIGNAL"
        /\ c \in Isolated /\ v.reason = "EXIT" => c \notin secure'
  <2> SUFFICES ASSUME c \notin again
               PROVE  /\ v.value = "0" => v.reason = "EXIT"
                      /\ v.value = "-1" => v.reason \in Failures
                      /\ v.value = "code" => v.reason = "STOP_AND_SIGNAL"
                      /\ c \in Isolated /\ v.reason = "EXIT" => c \notin secure'
    OBVIOUS
  <2>1. CASE v.value = "-1" /\ v.reason \in Failures BY <2>1 DEF Failures
  <2>2. CASE v.value = "0" /\ v.reason = "EXIT" /\ c \notin Isolated BY <2>2
  <2>3. CASE v.value = "code" /\ v.reason = "STOP_AND_SIGNAL" BY <2>3
  <2>4. CASE v.value = "0" /\ v.reason = info[c] /\ c \in Isolated /\ ~ IsolatedBit(c) /\ "ERROR" \notin s.bits
    <3>1. c \in exiting BY <1>4, <2>4 DEF Begun, IsolatedBit
    <3>2. info[c] = "EXIT" BY <1>4, <3>1 DEF Begun
    <3>3. c \notin secure' BY <1>1, <1>3, <2>4, <3>1, StoppedIs
    <3> QED BY <2>4, <3>2, <3>3
  <2> QED BY <1>5, <2>1, <2>2, <2>3, <2>4
<1>8. /\ {entry', emulated_entry'} \subseteq [Contexts -> {"start", "parameters", "behind"}]
      /\ secure' \subseteq secure /\ \A d \in secure : d # Top(t).spe => d \in secure'
  BY <1>3, StoppedIs
<1>9. PICK reason, value : reason = v.reason /\ value = v.value OBVIOUS
<1>10. /\ Finish(t, reason, value) /\ value \in {"0", "-1", "code"}
       /\ reason \in Failures \cup {"stale", "EXIT", "STOP_AND_SIGNAL"}
       /\ Top(t).spe \notin again =>
            /\ value = "0" => reason = "EXIT"
            /\ value = "-1" => reason \in Failures
            /\ value = "code" => reason = "STOP_AND_SIGNAL"
            /\ Top(t).spe \in Isolated /\ reason = "EXIT" => Top(t).spe \notin secure'
  BY <1>1, <1>3, <1>6, <1>7, <1>9
<1> QED BY <1>3, <1>8, <1>10, RunEnds

\* What the three stops that go on have in common.
LEMMA SpuGoesOn ==
  ASSUME IInv, NEW t \in Threads, NEW s \in Stops, At(t, "spu_run"), Stopped(t, s),
         Verdict(Top(t).spe, Top(t).no_callbacks, s).does \in {"call", "rerun", "exit"}
  PROVE  /\ frames[t] # <<>> /\ Top(t) \in FrameType /\ Top(t).at = "spu_run" /\ s.num \in CallNums
         /\ Top(t).spe \in Contexts \ exiting /\ secure' = secure
         /\ {entry', emulated_entry'} \subseteq [Contexts -> {"start", "parameters", "behind"}]
         /\ Verdict(Top(t).spe, Top(t).no_callbacks, s).does = "exit" => Top(t).spe \in Isolated
<1> USE DEF IInv
<1>1. s \in StopType /\ Top(t).spe \in Contexts /\ Top(t).no_callbacks \in BOOLEAN BY StoppedIs
<1>2. frames[t] # <<>> /\ Top(t) \in FrameType /\ Top(t).at = "spu_run" BY TopIs DEF At
<1>3. s.num \in CallNums BY <1>1 DEF StopType
<1>4. /\ s.code # "USER"
      /\ Verdict(Top(t).spe, Top(t).no_callbacks, s).does = "exit" => Top(t).spe \in Isolated
  BY <1>1, VerdictIs
<1> QED BY <1>1, <1>2, <1>3, <1>4, StoppedIs

LEMMA SpuCallsStep ==
  ASSUME IInv, NEW t \in Threads, NEW s \in Stops, SpuCalls(t, s)
  PROVE  IInv'
<1>1. PICK f : f = [Top(t) EXCEPT !.at = "lookup", !.npc = "parameters", !.num = s.num] OBVIOUS
<1>2. /\ SetTop(t, f) /\ UNCHANGED <<table, debug, info, retval, exiting, again, crashed>>
      /\ At(t, "spu_run") /\ Stopped(t, s) /\ Verdict(Top(t).spe, Top(t).no_callbacks, s).does = "call"
  BY <1>1 DEF SpuCalls
<1>3. f \in FrameType /\ f.spe = Top(t).spe /\ f.at = "lookup" /\ f.num \in CallNums
  BY <1>1, <1>2, SpuGoesOn DEF FrameType
<1>4. Serves(f) BY <1>3 DEF Serves
<1>5. crashed' \in BOOLEAN BY <1>2 DEF IInv, TypeOK
<1> QED BY <1>2, <1>3, <1>4, <1>5, SpuGoesOn, RunGoesOn

LEMMA SpuRerunsStep ==
  ASSUME IInv, NEW t \in Threads, NEW s \in Stops, SpuReruns(t, s)
  PROVE  IInv'
<1>1. PICK f : f = [Top(t) EXCEPT !.npc = "behind"] OBVIOUS
<1>2. /\ SetTop(t, f) /\ UNCHANGED <<table, debug, info, retval, exiting, again, crashed>>
      /\ At(t, "spu_run") /\ Stopped(t, s) /\ Verdict(Top(t).spe, Top(t).no_callbacks, s).does = "rerun"
  BY <1>1 DEF SpuReruns
<1>3. f \in FrameType /\ f.spe = Top(t).spe /\ f.at = "spu_run"
  BY <1>1, <1>2, SpuGoesOn DEF FrameType
<1>4. Serves(f) BY <1>3 DEF Serves
<1>5. crashed' \in BOOLEAN BY <1>2 DEF IInv, TypeOK
<1> QED BY <1>2, <1>3, <1>4, <1>5, SpuGoesOn, RunGoesOn

LEMMA SpuExitsStep ==
  ASSUME IInv, NEW t \in Threads, NEW s \in Stops, SpuExits(t, s)
  PROVE  IInv'
<1>1. PICK f : f = [Top(t) EXCEPT !.npc = "behind"] OBVIOUS
<1>2. /\ SetTop(t, f) /\ UNCHANGED <<table, debug, retval, again, crashed>>
      /\ At(t, "spu_run") /\ Stopped(t, s) /\ Verdict(Top(t).spe, Top(t).no_callbacks, s).does = "exit"
      /\ info' = [info EXCEPT ![Top(t).spe] = "EXIT"] /\ exiting' = exiting \cup {Top(t).spe}
  BY <1>1 DEF SpuExits
<1>3. f \in FrameType /\ f.spe = Top(t).spe /\ f.at = "spu_run"
  BY <1>1, <1>2, SpuGoesOn DEF FrameType
<1>4. Serves(f) BY <1>3 DEF Serves
<1>5. crashed' \in BOOLEAN BY <1>2 DEF IInv, TypeOK
<1>6. f.spe \in Isolated \ exiting BY <1>2, <1>3, SpuGoesOn
<1> QED BY <1>2, <1>3, <1>4, <1>5, <1>6, SpuGoesOn, RunGoesOn

\* The number of the call a run is serving.
LEMMA ServedCall ==
  ASSUME IInv, NEW t \in Threads, NEW label, At(t, label), label # "spu_run"
  PROVE  frames[t] # <<>> /\ Top(t) \in FrameType /\ Top(t).num \in CallNums /\ Top(t).at = label
<1>1. frames[t] # <<>> /\ Top(t) \in FrameType /\ Top(t).at = label BY TopIs DEF At, IInv
<1>2. Serves(Top(t)) BY <1>1, TopIs DEF IInv, Serving
<1> QED BY <1>1, <1>2 DEF Serves

LEMMA LookupStep ==
  ASSUME IInv, NEW t \in Threads, Lookup(t)
  PROVE  IInv'
<1> USE DEF IInv
<1>1. /\ frames[t] # <<>> /\ Top(t) \in FrameType /\ Top(t).num \in CallNums /\ Top(t).at = "lookup"
      /\ UNCHANGED <<table, entry, emulated_entry, secure, exiting, again, crashed>>
  BY ServedCall DEF Lookup
<1>2. CASE /\ handlers[Top(t).num] # None
           /\ SetTop(t, [Top(t) EXCEPT !.at = "fetch"]) /\ UNCHANGED <<debug, info, retval>>
  <2>1. PICK f : f = [Top(t) EXCEPT !.at = "fetch"] OBVIOUS
  <2>2. f \in FrameType /\ f.spe = Top(t).spe /\ f.at = "fetch" /\ f.num = Top(t).num
    BY <1>1, <2>1 DEF FrameType
  <2>3. Serves(f) BY <1>1, <1>2, <2>2 DEF Serves, Reserved
  <2> QED BY <1>1, <1>2, <2>1, <2>2, <2>3, RunGoesOn DEF TypeOK
<1>3. CASE Finish(t, "CALLBACK_ERROR", "-1")
  <2>1. "CALLBACK_ERROR" \in Failures BY DEF Failures
  <2> QED BY <1>1, <1>3, <2>1, RunEnds DEF TypeOK
<1> QED BY <1>2, <1>3 DEF Lookup

LEMMA FetchStep ==
  ASSUME IInv, NEW t \in Threads, Fetch(t)
  PROVE  IInv'
<1> USE DEF IInv
<1>1. PICK f : f = [Top(t) EXCEPT !.at = "handler", !.handler = handlers[Top(t).num]] OBVIOUS
<1>2. /\ frames[t] # <<>> /\ Top(t) \in FrameType /\ Top(t).num \in CallNums /\ Top(t).at = "fetch"
      /\ SetTop(t, f) /\ UNCHANGED <<table, debug, context>>
  BY <1>1, ServedCall DEF Fetch
<1>0. Serves(Top(t)) BY <1>2, TopIs DEF Serving
<1>3. /\ handlers[Top(t).num] \in UserHandlers \cup {Builtin, None}
      /\ Top(t).num < RESERVED => Top(t).num \in Defaults /\ handlers[Top(t).num] # None
  BY <1>0, <1>2 DEF TypeOK, Reserved, Serves
<1>4. /\ f \in FrameType /\ f.spe = Top(t).spe /\ f.at = "handler" /\ f.num = Top(t).num
      /\ f.handler = handlers[Top(t).num]
  BY <1>1, <1>2, <1>3 DEF FrameType
<1>5. Serves(f) BY <1>2, <1>3, <1>4 DEF Serves
<1>6. crashed' \in BOOLEAN BY DEF Fetch
<1> QED BY <1>2, <1>4, <1>5, <1>6, RunGoesOn DEF TypeOK, context

LEMMA HandlerSucceedsStep ==
  ASSUME IInv, NEW t \in Threads, HandlerSucceeds(t)
  PROVE  IInv'
<1> USE DEF IInv
<1>1. PICK f : f = [Top(t) EXCEPT !.at = "spu_run", !.handler = None, !.npc = "behind"] OBVIOUS
<1>2. /\ frames[t] # <<>> /\ Top(t) \in FrameType
      /\ SetTop(t, f) /\ UNCHANGED <<table, debug, context, crashed>>
  BY <1>1, ServedCall DEF HandlerSucceeds
<1>3. f \in FrameType /\ f.spe = Top(t).spe /\ f.at = "spu_run" BY <1>1, <1>2 DEF FrameType
<1>4. Serves(f) BY <1>3 DEF Serves
<1> QED BY <1>2, <1>3, <1>4, RunGoesOn DEF TypeOK, context

LEMMA HandlerFailsStep ==
  ASSUME IInv, NEW t \in Threads, HandlerFails(t)
  PROVE  IInv'
<1>1. /\ frames[t] # <<>> /\ Finish(t, "CALLBACK_ERROR", "-1")
      /\ UNCHANGED <<table, entry, emulated_entry, secure, exiting, again, crashed>>
  BY DEF HandlerFails, At
<1>2. "CALLBACK_ERROR" \in Failures BY DEF Failures
<1> QED BY <1>1, <1>2, RunEnds DEF IInv, TypeOK

-----------------------------------------------------------------------------
(* The theorems *)

LEMMA NextIInv == IInv /\ [Next]_vars => IInv'
<1> SUFFICES ASSUME IInv, [Next]_vars PROVE IInv' OBVIOUS
<1>1. CASE UNCHANGED vars
  <2>1. TypeOK' BY <1>1 DEF IInv, TypeOK, vars, table, debug, context
  <2>2. Reserved' BY <1>1 DEF IInv, Reserved, vars, table
  <2> QED BY <1>1, <2>1, <2>2, TableStep DEF vars
<1>2. CASE Next
  <2> PICK t \in Threads :
       \/ \E n \in CallNums :
            \/ \E h \in UserHandlers : HandlerRegister(t, n, h)
            \/ HandlerDeregister(t, n)
       \/ StoreHandler(t)
       \/ \E c \in Contexts, no_callbacks \in BOOLEAN :
            \E from \in {"start", entry[c]} : Begin(t, c, from, no_callbacks)
       \/ \E s \in Stops :
            SpuFinishes(t, s) \/ SpuCalls(t, s) \/ SpuReruns(t, s) \/ SpuExits(t, s)
       \/ Lookup(t) \/ Fetch(t) \/ HandlerSucceeds(t) \/ HandlerFails(t)
    BY <1>2 DEF Next
  <2>1. CASE \E n \in CallNums : \E h \in UserHandlers : HandlerRegister(t, n, h)
    BY <2>1, HandlerRegisterStep
  <2>2. CASE \E n \in CallNums : HandlerDeregister(t, n) BY <2>2, HandlerDeregisterStep
  <2>3. CASE StoreHandler(t) BY <2>3, StoreHandlerStep
  <2>4. CASE \E c \in Contexts, no_callbacks \in BOOLEAN :
               \E from \in {"start", entry[c]} : Begin(t, c, from, no_callbacks)
    <3>0. PICK c \in Contexts, no_callbacks \in BOOLEAN :
                 \E from \in {"start", entry[c]} : Begin(t, c, from, no_callbacks)
      BY <2>4
    <3>1. PICK from \in {"start", entry[c]} : Begin(t, c, from, no_callbacks) BY <3>0
    <3> QED BY <3>1, BeginStep
  <2>5. CASE \E s \in Stops : SpuFinishes(t, s) BY <2>5, SpuFinishesStep
  <2>6. CASE \E s \in Stops : SpuCalls(t, s) BY <2>6, SpuCallsStep
  <2>7. CASE \E s \in Stops : SpuReruns(t, s) BY <2>7, SpuRerunsStep
  <2>8. CASE \E s \in Stops : SpuExits(t, s) BY <2>8, SpuExitsStep
  <2>9. CASE Lookup(t) BY <2>9, LookupStep
  <2>10. CASE Fetch(t) BY <2>10, FetchStep
  <2>11. CASE HandlerSucceeds(t) BY <2>11, HandlerSucceedsStep
  <2>12. CASE HandlerFails(t) BY <2>12, HandlerFailsStep
  <2> QED BY <2>1, <2>2, <2>3, <2>4, <2>5, <2>6, <2>7, <2>8, <2>9, <2>10, <2>11, <2>12
<1> QED BY <1>1, <1>2

THEOREM Invariance == Spec => []IInv
BY InitIInv, NextIInv, PTL DEF Spec

\* The state of the runs has its type.
THEOREM TypeCorrect == Spec => []TypeOK
<1>1. IInv => TypeOK BY DEF IInv
<1> QED BY <1>1, Invariance, PTL

\* __spe_current_active_context of a thread is its innermost run, and `prev'
\* leads through the outer ones (_base_spe_context_run, run.c).
THEOREM BreadcrumbsHold == Spec => []BreadcrumbsFollowRuns
<1>1. IInv => BreadcrumbsFollowRuns BY DEF IInv
<1> QED BY <1>1, Invariance, PTL

\* What _base_spe_context_run returns agrees with the stop info it leaves.
THEOREM ReturnMatchesHolds == Spec => []ReturnMatchesStopInfo
<1>1. IInv => ReturnMatchesStopInfo BY DEF IInv
<1> QED BY <1>1, Invariance, PTL

\* _base_spe_handle_library_callback finds a handler for every reserved call that
\* handlers[] has a default for, and serves no other reserved one.
THEOREM ReservedCallsHold == Spec => []ReservedCallsServed
<1>1. IInv => ReservedCallsServed
  <2> SUFFICES ASSUME IInv, NEW t \in Threads,
                      frames[t] # <<>>, Top(t).at # "spu_run", Top(t).num < RESERVED
               PROVE  /\ Top(t).num \in Defaults =>
                           /\ handlers[Top(t).num] # None
                           /\ At(t, "handler") => Top(t).handler # None
                      /\ Top(t).num \notin Defaults => At(t, "lookup")
    BY DEF ReservedCallsServed
  <2>1. Serves(Top(t)) BY TopIs DEF IInv, Serving
  <2>2. Top(t).num \in Defaults => handlers[Top(t).num] # None BY <2>1 DEF IInv, Reserved, Serves
  <2> QED BY <2>1, <2>2 DEF Serves, At
<1> QED BY <1>1, Invariance, PTL
=============================================================================
