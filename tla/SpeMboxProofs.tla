--------------------------- MODULE SpeMboxProofs ---------------------------
(***************************************************************************)
(* Proofs about the mailboxes, for any number of writers and readers, any  *)
(* depth of a mailbox and any length of a call.  Of SpeInMbox: it is a     *)
(* bounded buffer, the words of each writer arrive in order, and a call    *)
(* writes what it promises.  Of SpeOutMbox: every word is taken once, and  *)
(* a call returns what it promises.                                        *)
(***************************************************************************)
EXTENDS SpeInMbox, SpeOutMbox, SequenceTheorems, TLAPS

\* The values of pc.
Labels == {"idle", "lock", "space", "put", "unlock", "open", "poll", "deaf", "file"}

\* Where the lock of FD_WBOX is held.
Critical == {"space", "put", "unlock"}

\* A writer between lock and unlock is the holder.
Exclusion == \A w \in Writers : pc[w] \in Critical => lock = w

\* The free entries a writer has counted are still free, and it has words for
\* all of them.
Counted ==
  \A w \in Writers :
    pc[w] = "put" => /\ mapped
                     /\ space[w] >= 1 /\ Len(wbox) + space[w] <= Depth
                     /\ total[w] + space[w] <= count[w]

\* Only without SPE_MAP_PS does a writer write to the file, and then there are
\* words left.
Unmapped ==
  \A w \in Writers :
    /\ pc[w] = "file" => ~ mapped /\ total[w] < count[w]
    /\ pc[w] \notin {"idle", "file"} => mapped

IInv == TypeOK /\ Exclusion /\ Counted /\ Unmapped

-----------------------------------------------------------------------------
\* The type of a word.
LEMMA WordType ==
  ASSUME TypeOK, NEW w \in Writers, NEW i \in Nat
  PROVE  Word(w, i) \in Writers \X Nat
BY DEF TypeOK, Word

LEMMA InitIInv == Init => IInv
BY MboxAssumption DEF Init, IInv, TypeOK, Exclusion, Counted, Unmapped, Flags, Critical

LEMMA WriteStep ==
  ASSUME IInv, NEW w \in Writers, NEW flag \in Flags, NEW n \in 1 .. MaxCount,
         Write(w, flag, n)
  PROVE  IInv'
<1> USE MboxAssumption
<1>1. TypeOK'
  <2>1. pc' \in [Writers -> Labels] BY DEF IInv, TypeOK, Labels, Write, Goto
  <2>2. count' \in [Writers -> 0 .. MaxCount] BY DEF IInv, TypeOK, Write
  <2>3. total' \in [Writers -> 0 .. MaxCount] BY DEF IInv, TypeOK, Write
  <2>4. calls' \in [Writers -> 0 .. MaxCalls]
    <3>1. calls \in [Writers -> 0 .. MaxCalls] BY DEF IInv, TypeOK
    <3>2. calls[w] < MaxCalls /\ calls' = [calls EXCEPT ![w] = @ + 1] BY DEF Write
    <3>3. calls[w] + 1 \in 0 .. MaxCalls BY <3>1, <3>2
    <3> QED BY <3>1, <3>2, <3>3
  <2>5. behavior_flag' \in [Writers -> Flags] BY DEF IInv, TypeOK, Write
  <2> QED BY <2>1, <2>2, <2>3, <2>4, <2>5 DEF IInv, TypeOK, Labels, Write
<1>2. Exclusion' BY DEF IInv, TypeOK, Exclusion, Critical, Write, Goto
<1>3. Counted' BY DEF IInv, TypeOK, Counted, Write, Goto
<1>4. Unmapped' BY DEF IInv, TypeOK, Unmapped, Write, Goto
<1> QED BY <1>1, <1>2, <1>3, <1>4 DEF IInv

LEMMA LockStep ==
  ASSUME IInv, NEW w \in Writers, Lock(w)
  PROVE  IInv'
<1> USE MboxAssumption
<1>1. TypeOK' BY DEF IInv, TypeOK, Lock, Goto, call
<1>2. Exclusion' BY DEF IInv, TypeOK, Exclusion, Critical, Lock, Goto
<1>3. Counted' BY DEF IInv, TypeOK, Counted, Lock, Goto, call
<1>4. Unmapped' BY DEF IInv, TypeOK, Unmapped, Lock, Goto, call
<1> QED BY <1>1, <1>2, <1>3, <1>4 DEF IInv

LEMMA SpaceStep ==
  ASSUME IInv, NEW w \in Writers, Space(w)
  PROVE  IInv'
<1> USE MboxAssumption
<1>0. Len(wbox) \in Nat BY DEF IInv, TypeOK
<1>1. TypeOK'
  <2>1. Depth - Len(wbox) \in 0 .. Depth BY <1>0 DEF IInv, TypeOK
  <2>2. total[w] < count[w] =>
          Smaller(Depth - Len(wbox), count[w] - total[w]) \in 0 .. Depth
    <3>1. count[w] \in Nat /\ total[w] \in Nat BY DEF IInv, TypeOK
    <3> QED BY <2>1, <3>1 DEF Smaller
  <2>3. space' \in [Writers -> 0 .. Depth]
    BY <2>2 DEF IInv, TypeOK, Space
  <2> QED BY <2>3 DEF IInv, TypeOK, Space, Goto, call
<1>2. Exclusion' BY DEF IInv, TypeOK, Exclusion, Critical, Space, Goto
<1>3. Counted'
  <2>1. \A v \in Writers \ {w} : pc'[v] # "put"
    BY DEF IInv, TypeOK, Exclusion, Critical, Space, Goto
  <2>2. ASSUME pc'[w] = "put"
        PROVE  /\ space'[w] >= 1 /\ Len(wbox) + space'[w] <= Depth
               /\ total[w] + space'[w] <= count[w]
    BY <1>0, <2>2 DEF IInv, TypeOK, Space, Goto, Smaller
  <2>3. mapped BY DEF IInv, Unmapped, Space
  <2> QED BY <2>1, <2>2, <2>3 DEF IInv, Counted, Space, call
<1>4. Unmapped' BY DEF IInv, TypeOK, Unmapped, Space, Goto, call
<1> QED BY <1>1, <1>2, <1>3, <1>4 DEF IInv

\* A store goes to an entry that is free: it appends.
LEMMA PutWordAppends ==
  ASSUME IInv, NEW w \in Writers, PutWord(w)
  PROVE  wbox' = Append(wbox, Word(w, 1)) /\ Len(wbox) < Depth
<1>1. Len(wbox) \in Nat /\ Len(wbox) + space[w] <= Depth /\ space[w] >= 1
      /\ space[w] \in Int
  BY DEF IInv, TypeOK, Counted, PutWord
<1>2. Len(wbox) < Depth BY <1>1, MboxAssumption
<1> QED BY <1>2 DEF PutWord

LEMMA PutWordStep ==
  ASSUME IInv, NEW w \in Writers, PutWord(w)
  PROVE  IInv'
<1> USE MboxAssumption
<1>a. wbox' = Append(wbox, Word(w, 1)) /\ Len(wbox) < Depth
  BY PutWordAppends
<1>b. Word(w, 1) \in Writers \X Nat BY WordType DEF IInv
<1>c. wbox' \in Seq(Writers \X Nat) /\ Len(wbox') = Len(wbox) + 1 /\ Len(wbox) \in Nat
  BY <1>a, <1>b DEF IInv, TypeOK
<1>d. /\ space[w] >= 1 /\ Len(wbox) + space[w] <= Depth
      /\ total[w] + space[w] <= count[w] /\ lock = w /\ mapped
      /\ space[w] \in 0 .. Depth /\ total[w] \in 0 .. MaxCount /\ count[w] \in 0 .. MaxCount
  BY DEF IInv, TypeOK, Counted, Exclusion, Critical, PutWord
<1>1. TypeOK'
  <2>1. total' \in [Writers -> 0 .. MaxCount] /\ space' \in [Writers -> 0 .. Depth]
    <3>1. total[w] + 1 \in 0 .. MaxCount /\ space[w] - 1 \in 0 .. Depth BY <1>d
    <3> QED BY <3>1 DEF IInv, TypeOK, PutWord
  <2>2. Len(wbox') <= Depth BY <1>a, <1>c
  <2> QED BY <1>c, <2>1, <2>2 DEF IInv, TypeOK, PutWord, Goto, call
<1>2. Exclusion' BY DEF IInv, TypeOK, Exclusion, Critical, PutWord, Goto
<1>3. Counted'
  <2>1. \A v \in Writers \ {w} : pc'[v] # "put"
    BY <1>d DEF IInv, TypeOK, Exclusion, Critical, PutWord, Goto
  <2>2. ASSUME pc'[w] = "put"
        PROVE  /\ space'[w] >= 1 /\ Len(wbox') + space'[w] <= Depth
               /\ total'[w] + space'[w] <= count'[w]
    <3>1. space[w] # 1 BY <2>2 DEF IInv, TypeOK, PutWord, Goto
    <3>2. space'[w] = space[w] - 1 /\ total'[w] = total[w] + 1 /\ count' = count
      BY DEF IInv, TypeOK, PutWord, call
    <3>3. space[w] \in Nat /\ total[w] \in Nat /\ count[w] \in Nat BY <1>d
    <3>4. space'[w] >= 1 BY <1>d, <3>1, <3>2, <3>3
    <3>5. Len(wbox') + space'[w] <= Depth BY <1>c, <1>d, <3>2, <3>3
    <3>6. total'[w] + space'[w] <= count'[w] BY <1>d, <3>2, <3>3
    <3> QED BY <3>4, <3>5, <3>6
  <2>3. mapped' BY <1>d DEF PutWord
  <2> QED BY <2>1, <2>2, <2>3 DEF Counted
<1>4. Unmapped' BY <1>d DEF IInv, TypeOK, Unmapped, PutWord, Goto, call
<1> QED BY <1>1, <1>2, <1>3, <1>4 DEF IInv

LEMMA UnlockStep ==
  ASSUME IInv, NEW w \in Writers, Unlock(w)
  PROVE  IInv'
<1> USE MboxAssumption
<1>1. TypeOK'
  <2>1. next' \in [Writers -> Nat]
    <3>1. total[w] \in Nat /\ next[w] \in Nat /\ next \in [Writers -> Nat]
      BY DEF IInv, TypeOK
    <3>2. next' = next \/ next' = [next EXCEPT ![w] = @ + total[w]]
      BY DEF Unlock, Return
    <3> QED BY <3>1, <3>2
  <2>2. pc' \in [Writers -> Labels] BY DEF IInv, TypeOK, Labels, Unlock, Goto, Return
  <2> QED BY <2>1, <2>2 DEF IInv, TypeOK, Labels, Unlock, Return, call
<1>2. Exclusion' BY DEF IInv, TypeOK, Exclusion, Critical, Unlock, Goto, Return
<1>3. Counted' BY DEF IInv, TypeOK, Counted, Unlock, Goto, Return, call
<1>4. Unmapped' BY DEF IInv, TypeOK, Unmapped, Unlock, Goto, Return, call
<1> QED BY <1>1, <1>2, <1>3, <1>4 DEF IInv

LEMMA PollStep ==
  ASSUME IInv, NEW w \in Writers, Poll(w)
  PROVE  IInv'
<1> USE MboxAssumption
<1>1. TypeOK'
  <2>1. next' \in [Writers -> Nat]
    <3>1. total[w] \in Nat /\ next[w] \in Nat BY DEF IInv, TypeOK
    <3> QED BY <3>1 DEF IInv, TypeOK, Poll, Return, Fail
  <2>2. pc' \in [Writers -> Labels] BY DEF IInv, TypeOK, Labels, Poll, Goto, Return, Fail
  <2>3. failed' \in [Writers -> BOOLEAN] BY DEF IInv, TypeOK, Poll, Return, Fail
  <2> QED BY <2>1, <2>2, <2>3 DEF IInv, TypeOK, Labels, Poll, call
<1>2. Exclusion' BY DEF IInv, TypeOK, Exclusion, Critical, Poll, Goto, Return, Fail
<1>3. Counted' BY DEF IInv, TypeOK, Counted, Poll, Goto, Return, Fail, call
<1>4. Unmapped' BY DEF IInv, TypeOK, Unmapped, Poll, Goto, Return, Fail, call
<1> QED BY <1>1, <1>2, <1>3, <1>4 DEF IInv

LEMMA PollOpenStep ==
  ASSUME IInv, NEW w \in Writers, PollOpen(w)
  PROVE  IInv'
<1>1. TypeOK' BY DEF IInv, TypeOK, PollOpen, Goto, call
<1>2. Exclusion' BY DEF IInv, TypeOK, Exclusion, Critical, PollOpen, Goto
<1>3. Counted' BY DEF IInv, TypeOK, Counted, PollOpen, Goto, call
<1>4. Unmapped' BY DEF IInv, TypeOK, Unmapped, PollOpen, Goto, call
<1> QED BY <1>1, <1>2, <1>3, <1>4 DEF IInv

LEMMA PollInterruptedStep ==
  ASSUME IInv, NEW w \in Writers, PollInterrupted(w)
  PROVE  IInv'
<1>1. TypeOK' BY DEF IInv, TypeOK, PollInterrupted, Goto, Fail, call
<1>2. Exclusion' BY DEF IInv, TypeOK, Exclusion, Critical, PollInterrupted, Goto, Fail
<1>3. Counted' BY DEF IInv, TypeOK, Counted, PollInterrupted, Goto, Fail, call
<1>4. Unmapped' BY DEF IInv, TypeOK, Unmapped, PollInterrupted, Goto, Fail, call
<1> QED BY <1>1, <1>2, <1>3, <1>4 DEF IInv

\* A write to the file appends as many words as fit.
LEMMA FileWriteAppends ==
  ASSUME IInv, NEW w \in Writers, FileWrite(w)
  PROVE  /\ wbox' \in Seq(Writers \X Nat)
         /\ Len(wbox) < Len(wbox') /\ Len(wbox') <= Depth
         /\ \A i \in 1 .. Len(wbox) : wbox'[i] = wbox[i]
<1> USE MboxAssumption
<1> DEFINE n == Smaller(Depth - Len(wbox), count[w] - total[w])
           words == [i \in 1 .. n |-> Word(w, i)]
<1>1. wbox \in Seq(Writers \X Nat) /\ Len(wbox) \in Nat BY DEF IInv, TypeOK
<1>2. n \in Nat /\ n > 0 /\ n <= Depth - Len(wbox)
  BY <1>1 DEF IInv, TypeOK, FileWrite, Smaller
<1>3. \A i \in 1 .. n : Word(w, i) \in Writers \X Nat BY <1>2, WordType DEF IInv
<1>4. wbox' = wbox \o words BY DEF FileWrite
<1> HIDE DEF n
<1>5. words \in Seq(Writers \X Nat) /\ Len(words) = n BY <1>2, <1>3
<1> HIDE DEF words
<1>6. wbox' \in Seq(Writers \X Nat) BY <1>1, <1>4, <1>5
<1>7. Len(wbox') = Len(wbox) + n BY <1>1, <1>4, <1>5, ConcatProperties
<1>8. \A i \in 1 .. Len(wbox) : wbox'[i] = wbox[i] BY <1>1, <1>4, <1>5
<1> QED BY <1>1, <1>2, <1>6, <1>7, <1>8

LEMMA FileWriteStep ==
  ASSUME IInv, NEW w \in Writers, FileWrite(w)
  PROVE  IInv'
<1> USE MboxAssumption
<1> DEFINE n == Smaller(Depth - Len(wbox), count[w] - total[w])
<1>a. /\ wbox' \in Seq(Writers \X Nat)
      /\ Len(wbox') <= Depth
  BY FileWriteAppends
<1>b. Len(wbox) \in Nat /\ total[w] \in Nat /\ count[w] \in 0 .. MaxCount
  BY DEF IInv, TypeOK
<1>c. n \in Nat /\ total[w] + n <= count[w]
  BY <1>b DEF IInv, TypeOK, FileWrite, Smaller
<1>d. total' = [total EXCEPT ![w] = @ + n] /\ ~ mapped /\ pc[w] = "file"
      /\ pc' \in {pc, [pc EXCEPT ![w] = "idle"]}
      /\ (pc' = pc => total[w] + n < count[w])
  BY DEF IInv, TypeOK, Unmapped, FileWrite, Return, Goto
<1>e. next' = next \/ next' = [next EXCEPT ![w] = @ + (total[w] + n)]
  BY DEF FileWrite, Return
<1> HIDE DEF n
<1>1. TypeOK'
  <2>1. total' \in [Writers -> 0 .. MaxCount] BY <1>b, <1>c, <1>d DEF IInv, TypeOK
  <2>2. pc' \in [Writers -> {"idle", "lock", "space", "put", "unlock", "open", "poll", "deaf", "file"}]
    BY <1>d DEF IInv, TypeOK
  <2>3. next' \in [Writers -> Nat]
    <3>1. total[w] + n \in Nat /\ next[w] \in Nat /\ next \in [Writers -> Nat]
      BY <1>b, <1>c DEF IInv, TypeOK
    <3> QED BY <1>e, <3>1
  <2> QED BY <1>a, <2>1, <2>2, <2>3 DEF IInv, TypeOK, FileWrite, Return, call
<1>2. Exclusion' BY <1>d DEF IInv, TypeOK, Exclusion, Critical, FileWrite
<1>3. Counted' BY <1>d DEF IInv, TypeOK, Counted, FileWrite, call
<1>4. Unmapped' BY <1>b, <1>c, <1>d DEF IInv, TypeOK, Unmapped, FileWrite, call
<1> QED BY <1>1, <1>2, <1>3, <1>4 DEF IInv

LEMMA FileAgainStep ==
  ASSUME IInv, NEW w \in Writers, FileAgain(w)
  PROVE  IInv'
<1> USE MboxAssumption
<1>1. TypeOK'
  <2>1. next' \in [Writers -> Nat] BY DEF IInv, TypeOK, FileAgain, Return
  <2>2. pc' \in [Writers -> Labels] BY DEF IInv, TypeOK, Labels, FileAgain, Goto, Return
  <2> QED BY <2>1, <2>2 DEF IInv, TypeOK, Labels, FileAgain, Return, call
<1>2. Exclusion' BY DEF IInv, TypeOK, Exclusion, Critical, FileAgain, Goto, Return
<1>3. Counted' BY DEF IInv, TypeOK, Counted, FileAgain, Goto, Return, call
<1>4. Unmapped' BY DEF IInv, TypeOK, Unmapped, FileAgain, Goto, Return, call
<1> QED BY <1>1, <1>2, <1>3, <1>4 DEF IInv

LEMMA FileFailsStep ==
  ASSUME IInv, NEW w \in Writers, FileFails(w)
  PROVE  IInv'
<1> USE MboxAssumption
<1>1. TypeOK' BY DEF IInv, TypeOK, FileFails, Goto, Fail, call
<1>2. Exclusion' BY DEF IInv, TypeOK, Exclusion, Critical, FileFails, Goto, Fail
<1>3. Counted' BY DEF IInv, TypeOK, Counted, FileFails, Goto, Fail, call
<1>4. Unmapped' BY DEF IInv, TypeOK, Unmapped, FileFails, Goto, Fail, call
<1> QED BY <1>1, <1>2, <1>3, <1>4 DEF IInv

LEMMA ReadStep ==
  ASSUME IInv, Read
  PROVE  IInv'
<1> USE MboxAssumption
<1>a. /\ wbox' \in Seq(Writers \X Nat) /\ Len(wbox') = Len(wbox) - 1 /\ Len(wbox) \in Nat
      /\ taken' \in Seq(Writers \X Nat)
  <2>1. wbox \in Seq(Writers \X Nat) /\ wbox # <<>> /\ taken \in Seq(Writers \X Nat)
    BY DEF IInv, TypeOK, Read
  <2>2. Head(wbox) \in Writers \X Nat BY <2>1
  <2> QED BY <2>1, <2>2 DEF Read
<1>1. TypeOK'
  <2>1. Len(wbox') <= Depth BY <1>a DEF IInv, TypeOK
  <2> QED BY <1>a, <2>1 DEF IInv, TypeOK, Read, call
<1>2. Exclusion' BY DEF IInv, Exclusion, Critical, Read
<1>3. Counted' BY <1>a DEF IInv, TypeOK, Counted, Read, call
<1>4. Unmapped' BY DEF IInv, Unmapped, Read, call
<1> QED BY <1>1, <1>2, <1>3, <1>4 DEF IInv

\* The counting of the free entries stays valid until they are written to,
\* whatever the other writers and the SPE program do.
LEMMA NextIInv == IInv /\ [Next]_vars => IInv'
<1> SUFFICES ASSUME IInv, [Next]_vars PROVE IInv'
  OBVIOUS
<1>1. ASSUME NEW w \in Writers, NEW flag \in Flags, NEW n \in 1 .. MaxCount, Write(w, flag, n)
      PROVE  IInv'
  BY <1>1, WriteStep
<1>2. ASSUME NEW w \in Writers, Step(w) PROVE IInv'
  <2>1. Lock(w) => IInv' BY LockStep
  <2>2. Space(w) => IInv' BY SpaceStep
  <2>3. PutWord(w) => IInv' BY PutWordStep
  <2>4. Unlock(w) => IInv' BY UnlockStep
  <2>5. Poll(w) => IInv' BY PollStep
  <2>6. FileWrite(w) => IInv' BY FileWriteStep
  <2>7. FileAgain(w) => IInv' BY FileAgainStep
  <2>8. FileFails(w) => IInv' BY FileFailsStep
  <2>9. PollOpen(w) => IInv' BY PollOpenStep
  <2>10. PollInterrupted(w) => IInv' BY PollInterruptedStep
  <2> QED BY <1>2, <2>1, <2>2, <2>3, <2>4, <2>5, <2>6, <2>7, <2>8, <2>9, <2>10 DEF Step
<1>3. Read => IInv' BY ReadStep
<1>4. ASSUME UNCHANGED vars PROVE IInv'
  BY <1>4 DEF IInv, TypeOK, Exclusion, Counted, Unmapped, vars, call
<1> QED BY <1>1, <1>2, <1>3, <1>4 DEF Next

THEOREM Invariance == Spec => []IInv
BY InitIInv, NextIInv, PTL DEF Spec

\* Every variable of the inbound mailbox keeps its type, and the mailbox never
\* holds more than Depth words.
THEOREM TypeCorrect == Spec => []TypeOK
<1>1. IInv => TypeOK BY DEF IInv
<1> QED BY <1>1, Invariance, PTL

\* A step of the writers or of the SPE program is a step of the bounded buffer.
LEMMA StepRefines == IInv /\ [Next]_vars => [Buffer!Next]_<<wbox, taken>>
<1> SUFFICES ASSUME IInv, Next PROVE [Buffer!Next]_<<wbox, taken>>
  BY DEF vars
<1>1. ASSUME NEW w \in Writers, NEW flag \in Flags, NEW n \in 1 .. MaxCount, Write(w, flag, n)
      PROVE  UNCHANGED <<wbox, taken>>
  BY <1>1 DEF Write
<1>2. ASSUME NEW w \in Writers, Step(w) PROVE Buffer!Put \/ UNCHANGED <<wbox, taken>>
  <2>1. ASSUME PutWord(w) PROVE Buffer!Put
    <3>1. wbox' = Append(wbox, Word(w, 1)) /\ Len(wbox) < Depth
      BY <2>1, PutWordAppends
    <3>2. wbox \in Seq(Writers \X Nat) /\ Word(w, 1) \in Writers \X Nat /\ Len(wbox) \in Nat
      BY WordType DEF IInv, TypeOK
    <3>3. /\ Len(wbox') = Len(wbox) + 1
          /\ \A i \in 1 .. Len(wbox) : wbox'[i] = wbox[i]
      BY <3>1, <3>2
    <3> QED BY <2>1, <3>1, <3>2, <3>3, MboxAssumption DEF Buffer!Put, PutWord
  <2>2. ASSUME FileWrite(w) PROVE Buffer!Put
    <3>1. /\ Len(wbox) < Len(wbox') /\ Len(wbox') <= Depth
          /\ \A i \in 1 .. Len(wbox) : wbox'[i] = wbox[i]
      BY <2>2, FileWriteAppends
    <3> QED BY <2>2, <3>1 DEF Buffer!Put, FileWrite
  <2>3. Lock(w) \/ Space(w) \/ Unlock(w) \/ PollOpen(w) \/ Poll(w) \/ PollInterrupted(w)
          \/ FileAgain(w) \/ FileFails(w)
        => UNCHANGED <<wbox, taken>>
    BY DEF Lock, Space, Unlock, PollOpen, Poll, PollInterrupted, FileAgain, FileFails
  <2> QED BY <1>2, <2>1, <2>2, <2>3 DEF Step
<1>3. Read => Buffer!Take
  BY DEF Read, Buffer!Take
<1> QED BY <1>1, <1>2, <1>3 DEF Next, Buffer!Next

\* The inbound mailbox implements the bounded buffer: no store overwrites a
\* word the SPE program has not read, with any number of writers.
THEOREM Refinement == Spec => ImplementsBuffer
<1>1. Init => Buffer!Init BY DEF Init, Buffer!Init
<1> QED BY <1>1, StepRefines, Invariance, PTL DEF Spec, ImplementsBuffer, Buffer!Spec

-----------------------------------------------------------------------------
(* That the words arrive *)

\* The words of w that were written as far as w will ever know: those of the
\* calls that returned, and those of the call it is in.
Sent == [w \in Writers |-> next[w] + (IF pc[w] = "idle" THEN 0 ELSE total[w])]

\* A call writes no more than it was given, and one that is to write to the file
\* once only has not done so.
Within ==
  \A w \in Writers : pc[w] # "idle" =>
    /\ total[w] <= count[w]
    /\ pc[w] = "file" /\ behavior_flag[w] # "ALL_BLOCKING" => total[w] = 0

Arrived == \A w \in Writers : \A i \in 1 .. Sent[w] : \E k \in 1 .. Len(Words) : Words[k] = <<w, i>>

InOrder ==
  \A w \in Writers : \A j \in 0 .. Len(Words), k \in 1 .. Len(Words) : Precedes(w, j, k) =>
    /\ Number(k) <= Number(j) + 1
    /\ ~ failed[w] => Number(k) = Number(j) + 1

\* The last word of w (0: there is none).
IsLast(w, j) == /\ j = 0 \/ Words[j][1] = w
                /\ \A i \in j + 1 .. Len(Words) : Words[i][1] # w

\* The next word of w follows the last one: a call that failed leaves more words
\* than w knows of, but the first word of the next call makes up for it.
Continues ==
  \A w \in Writers : \A j \in 0 .. Len(Words) : IsLast(w, j) =>
    /\ Number(j) >= Sent[w]
    /\ ~ failed[w] \/ (pc[w] # "idle" /\ total[w] > 0) => Number(j) = Sent[w]

AInv == Within /\ Arrived /\ InOrder /\ Continues

\* The words written form a sequence, and each writer has sent a number of them.
LEMMA WordsType ==
  ASSUME TypeOK
  PROVE  /\ Words \in Seq(Writers \X Nat) /\ Len(Words) \in Nat
         /\ Len(Words) = Len(taken) + Len(wbox)
         /\ \A k \in 1 .. Len(Words) : Words[k] = <<Words[k][1], Words[k][2]>> /\ Words[k][2] \in Nat
         /\ \A k \in 0 .. Len(Words) : Number(k) \in Nat
         /\ \A w \in Writers : Sent[w] \in Nat
<1>1. taken \in Seq(Writers \X Nat) /\ wbox \in Seq(Writers \X Nat) BY DEF TypeOK
<1>2. Words \in Seq(Writers \X Nat) /\ Len(Words) = Len(taken) + Len(wbox)
  BY <1>1, ConcatProperties DEF Words
<1>3. \A k \in 1 .. Len(Words) : Words[k] \in Writers \X Nat BY <1>2
<1>4. \A k \in 1 .. Len(Words) : Words[k] = <<Words[k][1], Words[k][2]>> /\ Words[k][2] \in Nat
  BY <1>3
<1>5. \A k \in 0 .. Len(Words) : Number(k) \in Nat BY <1>2, <1>4 DEF Number
<1>6. ASSUME NEW w \in Writers PROVE Sent[w] \in Nat
  <2>1. next[w] \in Nat /\ total[w] \in Nat BY MboxAssumption DEF TypeOK
  <2> QED BY <2>1 DEF Sent
<1> QED BY <1>2, <1>4, <1>5, <1>6

\* What a step that writes no word has to keep.
LEMMA Kept ==
  ASSUME IInv, Arrived, InOrder, Continues, IInv', Words' = Words,
         \A w \in Writers :
           /\ Sent'[w] <= Sent[w]
           /\ ~ failed'[w] => ~ failed[w] /\ Sent'[w] = Sent[w]
           /\ pc'[w] # "idle" /\ total'[w] > 0 =>
                pc[w] # "idle" /\ total[w] > 0 /\ Sent'[w] = Sent[w]
  PROVE  Arrived' /\ InOrder' /\ Continues'
<1>1. Len(Words) \in Nat /\ \A k \in 0 .. Len(Words) : Number(k) \in Nat
  BY WordsType DEF IInv
<1>2. \A w \in Writers : Sent[w] \in Nat /\ Sent'[w] \in Nat
  <2>1. \A w \in Writers : Sent[w] \in Nat BY WordsType DEF IInv
  <2>2. (TypeOK => \A w \in Writers : Sent[w] \in Nat)' BY WordsType, PTL
  <2> QED BY <2>1, <2>2 DEF IInv
<1>3. Arrived'
  <2> SUFFICES ASSUME NEW w \in Writers, NEW i \in 1 .. Sent'[w]
               PROVE  \E k \in 1 .. Len(Words') : Words'[k] = <<w, i>>
    BY DEF Arrived
  <2>1. Sent'[w] <= Sent[w] OBVIOUS
  <2>2. i \in 1 .. Sent[w] BY <1>2, <2>1
  <2>3. \E k \in 1 .. Len(Words) : Words[k] = <<w, i>> BY <2>2 DEF Arrived
  <2> QED BY <2>3
<1>4. InOrder' BY DEF InOrder, Precedes, Number
<1>5. Continues'
  <2> SUFFICES ASSUME NEW w \in Writers, NEW j \in 0 .. Len(Words'), IsLast(w, j)'
               PROVE  /\ Number(j)' >= Sent'[w]
                      /\ ~ failed'[w] \/ (pc'[w] # "idle" /\ total'[w] > 0) =>
                           Number(j)' = Sent'[w]
    BY DEF Continues
  <2>1. IsLast(w, j) /\ Number(j)' = Number(j) /\ j \in 0 .. Len(Words)
    BY DEF IsLast, Number
  <2>2. /\ Number(j) >= Sent[w]
        /\ ~ failed[w] \/ (pc[w] # "idle" /\ total[w] > 0) => Number(j) = Sent[w]
    BY <2>1 DEF Continues
  <2> QED BY <1>1, <1>2, <2>1, <2>2
<1> QED BY <1>3, <1>4, <1>5

\* Words that continue those of their writer, and are counted, keep everything in
\* its place.
LEMMA Appended ==
  ASSUME IInv, Arrived, InOrder, Continues, NEW w \in Writers, NEW n \in Nat \ {0},
         Len(Words') = Len(Words) + n,
         \A k \in 1 .. Len(Words) : Words'[k] = Words[k],
         \A i \in 1 .. n : Words'[Len(Words) + i] = <<w, Sent[w] + i>>,
         Sent'[w] = Sent[w] + n, \A v \in Writers \ {w} : Sent'[v] = Sent[v],
         failed' = failed,
         \A v \in Writers \ {w} : pc'[v] = pc[v] /\ total'[v] = total[v]
  PROVE  Arrived' /\ InOrder' /\ Continues'
<1> DEFINE L == Len(Words)
<1>1. L \in Nat /\ \A k \in 0 .. L : Number(k) \in Nat
  BY WordsType DEF IInv
<1>2. \A v \in Writers : Sent[v] \in Nat BY WordsType DEF IInv
<1>3. \A k \in 1 .. L : Words'[k] = Words[k]
  BY <1>1
<1>4. \A i \in 1 .. n : Words'[L + i][1] = w /\ Words'[L + i][2] = Sent[w] + i
  BY <1>1
<1>5. Arrived'
  <2> SUFFICES ASSUME NEW v \in Writers, NEW i \in 1 .. Sent'[v]
               PROVE  \E k \in 1 .. Len(Words') : Words'[k] = <<v, i>>
    BY DEF Arrived
  <2>1. CASE i \in 1 .. Sent[v]
    <3>1. PICK k \in 1 .. L : Words[k] = <<v, i>> BY <2>1 DEF Arrived
    <3>2. k \in 1 .. Len(Words') BY <1>1, <3>1
    <3>3. Words'[k] = <<v, i>> BY <3>1
    <3> QED BY <3>2, <3>3
  <2>2. CASE i \notin 1 .. Sent[v]
    <3>1. v = w /\ i - Sent[w] \in 1 .. n BY <1>2, <2>2
    <3>2. Words'[L + (i - Sent[w])] = <<v, i>>
      <4>1. Words'[L + (i - Sent[w])] = <<w, Sent[w] + (i - Sent[w])>> BY <3>1
      <4>2. Sent[w] + (i - Sent[w]) = i BY <1>2
      <4> QED BY <3>1, <4>1, <4>2
    <3>3. L + (i - Sent[w]) \in 1 .. Len(Words') BY <1>1, <3>1
    <3> QED BY <3>2, <3>3
  <2> QED BY <2>1, <2>2
<1>6. InOrder'
  <2> SUFFICES ASSUME NEW v \in Writers, NEW j \in 0 .. Len(Words'), NEW k \in 1 .. Len(Words'),
                      Precedes(v, j, k)'
               PROVE  /\ Number(k)' <= Number(j)' + 1
                      /\ ~ failed'[v] => Number(k)' = Number(j)' + 1
    BY DEF InOrder
  <2>0. /\ j < k /\ (j = 0 \/ Words'[j][1] = v) /\ Words'[k][1] = v
        /\ \A i \in j + 1 .. k - 1 : Words'[i][1] # v
    BY DEF Precedes
  <2>1. CASE k <= L
    <3>1. j \in 0 .. L /\ k \in 1 .. L /\ Precedes(v, j, k)
      <4>1. j \in 0 .. L /\ k \in 1 .. L BY <1>1, <2>0, <2>1
      <4>2. Words'[k] = Words[k] /\ (j # 0 => Words'[j] = Words[j]) BY <1>3, <4>1
      <4>3. ASSUME NEW i \in j + 1 .. k - 1 PROVE Words[i][1] # v
        <5>1. i \in 1 .. L BY <1>1, <4>1
        <5>2. Words'[i] = Words[i] BY <1>3, <5>1
        <5> QED BY <2>0, <5>2
      <4> QED BY <2>0, <4>1, <4>2, <4>3 DEF Precedes
    <3>2. Number(j)' = Number(j) /\ Number(k)' = Number(k) BY <1>1, <1>3, <3>1 DEF Number
    <3> QED BY <3>1, <3>2 DEF InOrder
  <2>2. CASE k = L + 1
    <3>1. v = w /\ j \in 0 .. L /\ Words'[k][2] = Sent[w] + 1 BY <1>1, <1>4, <2>0, <2>2
    <3>2. IsLast(w, j) BY <1>1, <2>0, <2>2, <3>1 DEF IsLast
    <3>3. Number(j) >= Sent[w] /\ (~ failed[w] => Number(j) = Sent[w])
      BY <1>3, <3>1, <3>2 DEF Continues
    <3>4. Number(j)' = Number(j) BY <1>1, <1>3, <3>1 DEF Number
    <3>5. Number(k)' = Sent[w] + 1 BY <1>1, <2>2, <3>1 DEF Number
    <3> QED BY <1>1, <1>2, <3>1, <3>3, <3>4, <3>5
  <2>3. CASE k > L + 1
    <3>1. PICK i \in 2 .. n : k = L + i
      <4>1. k - L \in 2 .. n /\ k = L + (k - L) BY <1>1, <2>3
      <4>2. PICK i \in Int : i = k - L BY <4>1
      <4> QED BY <4>1, <4>2
    <3>2. v = w /\ Words'[k - 1][1] = w
      <4>1. v = w
        <5>1. i \in 1 .. n BY <3>1
        <5> QED BY <1>4, <2>0, <3>1, <5>1
      <4>2. i - 1 \in 1 .. n /\ k - 1 = L + (i - 1) BY <1>1, <3>1
      <4> QED BY <1>4, <4>1, <4>2
    <3>3. j = k - 1 BY <1>1, <2>0, <2>3, <3>2
    <3>4. Number(k)' = Sent[w] + i /\ Number(j)' = Sent[w] + (i - 1)
      <4>1. i - 1 \in 1 .. n /\ j = L + (i - 1) BY <1>1, <3>1, <3>3
      <4>2. Words'[k][2] = Sent[w] + i BY <1>4, <3>1
      <4>3. Words'[j][2] = Sent[w] + (i - 1) BY <1>4, <4>1
      <4> QED BY <1>1, <3>1, <4>1, <4>2, <4>3 DEF Number
    <3>5. Sent[w] \in Nat /\ i \in Nat BY <1>2
    <3>6. Sent[w] + i = Sent[w] + (i - 1) + 1
      <4>1. PICK m \in Nat : m = Sent[w] BY <3>5
      <4>2. m + i = m + (i - 1) + 1 BY <3>5
      <4> QED BY <4>1, <4>2
    <3>7. Number(k)' = Number(j)' + 1 BY <3>4, <3>6
    <3>8. Number(k)' <= Number(j)' + 1 BY <3>4, <3>5
    <3> QED BY <3>7, <3>8
  <2> QED BY <1>1, <2>1, <2>2, <2>3
<1>7. Continues'
  <2> SUFFICES ASSUME NEW v \in Writers, NEW j \in 0 .. Len(Words'), IsLast(v, j)'
               PROVE  /\ Number(j)' >= Sent'[v]
                      /\ ~ failed'[v] \/ (pc'[v] # "idle" /\ total'[v] > 0) =>
                           Number(j)' = Sent'[v]
    BY DEF Continues
  <2>0. /\ j = 0 \/ Words'[j][1] = v
        /\ \A i \in j + 1 .. Len(Words') : Words'[i][1] # v
    BY DEF IsLast
  <2>1. CASE v = w
    <3>1. j = L + n BY <1>1, <1>4, <2>0, <2>1
    <3>2. Number(j)' = Sent[w] + n BY <1>1, <1>4, <3>1 DEF Number
    <3> QED BY <1>2, <2>1, <3>2
  <2>2. CASE v # w
    <3>1. j \in 0 .. L
      <4>1. ASSUME j > L PROVE FALSE
        <5>1. j - L \in 1 .. n /\ j = L + (j - L) BY <1>1, <4>1
        <5>2. Words'[j][1] = w BY <1>4, <5>1
        <5>3. j # 0 BY <1>1, <4>1
        <5> QED BY <2>0, <2>2, <5>2, <5>3
      <4> QED BY <1>1, <4>1
    <3>2. IsLast(v, j) BY <1>1, <2>0, <3>1 DEF IsLast
    <3>3. /\ Number(j) >= Sent[v]
          /\ ~ failed[v] \/ (pc[v] # "idle" /\ total[v] > 0) => Number(j) = Sent[v]
      BY <3>1, <3>2 DEF Continues
    <3>4. Number(j)' = Number(j) BY <1>1, <1>3, <3>1 DEF Number
    <3>5. Sent'[v] = Sent[v] /\ pc'[v] = pc[v] /\ total'[v] = total[v] BY <2>2
    <3> QED BY <3>3, <3>4, <3>5
  <2> QED BY <2>1, <2>2
<1> QED BY <1>5, <1>6, <1>7

LEMMA InitAInv == Init => AInv
<1> SUFFICES ASSUME Init PROVE AInv
  OBVIOUS
<1>1. Words = <<>> /\ Len(Words) = 0 BY DEF Init, Words
<1>2. \A w \in Writers : pc[w] = "idle" /\ Sent[w] = 0 BY DEF Init, Sent
<1>3. Within BY <1>2 DEF Within
<1>4. Arrived BY <1>2 DEF Arrived
<1>5. InOrder BY <1>1 DEF InOrder
<1>6. Continues
  <2>1. \A j \in 0 .. Len(Words) : Number(j) = 0 BY <1>1 DEF Number
  <2> QED BY <1>2, <2>1 DEF Continues
<1> QED BY <1>3, <1>4, <1>5, <1>6 DEF AInv

\* A step of w that neither writes a word nor ends the call.
LEMMA StaysAInv ==
  ASSUME IInv, AInv, IInv', Words' = Words, UNCHANGED <<call, total, next, failed>>,
         NEW w \in Writers, pc[w] # "idle", pc[w] # "file",
         NEW label \in Labels \ {"idle", "file"}, Goto(w, label)
  PROVE  AInv'
<1>1. \A v \in Writers : /\ pc'[v] = "idle" <=> pc[v] = "idle"
                         /\ pc'[v] = "file" <=> pc[v] = "file"
  BY DEF IInv, TypeOK, Goto
<1>2. Sent' = Sent BY <1>1 DEF Sent
<1>3. Within' BY <1>1 DEF AInv, Within, call
<1>4. \A v \in Writers : Sent[v] \in Nat BY WordsType DEF IInv
<1>5. Arrived' /\ InOrder' /\ Continues' BY <1>1, <1>2, <1>4, Kept DEF AInv
<1> QED BY <1>3, <1>5 DEF AInv

\* A call of w that returns what it has written.
LEMMA ReturnAInv ==
  ASSUME IInv, AInv, IInv', Words' = Words, UNCHANGED <<call, total>>,
         NEW w \in Writers, pc[w] # "idle", Return(w, total[w])
  PROVE  AInv'
<1>1. /\ pc'[w] = "idle" /\ \A v \in Writers \ {w} : pc'[v] = pc[v] /\ next'[v] = next[v]
      /\ next'[w] = next[w] + total[w] /\ failed' = failed
  BY DEF IInv, TypeOK, Return, Goto
<1>2. \A v \in Writers : Sent'[v] = Sent[v]
  <2>1. next[w] \in Nat /\ total[w] \in Nat BY MboxAssumption DEF IInv, TypeOK
  <2> QED BY <1>1, <2>1 DEF Sent
<1>3. Within' BY <1>1 DEF AInv, Within, call
<1>4. \A v \in Writers : Sent[v] \in Nat BY WordsType DEF IInv
<1>5. \A v \in Writers : pc'[v] # "idle" /\ total'[v] > 0 => pc[v] # "idle" /\ total[v] > 0
  BY <1>1
<1>6. Arrived' /\ InOrder' /\ Continues' BY <1>1, <1>2, <1>4, <1>5, Kept DEF AInv
<1> QED BY <1>3, <1>6 DEF AInv

\* A call of w that fails: w takes none of its words for written.
LEMMA FailAInv ==
  ASSUME IInv, AInv, IInv', Words' = Words, UNCHANGED <<call, total>>,
         NEW w \in Writers, pc[w] # "idle", Fail(w)
  PROVE  AInv'
<1>1. /\ pc'[w] = "idle" /\ \A v \in Writers \ {w} : pc'[v] = pc[v] /\ failed'[v] = failed[v]
      /\ next' = next /\ failed'[w]
  BY DEF IInv, TypeOK, Fail, Goto
<1>2. \A v \in Writers \ {w} : Sent'[v] = Sent[v] BY <1>1 DEF Sent
<1>3. next[w] \in Nat /\ total[w] \in Nat BY MboxAssumption DEF IInv, TypeOK
<1>4. Sent'[w] = next[w] /\ Sent[w] = next[w] + total[w] BY <1>1, <1>3 DEF Sent
<1>5. \A v \in Writers : Sent[v] \in Nat BY WordsType DEF IInv
<1>6. \A v \in Writers : Sent'[v] <= Sent[v] BY <1>2, <1>3, <1>4, <1>5
<1>7. Within' BY <1>1 DEF AInv, Within, call
<1>8. Arrived' /\ InOrder' /\ Continues' BY <1>1, <1>2, <1>6, Kept DEF AInv
<1> QED BY <1>7, <1>8 DEF AInv

LEMMA WriteAInv ==
  ASSUME IInv, AInv, IInv', NEW w \in Writers, NEW flag \in Flags, NEW n \in 1 .. MaxCount,
         Write(w, flag, n)
  PROVE  AInv'
<1>1. /\ \A v \in Writers \ {w} : /\ pc'[v] = pc[v] /\ total'[v] = total[v]
                                  /\ count'[v] = count[v]
                                  /\ behavior_flag'[v] = behavior_flag[v]
      /\ pc[w] = "idle" /\ pc'[w] # "idle" /\ total'[w] = 0 /\ count'[w] = n
      /\ next' = next /\ failed' = failed
  BY DEF IInv, TypeOK, Write, Goto
<1>2. \A v \in Writers : Sent[v] \in Nat /\ next[v] \in Nat
  BY WordsType DEF IInv, TypeOK
<1>3. \A v \in Writers : Sent'[v] = Sent[v] BY <1>1, <1>2 DEF Sent
<1>4. Words' = Words BY DEF Write, Words
<1>5. Within' BY <1>1 DEF AInv, Within
<1>6. Arrived' /\ InOrder' /\ Continues' BY <1>1, <1>2, <1>3, <1>4, Kept DEF AInv
<1> QED BY <1>5, <1>6 DEF AInv

LEMMA PutWordAInv ==
  ASSUME IInv, AInv, IInv', NEW w \in Writers, PutWord(w)
  PROVE  AInv'
<1>1. wbox' = Append(wbox, Word(w, 1)) /\ taken' = taken
  BY PutWordAppends DEF PutWord
<1>2. /\ pc[w] = "put" /\ pc'[w] \in {"space", "put"} /\ total'[w] = total[w] + 1
      /\ \A v \in Writers \ {w} : pc'[v] = pc[v] /\ total'[v] = total[v]
      /\ UNCHANGED <<next, failed, call>>
  BY DEF IInv, TypeOK, PutWord, Goto
<1>3. next[w] \in Nat /\ total[w] \in Nat /\ count[w] \in Nat /\ space[w] \in Nat
  BY MboxAssumption DEF IInv, TypeOK
<1>4. Sent[w] = next[w] + total[w] /\ Sent'[w] = Sent[w] + 1
  BY <1>2, <1>3 DEF Sent
<1>5. \A v \in Writers \ {w} : Sent'[v] = Sent[v] BY <1>2 DEF Sent
<1>6. Within'
  <2>1. total'[w] <= count'[w]
    <3>1. space[w] >= 1 /\ total[w] + space[w] <= count[w] BY <1>2 DEF IInv, Counted
    <3> QED BY <1>2, <1>3, <3>1 DEF call
  <2> QED BY <1>2, <2>1 DEF AInv, Within, call
<1>7. /\ Len(Words') = Len(Words) + 1
      /\ \A k \in 1 .. Len(Words) : Words'[k] = Words[k]
      /\ Words'[Len(Words) + 1] = <<w, Sent[w] + 1>>
  <2>1. Word(w, 1) \in Writers \X Nat /\ Word(w, 1) = <<w, Sent[w] + 1>>
    BY <1>3, <1>4 DEF Word
  <2>2. taken \in Seq(Writers \X Nat) /\ wbox \in Seq(Writers \X Nat) BY DEF IInv, TypeOK
  <2>3. Words' = Append(Words, Word(w, 1)) BY <1>1, <2>1, <2>2 DEF Words
  <2>4. Words \in Seq(Writers \X Nat) BY WordsType DEF IInv
  <2> QED BY <2>1, <2>3, <2>4
<1>8. PICK one \in Nat \ {0} : one = 1 OBVIOUS
<1>9. Arrived' /\ InOrder' /\ Continues'
  <2>1. \A i \in 1 .. one : Words'[Len(Words) + i] = <<w, Sent[w] + i>> BY <1>7, <1>8
  <2>2. Len(Words') = Len(Words) + one /\ Sent'[w] = Sent[w] + one BY <1>4, <1>7, <1>8
  <2> QED BY <1>2, <1>5, <1>7, <2>1, <2>2, Appended DEF AInv
<1> QED BY <1>6, <1>9 DEF AInv

\* A write to the file appends the words that follow those w has written.
LEMMA FileWriteWords ==
  ASSUME IInv, NEW w \in Writers, FileWrite(w), NEW n \in Nat,
         n = Smaller(Depth - Len(wbox), count[w] - total[w])
  PROVE  /\ n > 0 /\ total[w] + n <= count[w]
         /\ Len(Words') = Len(Words) + n
         /\ \A k \in 1 .. Len(Words) : Words'[k] = Words[k]
         /\ \A i \in 1 .. n : Words'[Len(Words) + i] = <<w, next[w] + total[w] + i>>
<1> USE MboxAssumption
<1> DEFINE words == [i \in 1 .. n |-> Word(w, i)]
<1>1. /\ wbox \in Seq(Writers \X Nat) /\ Len(wbox) \in Nat
      /\ taken \in Seq(Writers \X Nat) /\ Len(taken) \in Nat
  BY DEF IInv, TypeOK
<1>2. total[w] \in Nat /\ count[w] \in Nat /\ next[w] \in Nat BY DEF IInv, TypeOK
<1>3. n > 0 /\ total[w] + n <= count[w]
  BY <1>1, <1>2 DEF FileWrite, Smaller
<1>4. \A i \in 1 .. n : Word(w, i) \in Writers \X Nat BY WordType DEF IInv
<1>5. wbox' = wbox \o words /\ taken' = taken BY DEF FileWrite
<1>6. words \in Seq(Writers \X Nat) /\ Len(words) = n BY <1>4
<1>7. \A i \in 1 .. n : words[i] = <<w, next[w] + total[w] + i>> BY DEF Word
<1> HIDE DEF words
<1>8. Words' = Words \o words
  <2>1. taken \o (wbox \o words) = (taken \o wbox) \o words BY <1>1, <1>6
  <2> QED BY <1>5, <2>1 DEF Words
<1>9. Words \in Seq(Writers \X Nat) /\ Len(Words) \in Nat BY WordsType DEF IInv
<1>10. Len(Words') = Len(Words) + n /\ \A k \in 1 .. Len(Words) : Words'[k] = Words[k]
  <2>1. Len(Words') = Len(Words) + n BY <1>6, <1>8, <1>9, ConcatProperties
  <2>2. \A k \in 1 .. Len(Words) : Words'[k] = Words[k] BY <1>6, <1>8, <1>9
  <2> QED BY <2>1, <2>2
<1>11. ASSUME NEW i \in 1 .. n PROVE Words'[Len(Words) + i] = <<w, next[w] + total[w] + i>>
  <2>1. Words'[Len(Words) + i] = words[i] BY <1>6, <1>8, <1>9, ConcatProperties
  <2> QED BY <1>7, <2>1
<1> QED BY <1>3, <1>10, <1>11

LEMMA FileWriteAInv ==
  ASSUME IInv, AInv, IInv', NEW w \in Writers, FileWrite(w)
  PROVE  AInv'
<1>1. total[w] \in Nat /\ count[w] \in Nat /\ next[w] \in Nat /\ Len(wbox) \in Nat
  BY MboxAssumption DEF IInv, TypeOK
<1>2. PICK n \in Nat : n = Smaller(Depth - Len(wbox), count[w] - total[w])
  <2>1. Smaller(Depth - Len(wbox), count[w] - total[w]) \in Nat
    BY <1>1, MboxAssumption DEF FileWrite, Smaller
  <2> QED BY <2>1
<1>3. /\ n > 0 /\ total[w] + n <= count[w]
      /\ Len(Words') = Len(Words) + n
      /\ \A k \in 1 .. Len(Words) : Words'[k] = Words[k]
      /\ \A i \in 1 .. n : Words'[Len(Words) + i] = <<w, next[w] + total[w] + i>>
  BY <1>2, FileWriteWords
<1>4. /\ pc[w] = "file" /\ total'[w] = total[w] + n
      /\ \A v \in Writers \ {w} : /\ pc'[v] = pc[v] /\ total'[v] = total[v]
                                  /\ next'[v] = next[v]
      /\ UNCHANGED <<failed, call>>
  BY <1>2 DEF IInv, TypeOK, FileWrite, Return, Goto
<1>5. \/ pc'[w] = "file" /\ behavior_flag[w] = "ALL_BLOCKING" /\ next'[w] = next[w]
      \/ pc'[w] = "idle" /\ next'[w] = next[w] + (total[w] + n)
  BY <1>2 DEF IInv, TypeOK, FileWrite, Return, Goto
<1>6. Sent[w] = next[w] + total[w] /\ Sent'[w] = Sent[w] + n
  BY <1>1, <1>4, <1>5 DEF Sent
<1>7. \A v \in Writers \ {w} : Sent'[v] = Sent[v] BY <1>4 DEF Sent
<1>8. Within' BY <1>3, <1>4, <1>5 DEF AInv, Within, call
<1>9. \A i \in 1 .. n : Words'[Len(Words) + i] = <<w, Sent[w] + i>> BY <1>3, <1>6
<1>10. n \in Nat \ {0} BY <1>3
<1>11. Arrived' /\ InOrder' /\ Continues'
  BY <1>3, <1>4, <1>6, <1>7, <1>9, <1>10, Appended DEF AInv
<1> QED BY <1>8, <1>11 DEF AInv

LEMMA ReadAInv ==
  ASSUME IInv, AInv, IInv', Read
  PROVE  AInv'
<1>1. Words' = Words
  <2>1. wbox \in Seq(Writers \X Nat) /\ wbox # <<>> /\ taken \in Seq(Writers \X Nat)
    BY DEF IInv, TypeOK, Read
  <2>2. wbox = <<Head(wbox)>> \o Tail(wbox) /\ Head(wbox) \in Writers \X Nat
        /\ Tail(wbox) \in Seq(Writers \X Nat)
    BY <2>1
  <2>3. taken' = taken \o <<Head(wbox)>> BY <2>1, <2>2 DEF Read
  <2>4. (taken \o <<Head(wbox)>>) \o Tail(wbox) = taken \o (<<Head(wbox)>> \o Tail(wbox))
    BY <2>1, <2>2
  <2> QED BY <2>2, <2>3, <2>4 DEF Read, Words
<1>2. UNCHANGED <<pc, call, total, next, failed>> BY DEF Read
<1>3. Sent' = Sent BY <1>2 DEF Sent
<1>4. \A v \in Writers : Sent[v] \in Nat BY WordsType DEF IInv
<1>5. Within' BY <1>2 DEF AInv, Within, call
<1>6. Arrived' /\ InOrder' /\ Continues' BY <1>1, <1>2, <1>3, <1>4, Kept DEF AInv
<1> QED BY <1>5, <1>6 DEF AInv

\* Each step keeps what is in the mailbox in the order of the calls.
LEMMA NextAInv == IInv /\ AInv /\ IInv' /\ [Next]_vars => AInv'
<1> SUFFICES ASSUME IInv, AInv, IInv', [Next]_vars PROVE AInv'
  OBVIOUS
<1>1. ASSUME NEW w \in Writers, NEW flag \in Flags, NEW n \in 1 .. MaxCount, Write(w, flag, n)
      PROVE  AInv'
  BY <1>1, WriteAInv
<1>2. ASSUME NEW w \in Writers, Step(w) PROVE AInv'
  <2>1. ASSUME Lock(w) PROVE AInv'
    <3>1. pc[w] = "lock" /\ Goto(w, "space") /\ UNCHANGED <<wbox, taken, call, total, next, failed>>
      BY <2>1 DEF Lock
    <3>2. Words' = Words BY <3>1 DEF Words
    <3> QED BY <3>1, <3>2, StaysAInv DEF Labels
  <2>2. ASSUME Space(w) PROVE AInv'
    <3>1. /\ pc[w] = "space" /\ UNCHANGED <<wbox, taken, call, total, next, failed>>
          /\ Goto(w, "unlock") \/ Goto(w, "put")
      BY <2>2 DEF Space
    <3>2. Words' = Words BY <3>1 DEF Words
    <3> QED BY <3>1, <3>2, StaysAInv DEF Labels
  <2>3. PutWord(w) => AInv' BY PutWordAInv
  <2>4. ASSUME Unlock(w) PROVE AInv'
    <3>1. /\ pc[w] = "unlock" /\ UNCHANGED <<wbox, taken, call, total>>
          /\ (Goto(w, "open") /\ UNCHANGED <<next, failed>>) \/ Return(w, total[w])
      BY <2>4 DEF Unlock
    <3>2. Words' = Words BY <3>1 DEF Words
    <3>3. CASE Return(w, total[w]) BY <3>1, <3>2, <3>3, ReturnAInv
    <3>4. CASE Goto(w, "open") /\ UNCHANGED <<next, failed>>
      BY <3>1, <3>2, <3>4, StaysAInv DEF Labels
    <3> QED BY <3>1, <3>3, <3>4
  <2>5. ASSUME Poll(w) PROVE AInv'
    <3>1. /\ pc[w] = "poll" /\ UNCHANGED <<wbox, taken, call, total>>
          /\ (Goto(w, "lock") /\ UNCHANGED <<next, failed>>) \/ Fail(w)
      BY <2>5 DEF Poll
    <3>2. Words' = Words BY <3>1 DEF Words
    <3>3. CASE Fail(w) BY <3>1, <3>2, <3>3, FailAInv
    <3>4. CASE Goto(w, "lock") /\ UNCHANGED <<next, failed>>
      BY <3>1, <3>2, <3>4, StaysAInv DEF Labels
    <3> QED BY <3>1, <3>3, <3>4
  <2>6. FileWrite(w) => AInv' BY FileWriteAInv
  <2>7. ASSUME FileAgain(w) PROVE AInv'
    <3>1. /\ pc[w] = "file" /\ UNCHANGED <<wbox, taken, call, total>> /\ Return(w, 0)
          /\ behavior_flag[w] = "ANY_NONBLOCKING"
      BY <2>7 DEF FileAgain
    <3>2. Words' = Words BY <3>1 DEF Words
    <3>3. total[w] = 0 BY <3>1 DEF AInv, Within
    <3> QED BY <3>1, <3>2, <3>3, ReturnAInv
  <2>8. ASSUME FileFails(w) PROVE AInv'
    <3>1. pc[w] = "file" /\ UNCHANGED <<wbox, taken, call, total>> /\ Fail(w)
      BY <2>8 DEF FileFails
    <3>2. Words' = Words BY <3>1 DEF Words
    <3> QED BY <3>1, <3>2, FailAInv
  <2>9. ASSUME PollOpen(w) PROVE AInv'
    <3>1. /\ pc[w] = "open" /\ UNCHANGED <<wbox, taken, call, total, next, failed>>
          /\ Goto(w, "poll") \/ Goto(w, "deaf")
      BY <2>9 DEF PollOpen
    <3>2. Words' = Words BY <3>1 DEF Words
    <3> QED BY <3>1, <3>2, StaysAInv DEF Labels
  <2>10. ASSUME PollInterrupted(w) PROVE AInv'
    <3>1. pc[w] = "deaf" /\ UNCHANGED <<wbox, taken, call, total>> /\ Fail(w)
      BY <2>10 DEF PollInterrupted
    <3>2. Words' = Words BY <3>1 DEF Words
    <3> QED BY <3>1, <3>2, FailAInv
  <2> QED BY <1>2, <2>1, <2>2, <2>3, <2>4, <2>5, <2>6, <2>7, <2>8, <2>9, <2>10 DEF Step
<1>3. Read => AInv' BY ReadAInv
<1>4. ASSUME UNCHANGED vars PROVE AInv'
  <2>1. UNCHANGED <<pc, call, total, next, failed>> /\ Words' = Words
    BY <1>4 DEF vars, Words
  <2>2. Sent' = Sent BY <2>1 DEF Sent
  <2>3. \A v \in Writers : Sent[v] \in Nat BY WordsType DEF IInv
  <2>4. Within' BY <2>1 DEF AInv, Within, call
  <2>5. Arrived' /\ InOrder' /\ Continues' BY <2>1, <2>2, <2>3, Kept DEF AInv
  <2> QED BY <2>4, <2>5 DEF AInv
<1> QED BY <1>1, <1>2, <1>3, <1>4 DEF Next

LEMMA AInvariance == Spec => [](IInv /\ AInv)
<1>1. Init => IInv /\ AInv BY InitIInv, InitAInv
<1>2. IInv /\ AInv /\ [Next]_vars => (IInv /\ AInv)' BY NextIInv, NextAInv
<1> QED BY <1>1, <1>2, PTL DEF Spec

\* The words of each writer arrive in order, none is skipped, each that was
\* reported as written arrives, and only once unless a call of the writer failed,
\* for any number of writers, depth of the mailbox and length of a call.
THEOREM WordsArriveHolds == Spec => []WordsArrive
<1>1. IInv /\ AInv => WordsArrive
  <2> SUFFICES ASSUME IInv, AInv, NEW w \in Writers
               PROVE  \A i \in 1 .. next[w] : \E k \in 1 .. Len(Words) : Words[k] = <<w, i>>
    BY DEF WordsArrive, AInv, InOrder
  <2>1. next[w] \in Nat /\ total[w] \in Nat BY MboxAssumption DEF IInv, TypeOK
  <2>2. next[w] <= Sent[w] /\ Sent[w] \in Nat BY <2>1 DEF Sent
  <2>3. \A i \in 1 .. next[w] : i \in 1 .. Sent[w] BY <2>1, <2>2
  <2> QED BY <2>3 DEF AInv, Arrived
<1> QED BY <1>1, AInvariance, PTL

\* A call that returns has written what its way of writing promises, and reports
\* that number: all words if it blocks for all, at least one if it blocks for any.
THEOREM BlockingWritesHolds == Spec => BlockingWrites
<1> DEFINE Promised ==
      \A w \in Writers :
        pc[w] # "idle" /\ pc'[w] = "idle" /\ ~ failed'[w] =>
          LET n == next'[w] - next[w] IN
          /\ behavior_flag[w] = "ALL_BLOCKING" => n = count[w]
          /\ behavior_flag[w] = "ANY_BLOCKING" => n \in 1 .. count[w]
          /\ n = total'[w]
<1>1. IInv /\ AInv /\ [Next]_vars => [Promised]_vars
  <2> SUFFICES ASSUME IInv, AInv, Next,
                      NEW w \in Writers, pc[w] # "idle", pc'[w] = "idle", ~ failed'[w]
               PROVE  /\ behavior_flag[w] = "ALL_BLOCKING" => next'[w] - next[w] = count[w]
                      /\ behavior_flag[w] = "ANY_BLOCKING" => next'[w] - next[w] \in 1 .. count[w]
                      /\ next'[w] - next[w] = total'[w]
    OBVIOUS
  <2>1. next[w] \in Nat /\ total[w] \in Nat /\ count[w] \in Nat /\ Len(wbox) \in Nat
    BY MboxAssumption DEF IInv, TypeOK
  <2>2. total[w] <= count[w] /\ (pc[w] = "file" /\ behavior_flag[w] # "ALL_BLOCKING" => total[w] = 0)
    BY DEF AInv, Within
  <2>3. Unlock(w) \/ FileWrite(w) \/ FileAgain(w)
    <3>1. ~ Read BY DEF Read
    <3>2. PICK v \in Writers :
            (\E flag \in Flags, n \in 1 .. MaxCount : Write(v, flag, n)) \/ Step(v)
      BY <3>1 DEF Next
    <3>3. ASSUME v # w PROVE FALSE
      BY <3>2, <3>3 DEF IInv, TypeOK, Write, Step, Lock, Space, PutWord, Unlock, PollOpen, Poll,
         PollInterrupted, FileWrite, FileAgain, FileFails, Return, Fail, Goto
    <3>4. \A flag \in Flags, n \in 1 .. MaxCount : ~ Write(w, flag, n)
      BY DEF Write
    <3>5. ~ Lock(w) /\ ~ Space(w) /\ ~ PutWord(w) /\ ~ PollOpen(w)
      BY DEF IInv, TypeOK, Lock, Space, PutWord, PollOpen, Goto
    <3>6. ~ Fail(w) BY DEF IInv, TypeOK, Fail
    <3>7. ~ Poll(w) /\ ~ PollInterrupted(w) /\ ~ FileFails(w)
      BY <3>6 DEF IInv, TypeOK, Poll, PollInterrupted, FileFails, Goto
    <3> QED BY <3>2, <3>3, <3>4, <3>5, <3>7 DEF Step
  <2>4. CASE Unlock(w)
    <3>1. ~ Blocks(w) /\ next'[w] = next[w] + total[w] /\ total' = total
      BY <2>4 DEF IInv, TypeOK, Unlock, Return, Goto
    <3>2. next'[w] - next[w] = total[w] BY <2>1, <3>1
    <3>3. behavior_flag[w] = "ALL_BLOCKING" => total[w] = count[w]
      BY <2>1, <2>2, <3>1 DEF Blocks
    <3>4. behavior_flag[w] = "ANY_BLOCKING" => total[w] \in 1 .. count[w]
      BY <2>1, <2>2, <3>1 DEF Blocks
    <3> QED BY <3>1, <3>2, <3>3, <3>4
  <2>5. CASE FileWrite(w)
    <3>1. PICK n \in Nat : n = Smaller(Depth - Len(wbox), count[w] - total[w])
      <4>1. Smaller(Depth - Len(wbox), count[w] - total[w]) \in Nat
        BY <2>1, <2>5, MboxAssumption DEF FileWrite, Smaller
      <4> QED BY <4>1
    <3>2. n > 0 /\ total[w] + n <= count[w] BY <2>5, <3>1, FileWriteWords
    <3>3. /\ next'[w] = next[w] + (total[w] + n) /\ total'[w] = total[w] + n
          /\ ~ (behavior_flag[w] = "ALL_BLOCKING" /\ total[w] + n < count[w])
      BY <2>5, <3>1 DEF IInv, TypeOK, FileWrite, Return
    <3>4. next'[w] - next[w] = total[w] + n BY <2>1, <3>3
    <3>5. behavior_flag[w] = "ALL_BLOCKING" => total[w] + n = count[w] BY <2>1, <3>2, <3>3
    <3>6. total[w] + n \in 1 .. count[w] BY <2>1, <3>2
    <3> QED BY <3>3, <3>4, <3>5, <3>6
  <2>6. CASE FileAgain(w)
    <3>1. /\ next'[w] = next[w] + 0 /\ total' = total /\ pc[w] = "file"
          /\ behavior_flag[w] = "ANY_NONBLOCKING"
      BY <2>6 DEF IInv, TypeOK, FileAgain, Return
    <3> QED BY <2>1, <2>2, <3>1
  <2> QED BY <2>3, <2>4, <2>5, <2>6
<1> QED BY <1>1, AInvariance, PTL DEF Spec, BlockingWrites

-----------------------------------------------------------------------------
(* The outbound mailboxes *)

\* The values of rpc, and where the lock of FD_MBOX is held.
OutLabels == {"idle", "lock", "entries", "get", "unlock", "file", "more"}
OutCritical == {"entries", "get", "unlock"}

\* The call of a reader goes over the mapped register, or through the file.
Register(r) == rpc[r] \in {"lock"} \cup OutCritical
File(r) == rpc[r] \in {"file", "more"}

\* A reader between lock and unlock is the holder.
OutExclusion == \A r \in Readers : rpc[r] \in OutCritical => olock = r

\* Which way a reader takes, and that only the interrupting mailbox blocks.
Ways ==
  \A r \in Readers :
    /\ Register(r) => psmap /\ ~ intr
    /\ File(r) => ~ (psmap /\ ~ intr)
    /\ ~ intr => rflag[r] = "ANY_NONBLOCKING"

\* The entries a reader has counted are still there, and it wants all of them.
EntriesThere ==
  \A r \in Readers :
    rpc[r] = "get" => /\ entries[r] >= 1 /\ entries[r] <= Len(obox)
                      /\ Len(mbox_data[r]) + entries[r] <= want[r]

\* What a call has stored so far.
Stored ==
  \A r \in Readers :
    /\ rpc[r] = "idle" => mbox_data[r] = <<>>
    /\ rpc[r] # "idle" => Len(mbox_data[r]) <= want[r]
    /\ rpc[r] = "file" /\ rflag[r] # "ALL_BLOCKING" => mbox_data[r] = <<>>
    /\ rpc[r] = "more" => mbox_data[r] # <<>>

\* Words that a status call has shown, and that nobody else has taken, are still
\* there or the reader has them.
KnownThere ==
  \A r \in Readers :
    /\ known[r] <= Len(obox) + Len(mbox_data[r])
    /\ rpc[r] = "unlock" => Enough(r) \/ known[r] <= Len(mbox_data[r])

OutIInv == OutTypeOK /\ OutExclusion /\ Ways /\ EntriesThere /\ Stored /\ KnownThere

\* A load or read of a mailbox that is not empty takes its first word.
LEMMA Taking ==
  ASSUME OutTypeOK, NEW r \in Readers, TakeWord(r), obox # <<>>
  PROVE  /\ obox' = Tail(obox) /\ obox' \in Seq(Nat) /\ Len(obox) \in Nat /\ Len(obox') = Len(obox) - 1
         /\ mbox_data' = [mbox_data EXCEPT ![r] = Append(@, Head(obox))]
         /\ mbox_data' \in [Readers -> Seq(Nat)]
         /\ Head(obox) \in Nat
         /\ mbox_data'[r] # <<>> /\ Len(mbox_data'[r]) = Len(mbox_data[r]) + 1
         /\ \A s \in Readers : Len(mbox_data[s]) \in Nat
         /\ \A s \in Readers \ {r} : mbox_data'[s] = mbox_data[s] /\ known'[s] = 0
         /\ known'[r] = known[r] /\ known' \in [Readers -> 0 .. OutDepth]
<1>1. obox \in Seq(Nat) /\ mbox_data \in [Readers -> Seq(Nat)] BY DEF OutTypeOK
<1>2. Head(obox) \in Nat /\ Tail(obox) \in Seq(Nat) /\ Len(Tail(obox)) = Len(obox) - 1
      /\ Len(obox) \in Nat
  BY <1>1
<1>3. mbox_data[r] \in Seq(Nat) BY <1>1
<1>4. /\ Append(mbox_data[r], Head(obox)) \in Seq(Nat)
      /\ Append(mbox_data[r], Head(obox)) # <<>>
      /\ Len(Append(mbox_data[r], Head(obox))) = Len(mbox_data[r]) + 1
  <2>1. /\ Append(mbox_data[r], Head(obox)) \in Seq(Nat) /\ Len(mbox_data[r]) \in Nat
        /\ Len(Append(mbox_data[r], Head(obox))) = Len(mbox_data[r]) + 1
    BY <1>2, <1>3
  <2>2. Len(<<>>) = 0 OBVIOUS
  <2>3. Append(mbox_data[r], Head(obox)) # <<>>
    <3>1. SUFFICES ASSUME Append(mbox_data[r], Head(obox)) = <<>> PROVE FALSE
      OBVIOUS
    <3>2. Len(Append(mbox_data[r], Head(obox))) = 0 BY <2>2, <3>1
    <3> QED BY <2>1, <3>2
  <2> QED BY <2>1, <2>3
<1>5. obox' = Tail(obox) /\ mbox_data' = [mbox_data EXCEPT ![r] = Append(@, Head(obox))]
  BY DEF TakeWord
<1>6. known' \in [Readers -> 0 .. OutDepth]
  BY OutMboxAssumption DEF OutTypeOK, TakeWord
<1>7. /\ mbox_data' \in [Readers -> Seq(Nat)] /\ mbox_data'[r] = Append(mbox_data[r], Head(obox))
      /\ \A s \in Readers \ {r} : mbox_data'[s] = mbox_data[s]
  BY <1>1, <1>4, <1>5
<1>8. known'[r] = known[r] /\ \A s \in Readers \ {r} : known'[s] = 0
  BY DEF TakeWord
<1>9. \A s \in Readers : Len(mbox_data[s]) \in Nat BY <1>1
<1> QED BY <1>2, <1>4, <1>5, <1>6, <1>7, <1>8, <1>9

\* What the numbers of a call are.
LEMMA OutNumbers ==
  ASSUME OutTypeOK
  PROVE  /\ obox \in Seq(Nat) /\ Len(obox) \in Nat
         /\ \A r \in Readers : /\ mbox_data[r] \in Seq(Nat) /\ Len(mbox_data[r]) \in Nat
                               /\ got[r] \in Seq(Nat)
                               /\ want[r] \in Nat /\ entries[r] \in Nat /\ known[r] \in Nat
BY OutMboxAssumption DEF OutTypeOK

LEMMA InitOutIInv == OutInit => OutIInv
<1> SUFFICES ASSUME OutInit PROVE OutIInv
  OBVIOUS
<1>1. OutTypeOK BY OutMboxAssumption DEF OutInit, OutTypeOK, Behaviors
<1>2. OutExclusion /\ Ways /\ EntriesThere /\ Stored
  BY DEF OutInit, OutExclusion, Ways, EntriesThere, Stored, Register, File, OutCritical
<1>3. KnownThere BY DEF OutInit, KnownThere
<1> QED BY <1>1, <1>2, <1>3 DEF OutIInv

LEMMA OutReadStep ==
  ASSUME OutIInv, NEW r \in Readers, NEW f \in Behaviors, NEW n \in 1 .. OutCount,
         OutRead(r, f, n)
  PROVE  OutIInv'
<1> USE OutMboxAssumption
<1>1. OutTypeOK'
  <2>1. want' \in [Readers -> 0 .. OutCount] BY DEF OutIInv, OutTypeOK, OutRead
  <2>2. rpc' \in [Readers -> OutLabels] BY DEF OutIInv, OutTypeOK, OutRead, OutGoto, OutLabels
  <2> QED BY <2>1, <2>2 DEF OutIInv, OutTypeOK, OutRead, OutLabels
<1>2. OutExclusion' BY DEF OutIInv, OutTypeOK, OutExclusion, OutCritical, OutRead, OutGoto
<1>3. Ways' BY DEF OutIInv, OutTypeOK, Ways, Register, File, OutCritical, OutRead, OutGoto
<1>4. EntriesThere' BY DEF OutIInv, OutTypeOK, EntriesThere, OutRead, OutGoto
<1>5. Stored'
  <2>1. mbox_data[r] = <<>> /\ Len(mbox_data[r]) <= n
    BY DEF OutIInv, Stored, OutRead
  <2> QED BY <2>1 DEF OutIInv, OutTypeOK, Stored, OutRead, OutGoto
<1>6. KnownThere'
  <2>1. \A s \in Readers : rpc'[s] = "unlock" => rpc[s] = "unlock" /\ s # r
    BY DEF OutIInv, OutTypeOK, OutRead, OutGoto
  <2>2. \A s \in Readers \ {r} : want'[s] = want[s]
    BY DEF OutIInv, OutTypeOK, OutRead
  <2> QED BY <2>1, <2>2 DEF OutIInv, KnownThere, Enough, OutRead
<1> QED BY <1>1, <1>2, <1>3, <1>4, <1>5, <1>6 DEF OutIInv

LEMMA OutStatusStep ==
  ASSUME OutIInv, NEW r \in Readers, OutStatus(r)
  PROVE  OutIInv'
<1>1. Len(obox) \in 0 .. OutDepth BY OutNumbers, OutMboxAssumption DEF OutIInv, OutTypeOK
<1>2. OutTypeOK' BY <1>1 DEF OutIInv, OutTypeOK, OutStatus, rcall
<1>3. OutExclusion' BY DEF OutIInv, OutExclusion, OutStatus
<1>4. Ways' BY DEF OutIInv, Ways, Register, File, OutStatus, rcall
<1>5. EntriesThere' BY DEF OutIInv, EntriesThere, OutStatus, rcall
<1>6. Stored' BY DEF OutIInv, Stored, OutStatus, rcall
<1>7. KnownThere'
  <2>1. /\ \A s \in Readers \ {r} : known'[s] = known[s]
        /\ known'[r] = Len(obox) /\ rpc[r] = "idle"
        /\ UNCHANGED <<rpc, obox, mbox_data, want>>
    BY DEF OutIInv, OutTypeOK, OutStatus, rcall
  <2>2. Len(obox) \in Nat /\ Len(mbox_data[r]) \in Nat BY OutNumbers DEF OutIInv
  <2>3. known'[r] <= Len(obox) + Len(mbox_data[r]) BY <2>1, <2>2
  <2> QED BY <2>1, <2>3 DEF OutIInv, KnownThere, Enough
<1> QED BY <1>2, <1>3, <1>4, <1>5, <1>6, <1>7 DEF OutIInv

LEMMA OutLockStep ==
  ASSUME OutIInv, NEW r \in Readers, OutLock(r)
  PROVE  OutIInv'
<1>1. OutTypeOK' BY DEF OutIInv, OutTypeOK, OutLock, OutGoto, rcall
<1>2. OutExclusion'
  BY OutMboxAssumption DEF OutIInv, OutTypeOK, OutExclusion, OutCritical, OutLock, OutGoto
<1>3. Ways' BY DEF OutIInv, OutTypeOK, Ways, Register, File, OutCritical, OutLock, OutGoto, rcall
<1>4. EntriesThere' BY DEF OutIInv, OutTypeOK, EntriesThere, OutLock, OutGoto, rcall
<1>5. Stored' BY DEF OutIInv, OutTypeOK, Stored, OutLock, OutGoto, rcall
<1>6. KnownThere' BY DEF OutIInv, OutTypeOK, KnownThere, Enough, OutLock, OutGoto, rcall
<1> QED BY <1>1, <1>2, <1>3, <1>4, <1>5, <1>6 DEF OutIInv

LEMMA EntriesStep ==
  ASSUME OutIInv, NEW r \in Readers, Entries(r)
  PROVE  OutIInv'
<1>a. /\ rpc' \in [Readers -> OutLabels] /\ rpc[r] = "entries" /\ rpc'[r] \in {"unlock", "get"}
      /\ \A s \in Readers \ {r} : rpc'[s] = rpc[s]
  BY DEF OutIInv, OutTypeOK, Entries, OutGoto, OutLabels
<1>b. entries' \in [Readers -> 0 .. OutDepth] /\ \A s \in Readers \ {r} : entries'[s] = entries[s]
  <2>1. UNCHANGED entries \/ \E n \in 1 .. OutDepth : entries' = [entries EXCEPT ![r] = n]
    BY DEF Entries
  <2>2. entries \in [Readers -> 0 .. OutDepth] BY DEF OutIInv, OutTypeOK
  <2>3. CASE UNCHANGED entries BY <2>2, <2>3
  <2>4. CASE \E n \in 1 .. OutDepth : entries' = [entries EXCEPT ![r] = n]
    <3>1. PICK n \in 1 .. OutDepth : entries' = [entries EXCEPT ![r] = n] BY <2>4
    <3>2. n \in 0 .. OutDepth BY OutMboxAssumption
    <3> QED BY <2>2, <3>1, <3>2
  <2> QED BY <2>1, <2>3, <2>4
<1>c. UNCHANGED <<psmap, intr, obox, sent, olock, rcall, mbox_data, got, lost, known>>
  BY DEF Entries
<1>1. OutTypeOK' BY <1>a, <1>b, <1>c DEF OutIInv, OutTypeOK, OutLabels, rcall
<1>2. OutExclusion' BY <1>a, <1>c DEF OutIInv, OutExclusion, OutCritical
<1>3. Ways' BY <1>a, <1>c DEF OutIInv, Ways, Register, File, OutCritical, rcall
<1>4. EntriesThere'
  <2>1. ASSUME rpc'[r] = "get"
        PROVE  /\ entries'[r] >= 1 /\ entries'[r] <= Len(obox)
               /\ Len(mbox_data[r]) + entries'[r] <= want[r]
    <3>1. PICK n \in 1 .. OutDepth :
            /\ n <= Len(obox) /\ n <= want[r] - Len(mbox_data[r])
            /\ entries' = [entries EXCEPT ![r] = n]
      BY <2>1 DEF OutIInv, OutTypeOK, Entries, OutGoto
    <3>2. entries'[r] = n BY <3>1 DEF OutIInv, OutTypeOK
    <3>3. want[r] \in Nat /\ Len(mbox_data[r]) \in Nat BY OutNumbers DEF OutIInv
    <3> QED BY <3>1, <3>2, <3>3, OutMboxAssumption
  <2> QED BY <1>a, <1>b, <1>c, <2>1 DEF OutIInv, EntriesThere, rcall
<1>5. Stored' BY <1>a, <1>c DEF OutIInv, Stored, rcall
<1>6. KnownThere'
  <2>1. ASSUME rpc'[r] = "unlock" PROVE Enough(r) \/ known[r] <= Len(mbox_data[r])
    <3>1. Enough(r) \/ obox = <<>>
      BY <2>1 DEF OutIInv, OutTypeOK, Entries, OutGoto
    <3>2. known[r] <= Len(obox) + Len(mbox_data[r]) BY DEF OutIInv, KnownThere
    <3>3. known[r] \in Nat /\ Len(mbox_data[r]) \in Nat BY OutNumbers DEF OutIInv
    <3>4. obox = <<>> => Len(obox) = 0 OBVIOUS
    <3> QED BY <3>1, <3>2, <3>3, <3>4
  <2> QED BY <1>a, <1>c, <2>1 DEF OutIInv, KnownThere, Enough, rcall
<1> QED BY <1>1, <1>2, <1>3, <1>4, <1>5, <1>6 DEF OutIInv

\* Whoever takes a word keeps what is known of the others.
LEMMA TakingKnown ==
  ASSUME OutIInv, NEW r \in Readers, TakeWord(r), obox # <<>>, UNCHANGED rcall,
         rpc'[r] # "unlock", \A s \in Readers \ {r} : rpc'[s] = rpc[s]
  PROVE  KnownThere'
<1>1. /\ Len(obox) \in Nat /\ Len(obox') = Len(obox) - 1
      /\ Len(mbox_data'[r]) = Len(mbox_data[r]) + 1
      /\ \A s \in Readers : Len(mbox_data[s]) \in Nat
      /\ \A s \in Readers \ {r} : mbox_data'[s] = mbox_data[s] /\ known'[s] = 0
      /\ known'[r] = known[r]
      /\ obox' \in Seq(Nat)
  BY Taking DEF OutIInv
<1>2. \A s \in Readers : known[s] \in Nat /\ known[s] <= Len(obox) + Len(mbox_data[s])
  BY OutNumbers DEF OutIInv, KnownThere
<1>3. known'[r] <= Len(obox') + Len(mbox_data'[r]) BY <1>1, <1>2
<1>4. ASSUME NEW s \in Readers \ {r} PROVE known'[s] <= Len(obox') + Len(mbox_data'[s])
                                           /\ known'[s] <= Len(mbox_data'[s])
  <2>1. Len(obox') \in Nat BY <1>1
  <2>2. Len(mbox_data'[s]) \in Nat /\ known'[s] = 0 BY <1>1
  <2> QED BY <2>1, <2>2
<1> QED BY <1>3, <1>4 DEF KnownThere

LEMMA GetWordStep ==
  ASSUME OutIInv, NEW r \in Readers, GetWord(r)
  PROVE  OutIInv' /\ obox # <<>>
<1> USE OutMboxAssumption
<1>a. /\ entries[r] >= 1 /\ entries[r] <= Len(obox) /\ Len(mbox_data[r]) + entries[r] <= want[r]
      /\ entries[r] \in 0 .. OutDepth /\ Len(obox) \in Nat /\ want[r] \in Nat
      /\ Len(mbox_data[r]) \in Nat
  BY OutNumbers DEF OutIInv, OutTypeOK, EntriesThere, GetWord
<1>b. obox # <<>>
  <2>1. obox = <<>> => Len(obox) = 0 OBVIOUS
  <2> QED BY <1>a, <2>1
<1>c. /\ Len(obox') = Len(obox) - 1 /\ obox' \in Seq(Nat)
      /\ mbox_data' \in [Readers -> Seq(Nat)]
      /\ Len(mbox_data'[r]) = Len(mbox_data[r]) + 1
      /\ \A s \in Readers \ {r} : mbox_data'[s] = mbox_data[s]
      /\ known' \in [Readers -> 0 .. OutDepth]
  BY <1>b, Taking DEF OutIInv, GetWord
<1>d. /\ entries' \in [Readers -> 0 .. OutDepth] /\ entries'[r] = entries[r] - 1
      /\ \A s \in Readers \ {r} : entries'[s] = entries[s]
  <2>1. entries[r] - 1 \in 0 .. OutDepth BY <1>a
  <2> QED BY <2>1 DEF OutIInv, OutTypeOK, GetWord
<1>e. /\ rpc' \in [Readers -> OutLabels] /\ rpc[r] = "get" /\ rpc'[r] \in {"entries", "get"}
      /\ rpc'[r] = "get" => entries[r] # 1
      /\ \A s \in Readers \ {r} : rpc'[s] = rpc[s]
  BY DEF OutIInv, OutTypeOK, GetWord, OutGoto, OutLabels
<1>f. UNCHANGED <<psmap, intr, sent, olock, rcall, got, lost>> BY DEF GetWord
<1>1. OutTypeOK'
  <2>1. Len(obox') <= OutDepth BY <1>a, <1>c DEF OutIInv, OutTypeOK
  <2> QED BY <1>c, <1>d, <1>e, <1>f, <2>1 DEF OutIInv, OutTypeOK, OutLabels, rcall
<1>2. OutExclusion' BY <1>e, <1>f DEF OutIInv, OutExclusion, OutCritical
<1>3. Ways' BY <1>e, <1>f DEF OutIInv, Ways, Register, File, OutCritical, rcall
<1>4. EntriesThere'
  <2>1. \A s \in Readers \ {r} : rpc'[s] # "get"
    BY <1>e DEF OutIInv, OutExclusion, OutCritical
  <2>2. rpc'[r] = "get" => /\ entries'[r] >= 1 /\ entries'[r] <= Len(obox')
                           /\ Len(mbox_data'[r]) + entries'[r] <= want[r]
    <3>1. SUFFICES ASSUME rpc'[r] = "get"
                   PROVE  /\ entries[r] - 1 >= 1 /\ entries[r] - 1 <= Len(obox) - 1
                          /\ Len(mbox_data[r]) + 1 + (entries[r] - 1) <= want[r]
      BY <1>c, <1>d
    <3>2. entries[r] # 1 BY <1>e, <3>1
    <3> QED BY <1>a, <3>2
  <2> QED BY <1>f, <2>1, <2>2 DEF EntriesThere, rcall
<1>5. Stored'
  <2>1. Len(mbox_data'[r]) <= want[r] BY <1>a, <1>c
  <2> QED BY <1>c, <1>e, <1>f, <2>1 DEF OutIInv, Stored, rcall
<1>6. KnownThere' BY <1>b, <1>e, <1>f, TakingKnown DEF GetWord
<1> QED BY <1>b, <1>1, <1>2, <1>3, <1>4, <1>5, <1>6 DEF OutIInv

LEMMA FileWordStep ==
  ASSUME OutIInv, NEW r \in Readers, FileWord(r)
  PROVE  OutIInv'
<1>b. obox # <<>> /\ ~ Enough(r) BY DEF FileWord
<1>c. /\ Len(obox') = Len(obox) - 1 /\ obox' \in Seq(Nat) /\ Len(obox) \in Nat
      /\ mbox_data' \in [Readers -> Seq(Nat)]
      /\ Len(mbox_data'[r]) = Len(mbox_data[r]) + 1 /\ mbox_data'[r] # <<>>
      /\ \A s \in Readers \ {r} : mbox_data'[s] = mbox_data[s]
      /\ known' \in [Readers -> 0 .. OutDepth]
  BY <1>b, Taking DEF OutIInv, FileWord
<1>e. /\ rpc' \in [Readers -> OutLabels] /\ rpc[r] \in {"file", "more"} /\ rpc'[r] = "more"
      /\ \A s \in Readers \ {r} : rpc'[s] = rpc[s]
  BY DEF OutIInv, OutTypeOK, FileWord, OutGoto, OutLabels
<1>f. UNCHANGED <<psmap, intr, sent, olock, rcall, entries, got, lost>> BY DEF FileWord
<1>1. OutTypeOK'
  <2>1. Len(obox') <= OutDepth BY <1>c, OutMboxAssumption DEF OutIInv, OutTypeOK
  <2> QED BY <1>c, <1>e, <1>f, <2>1 DEF OutIInv, OutTypeOK, OutLabels, rcall
<1>2. OutExclusion' BY <1>e, <1>f DEF OutIInv, OutExclusion, OutCritical
<1>3. Ways' BY <1>e, <1>f DEF OutIInv, Ways, Register, File, OutCritical, rcall
<1>4. EntriesThere'
  <2>1. ~ (psmap /\ ~ intr) BY <1>e DEF OutIInv, Ways, File
  <2>2. \A s \in Readers : rpc'[s] # "get"
    BY <1>e, <2>1 DEF OutIInv, Ways, Register, OutCritical
  <2> QED BY <2>2 DEF EntriesThere
<1>5. Stored'
  <2>1. Len(mbox_data[r]) <= want[r] /\ Len(mbox_data[r]) # want[r]
    BY <1>b, <1>e DEF OutIInv, Stored, Enough
  <2>2. Len(mbox_data[r]) \in Nat /\ want[r] \in Nat BY OutNumbers DEF OutIInv
  <2>3. Len(mbox_data'[r]) <= want[r] BY <1>c, <2>1, <2>2
  <2> QED BY <1>c, <1>e, <1>f, <2>3 DEF OutIInv, Stored, rcall
<1>6. KnownThere' BY <1>b, <1>e, <1>f, TakingKnown DEF FileWord
<1> QED BY <1>1, <1>2, <1>3, <1>4, <1>5, <1>6 DEF OutIInv

\* A call that ends, with or without success, leaves the others alone.
LEMMA EndStep ==
  ASSUME OutIInv, NEW r \in Readers, OutReturn(r) \/ OutFail(r),
         UNCHANGED <<psmap, intr, obox, sent, rcall, entries>>,
         olock' = olock \/ (olock' = OutNone /\ olock = r)
  PROVE  OutIInv'
<1>a. /\ rpc' \in [Readers -> OutLabels] /\ rpc'[r] = "idle"
      /\ \A s \in Readers \ {r} : rpc'[s] = rpc[s]
  BY DEF OutIInv, OutTypeOK, OutReturn, OutFail, OutGoto, OutLabels
<1>b. /\ mbox_data' \in [Readers -> Seq(Nat)] /\ mbox_data'[r] = <<>>
      /\ \A s \in Readers \ {r} : mbox_data'[s] = mbox_data[s]
  <2>1. mbox_data' = [mbox_data EXCEPT ![r] = <<>>] BY DEF OutReturn, OutFail
  <2>2. <<>> \in Seq(Nat) OBVIOUS
  <2> QED BY <2>1, <2>2 DEF OutIInv, OutTypeOK
<1>c. /\ known' \in [Readers -> 0 .. OutDepth] /\ known'[r] = 0
      /\ \A s \in Readers \ {r} : known'[s] = known[s]
  <2>1. known' = [known EXCEPT ![r] = 0] BY DEF OutReturn, OutFail
  <2> QED BY <2>1, OutMboxAssumption DEF OutIInv, OutTypeOK
<1>d. got' \in [Readers -> Seq(Nat)] /\ lost' \subseteq Nat
  <2>1. CASE OutReturn(r)
    <3>1. got[r] \o mbox_data[r] \in Seq(Nat) BY OutNumbers DEF OutIInv
    <3> QED BY <2>1, <3>1 DEF OutIInv, OutTypeOK, OutReturn
  <2>2. CASE OutFail(r)
    <3>1. ToSet(mbox_data[r]) \subseteq Nat BY OutNumbers DEF OutIInv, ToSet
    <3> QED BY <2>2, <3>1 DEF OutIInv, OutTypeOK, OutFail
  <2> QED BY <2>1, <2>2
<1>1. OutTypeOK' BY <1>a, <1>b, <1>c, <1>d DEF OutIInv, OutTypeOK, OutLabels, rcall
<1>2. OutExclusion' BY <1>a DEF OutIInv, OutExclusion, OutCritical
<1>3. Ways' BY <1>a DEF OutIInv, Ways, Register, File, OutCritical, rcall
<1>4. EntriesThere' BY <1>a, <1>b DEF OutIInv, EntriesThere, rcall
<1>5. Stored' BY <1>a, <1>b DEF OutIInv, Stored, rcall
<1>6. KnownThere'
  <2>1. known'[r] <= Len(obox') + Len(mbox_data'[r]) BY <1>b, <1>c, OutNumbers DEF OutIInv
  <2> QED BY <1>a, <1>b, <1>c, <2>1 DEF OutIInv, KnownThere, Enough, rcall
<1> QED BY <1>1, <1>2, <1>3, <1>4, <1>5, <1>6 DEF OutIInv

LEMMA FileDoneStep ==
  ASSUME OutIInv, NEW r \in Readers, FileDone(r)
  PROVE  OutIInv'
<1>a. UNCHANGED <<psmap, intr, obox, sent, olock, rcall, entries>> BY DEF FileDone
<1>1. CASE OutReturn(r) BY <1>a, <1>1, EndStep
<1>2. CASE ~ OutReturn(r)
  <2>a. /\ rpc' = [rpc EXCEPT ![r] = "file"] /\ rpc[r] = "more" /\ rflag[r] = "ALL_BLOCKING"
        /\ UNCHANGED <<mbox_data, got, lost, known>>
    BY <1>2 DEF FileDone, OutGoto
  <2>1. OutTypeOK' BY <1>a, <2>a DEF OutIInv, OutTypeOK, rcall
  <2>2. OutExclusion' BY <1>a, <2>a DEF OutIInv, OutTypeOK, OutExclusion, OutCritical
  <2>3. Ways' BY <1>a, <2>a DEF OutIInv, OutTypeOK, Ways, Register, File, OutCritical, rcall
  <2>4. EntriesThere' BY <1>a, <2>a DEF OutIInv, OutTypeOK, EntriesThere, rcall
  <2>5. Stored' BY <1>a, <2>a DEF OutIInv, OutTypeOK, Stored, rcall
  <2>6. KnownThere' BY <1>a, <2>a DEF OutIInv, OutTypeOK, KnownThere, Enough, rcall
  <2> QED BY <2>1, <2>2, <2>3, <2>4, <2>5, <2>6 DEF OutIInv
<1> QED BY <1>1, <1>2

LEMMA SpeWritesStep ==
  ASSUME OutIInv, SpeWrites
  PROVE  OutIInv'
<1>a. /\ obox' \in Seq(Nat) /\ Len(obox') = Len(obox) + 1 /\ Len(obox) \in Nat /\ sent' \in Nat
      /\ Len(obox') <= OutDepth
  <2>1. sent' \in Nat /\ obox \in Seq(Nat) /\ Len(obox) \in Nat /\ Len(obox) < OutDepth
    BY DEF OutIInv, OutTypeOK, SpeWrites
  <2>2. obox' = Append(obox, sent') BY DEF SpeWrites
  <2> QED BY <2>1, <2>2, OutMboxAssumption
<1>b. UNCHANGED <<psmap, intr, olock, rpc, rcall, entries, mbox_data, got, lost, known>>
  BY DEF SpeWrites
<1>1. OutTypeOK' BY <1>a, <1>b DEF OutIInv, OutTypeOK, rcall
<1>2. OutExclusion' BY <1>b DEF OutIInv, OutExclusion
<1>3. Ways' BY <1>b DEF OutIInv, Ways, Register, File, rcall
<1>4. EntriesThere'
  <2>1. \A r \in Readers : entries[r] <= Len(obox) => entries[r] <= Len(obox')
    BY <1>a, OutNumbers DEF OutIInv
  <2> QED BY <1>b, <2>1 DEF OutIInv, EntriesThere, rcall
<1>5. Stored' BY <1>b DEF OutIInv, Stored, rcall
<1>6. KnownThere'
  <2>1. ASSUME NEW r \in Readers PROVE known[r] <= Len(obox') + Len(mbox_data[r])
    <3>1. known[r] <= Len(obox) + Len(mbox_data[r]) BY DEF OutIInv, KnownThere
    <3>2. known[r] \in Nat /\ Len(mbox_data[r]) \in Nat BY OutNumbers DEF OutIInv
    <3>3. \A a, b, c \in Nat : a <= b + c => a <= b + 1 + c OBVIOUS
    <3> QED BY <1>a, <3>1, <3>2, <3>3
  <2> QED BY <1>b, <2>1 DEF OutIInv, KnownThere, Enough, rcall
<1> QED BY <1>1, <1>2, <1>3, <1>4, <1>5, <1>6 DEF OutIInv

\* The entries that were counted stay, whatever the other readers and the program
\* do, and each call keeps to its way.
LEMMA NextOutIInv == OutIInv /\ [OutNext]_outvars => OutIInv'
<1> SUFFICES ASSUME OutIInv, [OutNext]_outvars PROVE OutIInv'
  OBVIOUS
<1>1. ASSUME NEW r \in Readers, NEW f \in Behaviors, NEW n \in 1 .. OutCount, OutRead(r, f, n)
      PROVE  OutIInv'
  BY <1>1, OutReadStep
<1>2. ASSUME NEW r \in Readers, OutProgress(r) \/ OutFileFails(r) PROVE OutIInv'
  <2>1. OutLock(r) => OutIInv' BY OutLockStep
  <2>2. Entries(r) => OutIInv' BY EntriesStep
  <2>3. GetWord(r) => OutIInv' BY GetWordStep
  <2>4. ASSUME OutUnlock(r) PROVE OutIInv'
    <3>1. olock = r BY <2>4 DEF OutIInv, OutExclusion, OutCritical, OutUnlock
    <3> QED BY <2>4, <3>1, EndStep DEF OutUnlock
  <2>5. FileWord(r) => OutIInv' BY FileWordStep
  <2>6. FileDone(r) => OutIInv' BY FileDoneStep
  <2>7. OutAgain(r) => OutIInv' BY EndStep DEF OutAgain
  <2>8. OutFileFails(r) => OutIInv' BY EndStep DEF OutFileFails
  <2> QED BY <1>2, <2>1, <2>2, <2>3, <2>4, <2>5, <2>6, <2>7, <2>8 DEF OutProgress
<1>3. ASSUME NEW r \in Readers, OutStatus(r) PROVE OutIInv'
  BY <1>3, OutStatusStep
<1>4. SpeWrites => OutIInv' BY SpeWritesStep
<1>5. ASSUME UNCHANGED outvars PROVE OutIInv'
  <2>1. OutTypeOK' BY <1>5 DEF OutIInv, OutTypeOK, outvars, rcall
  <2>2. OutExclusion' /\ EntriesThere' /\ Stored'
    BY <1>5 DEF OutIInv, OutExclusion, EntriesThere, Stored, outvars, rcall
  <2>3. Ways' BY <1>5 DEF OutIInv, Ways, Register, File, outvars, rcall
  <2>4. KnownThere' BY <1>5 DEF OutIInv, KnownThere, Enough, outvars, rcall
  <2> QED BY <2>1, <2>2, <2>3, <2>4 DEF OutIInv
<1> QED BY <1>1, <1>2, <1>3, <1>4, <1>5 DEF OutNext

THEOREM OutInvariance == OutSpec => []OutIInv
BY InitOutIInv, NextOutIInv, PTL DEF OutSpec

\* Every variable of the outbound mailboxes keeps its type.
THEOREM OutTypeCorrect == OutSpec => []OutTypeOK
<1>1. OutIInv => OutTypeOK BY DEF OutIInv
<1> QED BY <1>1, OutInvariance, PTL

-----------------------------------------------------------------------------
(* That each word is taken once *)

\* The words of a reader: those that were reported to it, and those of its call.
WordsOf == [r \in Readers |-> got[r] \o mbox_data[r]]
Has == [r \in Readers |-> ToSet(WordsOf[r])]

\* They are in the order the program wrote them, also those that are not next to
\* each other.
Sorted(s) == \A i, j \in 1 .. Len(s) : i < j => s[i] < s[j]

\* The mailbox holds the last words of the program, and each other word is with
\* one reader, or lost.
Once ==
  /\ \A r \in Readers : Sorted(WordsOf[r])
  /\ \A k \in 1 .. Len(obox) : obox[k] = sent - Len(obox) + k
  /\ Len(obox) <= sent
  /\ \A x \in Nat : x \in 1 .. sent - Len(obox) <=> (x \in lost \/ \E r \in Readers : x \in Has[r])
  /\ \A r, s \in Readers : r # s => Has[r] \cap Has[s] = {}
  /\ \A r \in Readers : Has[r] \cap lost = {}

\* The elements of a sequence that is extended.
LEMMA ToSetAppend ==
  ASSUME NEW s \in Seq(Nat), NEW x \in Nat
  PROVE  ToSet(Append(s, x)) = ToSet(s) \cup {x}
<1>1. /\ DOMAIN Append(s, x) = 1 .. Len(s) + 1 /\ DOMAIN s = 1 .. Len(s) /\ Len(s) \in Nat
      /\ Append(s, x)[Len(s) + 1] = x /\ \A i \in 1 .. Len(s) : Append(s, x)[i] = s[i]
  OBVIOUS
<1>2. 1 .. Len(s) + 1 = (1 .. Len(s)) \cup {Len(s) + 1} BY <1>1
<1>3. ASSUME NEW y PROVE y \in ToSet(Append(s, x)) <=> y \in ToSet(s) \cup {x}
  <2>1. y \in ToSet(Append(s, x)) <=> \E i \in 1 .. Len(s) + 1 : Append(s, x)[i] = y
    BY <1>1 DEF ToSet
  <2>2. y \in ToSet(s) <=> \E i \in 1 .. Len(s) : s[i] = y
    BY <1>1 DEF ToSet
  <2> QED BY <1>1, <1>2, <2>1, <2>2
<1> QED BY <1>3

\* The elements of two sequences that are put together.
LEMMA ToSetConcat ==
  ASSUME NEW s \in Seq(Nat), NEW t \in Seq(Nat)
  PROVE  ToSet(s \o t) = ToSet(s) \cup ToSet(t)
<1>1. /\ DOMAIN (s \o t) = 1 .. Len(s) + Len(t) /\ DOMAIN s = 1 .. Len(s) /\ DOMAIN t = 1 .. Len(t)
      /\ Len(s) \in Nat /\ Len(t) \in Nat
      /\ \A i \in 1 .. Len(s) : (s \o t)[i] = s[i]
      /\ \A i \in 1 .. Len(t) : (s \o t)[Len(s) + i] = t[i]
  BY ConcatProperties
<1>2. ASSUME NEW y \in ToSet(s \o t) PROVE y \in ToSet(s) \cup ToSet(t)
  <2>1. PICK i \in 1 .. Len(s) + Len(t) : (s \o t)[i] = y BY <1>1 DEF ToSet
  <2>2. CASE i \in 1 .. Len(s)
    <3>1. s[i] = y BY <1>1, <2>1, <2>2
    <3> QED BY <1>1, <2>2, <3>1 DEF ToSet
  <2>3. CASE i \notin 1 .. Len(s)
    <3>1. i - Len(s) \in 1 .. Len(t) /\ Len(s) + (i - Len(s)) = i BY <1>1, <2>3
    <3>2. t[i - Len(s)] = y BY <1>1, <2>1, <3>1
    <3> QED BY <1>1, <3>1, <3>2 DEF ToSet
  <2> QED BY <2>2, <2>3
<1>3. ASSUME NEW y \in ToSet(s) PROVE y \in ToSet(s \o t)
  <2>1. PICK i \in 1 .. Len(s) : s[i] = y BY <1>1 DEF ToSet
  <2>2. (s \o t)[i] = y /\ i \in 1 .. Len(s) + Len(t) BY <1>1, <2>1
  <2> QED BY <1>1, <2>2 DEF ToSet
<1>4. ASSUME NEW y \in ToSet(t) PROVE y \in ToSet(s \o t)
  <2>1. PICK i \in 1 .. Len(t) : t[i] = y BY <1>1 DEF ToSet
  <2>2. (s \o t)[Len(s) + i] = y /\ Len(s) + i \in 1 .. Len(s) + Len(t) BY <1>1, <2>1
  <2> QED BY <1>1, <2>2 DEF ToSet
<1> QED BY <1>2, <1>3, <1>4

\* A sequence in order stays so with a larger element, and so does its front,
\* which has no element in common with the rest.
LEMMA SortedAppend ==
  ASSUME NEW s \in Seq(Nat), NEW x \in Nat, Sorted(s), \A y \in ToSet(s) : y < x
  PROVE  Sorted(Append(s, x))
<1>1. /\ Len(Append(s, x)) = Len(s) + 1 /\ Len(s) \in Nat
      /\ Append(s, x)[Len(s) + 1] = x /\ \A i \in 1 .. Len(s) : Append(s, x)[i] = s[i]
  OBVIOUS
<1>2. \A i \in 1 .. Len(s) : s[i] < x BY DEF ToSet
<1> SUFFICES ASSUME NEW i \in 1 .. Len(s) + 1, NEW j \in 1 .. Len(s) + 1, i < j
             PROVE  Append(s, x)[i] < Append(s, x)[j]
  BY <1>1 DEF Sorted
<1>3. i \in 1 .. Len(s) BY <1>1
<1>4. CASE j = Len(s) + 1 BY <1>1, <1>2, <1>3, <1>4
<1>5. CASE j # Len(s) + 1
  <2>1. j \in 1 .. Len(s) BY <1>1, <1>5
  <2> QED BY <1>1, <1>3, <2>1 DEF Sorted
<1> QED BY <1>4, <1>5

LEMMA SortedFront ==
  ASSUME NEW s \in Seq(Nat), NEW t \in Seq(Nat), Sorted(s \o t)
  PROVE  Sorted(s) /\ ToSet(s) \cap ToSet(t) = {}
<1>1. /\ Len(s \o t) = Len(s) + Len(t) /\ DOMAIN s = 1 .. Len(s) /\ DOMAIN t = 1 .. Len(t)
      /\ Len(s) \in Nat /\ Len(t) \in Nat
      /\ \A i \in 1 .. Len(s) : (s \o t)[i] = s[i]
      /\ \A i \in 1 .. Len(t) : (s \o t)[Len(s) + i] = t[i]
  BY ConcatProperties
<1>2. ASSUME NEW i \in 1 .. Len(s), NEW j \in 1 .. Len(s), i < j PROVE s[i] < s[j]
  <2>1. i \in 1 .. Len(s \o t) /\ j \in 1 .. Len(s \o t) BY <1>1
  <2>2. (s \o t)[i] < (s \o t)[j] BY <1>2, <2>1 DEF Sorted
  <2> QED BY <1>1, <2>2
<1>3. ASSUME NEW y \in ToSet(s), y \in ToSet(t) PROVE FALSE
  <2>1. PICK i \in 1 .. Len(s) : s[i] = y BY <1>1 DEF ToSet
  <2>2. PICK j \in 1 .. Len(t) : t[j] = y BY <1>1, <1>3 DEF ToSet
  <2>3. i \in 1 .. Len(s \o t) /\ Len(s) + j \in 1 .. Len(s \o t) /\ i < Len(s) + j BY <1>1
  <2>4. (s \o t)[i] < (s \o t)[Len(s) + j] BY <2>3 DEF Sorted
  <2>5. y < y BY <1>1, <2>1, <2>2, <2>4
  <2>6. y \in Nat BY <2>1
  <2> QED BY <2>5, <2>6
<1> QED BY <1>2, <1>3 DEF Sorted

\* The words are numbers.
LEMMA WordsOfType ==
  ASSUME OutTypeOK
  PROVE  /\ \A r \in Readers : WordsOf[r] \in Seq(Nat) /\ Has[r] \subseteq Nat
         /\ sent \in Nat
<1>1. ASSUME NEW r \in Readers PROVE WordsOf[r] \in Seq(Nat)
  BY OutNumbers DEF WordsOf
<1>2. \A r \in Readers : Has[r] \subseteq Nat BY <1>1 DEF Has, ToSet
<1> QED BY <1>1, <1>2 DEF OutTypeOK

LEMMA InitOnce == OutInit => Once
<1> SUFFICES ASSUME OutInit PROVE Once
  OBVIOUS
<1>1. \A r \in Readers : WordsOf[r] = <<>> BY DEF OutInit, WordsOf
<1>2. \A r \in Readers : Has[r] = {} BY <1>1 DEF Has, ToSet
<1>3. \A r \in Readers : Sorted(WordsOf[r]) BY <1>1 DEF Sorted
<1>4. obox = <<>> /\ sent = 0 /\ lost = {} /\ Len(obox) = 0 BY DEF OutInit
<1> QED BY <1>2, <1>3, <1>4 DEF Once

\* The word that is taken is the next one of the program.
LEMMA TakingOnce ==
  ASSUME OutIInv, Once, NEW r \in Readers, TakeWord(r), obox # <<>>,
         UNCHANGED <<sent, got, lost>>
  PROVE  Once'
<1> DEFINE x == Head(obox)
<1>1. /\ obox' = Tail(obox) /\ Len(obox) \in Nat /\ Len(obox') = Len(obox) - 1 /\ x \in Nat
      /\ mbox_data' = [mbox_data EXCEPT ![r] = Append(@, x)]
  BY Taking DEF OutIInv
<1>2. sent \in Nat /\ Len(obox) <= sent /\ Len(obox) >= 1 /\ obox \in Seq(Nat)
  <2>1. obox \in Seq(Nat) /\ Len(obox) \in Nat BY OutNumbers DEF OutIInv
  <2>2. Len(obox) >= 1 BY <2>1
  <2> QED BY <2>1, <2>2, WordsOfType DEF OutIInv, Once
<1>3. x = sent - Len(obox) + 1
  <2>1. x = obox[1] BY <1>2
  <2> QED BY <1>2, <2>1 DEF Once
<1>4. WordsOf'[r] = Append(WordsOf[r], x) /\ \A s \in Readers \ {r} : WordsOf'[s] = WordsOf[s]
  <2>1. got[r] \in Seq(Nat) /\ mbox_data[r] \in Seq(Nat) /\ mbox_data \in [Readers -> Seq(Nat)]
    BY OutNumbers DEF OutIInv, OutTypeOK
  <2>2. got[r] \o Append(mbox_data[r], x) = Append(got[r] \o mbox_data[r], x)
    <3>1. PICK s \in Seq(Nat) : s = got[r] BY <2>1
    <3>2. PICK t \in Seq(Nat) : t = mbox_data[r] BY <2>1
    <3>3. PICK y \in Nat : y = x BY <1>1
    <3>4. s \o Append(t, y) = Append(s \o t, y) OBVIOUS
    <3> QED BY <3>1, <3>2, <3>3, <3>4
  <2>3. mbox_data'[r] = Append(mbox_data[r], x) /\ got' = got
        /\ \A s \in Readers \ {r} : mbox_data'[s] = mbox_data[s]
    BY <1>1, <2>1
  <2> QED BY <2>2, <2>3 DEF WordsOf
<1>5. \A s \in Readers : WordsOf[s] \in Seq(Nat) /\ Has[s] \subseteq Nat
  BY WordsOfType DEF OutIInv
<1> HIDE DEF x
<1>6. Has'[r] = Has[r] \cup {x} /\ \A s \in Readers \ {r} : Has'[s] = Has[s]
  BY <1>1, <1>4, <1>5, ToSetAppend DEF Has
<1>7. PICK m \in Nat : m = sent - Len(obox)
  <2>1. sent - Len(obox) \in Nat BY <1>1, <1>2
  <2> QED BY <2>1
<1>8. x = m + 1 /\ sent' - Len(obox') = m + 1 BY <1>1, <1>2, <1>3, <1>7
<1>9. \A y \in Nat : y \in 1 .. m <=> (y \in lost \/ \E s \in Readers : y \in Has[s])
  BY <1>7 DEF Once
<1>10. x \notin lost /\ \A s \in Readers : x \notin Has[s] BY <1>1, <1>8, <1>9
<1>11. \A s \in Readers : Sorted(WordsOf'[s])
  <2>1. \A y \in ToSet(WordsOf[r]) : y < x
    <3>1. \A y \in Has[r] : y \in 1 .. m BY <1>5, <1>9
    <3> QED BY <1>8, <3>1 DEF Has
  <2>2. Sorted(WordsOf[r]) /\ \A s \in Readers : Sorted(WordsOf[s]) BY DEF Once
  <2>3. Sorted(Append(WordsOf[r], x)) BY <1>1, <1>5, <2>1, <2>2, SortedAppend
  <2> QED BY <1>4, <2>2, <2>3
<1>12. \A k \in 1 .. Len(obox') : obox'[k] = sent' - Len(obox') + k
  <2> SUFFICES ASSUME NEW k \in 1 .. Len(obox') PROVE obox'[k] = m + 1 + k
    BY <1>8
  <2>1. obox'[k] = obox[k + 1] /\ k + 1 \in 1 .. Len(obox) BY <1>1, <1>2
  <2>2. obox[k + 1] = sent - Len(obox) + (k + 1) BY <2>1 DEF Once
  <2> QED BY <1>1, <1>2, <1>7, <2>1, <2>2
<1>13. Len(obox') <= sent' BY <1>1, <1>2
<1>14. ASSUME NEW y \in Nat
       PROVE  y \in 1 .. m + 1 <=> (y \in lost' \/ \E s \in Readers : y \in Has'[s])
  <2>1. y \in 1 .. m + 1 <=> y \in 1 .. m \/ y = x BY <1>8
  <2>2. (\E s \in Readers : y \in Has'[s]) <=> (\E s \in Readers : y \in Has[s]) \/ y = x
    BY <1>6
  <2> QED BY <1>9, <2>1, <2>2
<1>15. \A s, t \in Readers : s # t => Has'[s] \cap Has'[t] = {}
  <2>1. \A s, t \in Readers : s # t => Has[s] \cap Has[t] = {} BY DEF Once
  <2> QED BY <1>6, <1>10, <2>1
<1>16. \A s \in Readers : Has'[s] \cap lost' = {}
  <2>1. \A s \in Readers : Has[s] \cap lost = {} BY DEF Once
  <2> QED BY <1>6, <1>10, <2>1
<1> QED BY <1>8, <1>11, <1>12, <1>13, <1>14, <1>15, <1>16 DEF Once

\* A call that returns hands its words over.
LEMMA ReturnOnce ==
  ASSUME OutIInv, Once, NEW r \in Readers, OutReturn(r), UNCHANGED <<obox, sent>>
  PROVE  Once'
<1>1. \A s \in Readers : WordsOf'[s] = WordsOf[s]
  <2>1. got'[r] = got[r] \o mbox_data[r] /\ mbox_data'[r] = <<>>
    BY DEF OutIInv, OutTypeOK, OutReturn
  <2>2. got[r] \in Seq(Nat) /\ mbox_data[r] \in Seq(Nat) BY OutNumbers DEF OutIInv
  <2>3. (got[r] \o mbox_data[r]) \o <<>> = got[r] \o mbox_data[r] BY <2>2
  <2>4. \A s \in Readers \ {r} : got'[s] = got[s] /\ mbox_data'[s] = mbox_data[s]
    BY DEF OutIInv, OutTypeOK, OutReturn
  <2> QED BY <2>1, <2>3, <2>4 DEF WordsOf
<1>2. \A s \in Readers : Has'[s] = Has[s] BY <1>1 DEF Has
<1>3. lost' = lost BY DEF OutReturn
<1> QED BY <1>1, <1>2, <1>3 DEF Once

\* A call that fails loses the words it has taken.
LEMMA FailOnce ==
  ASSUME OutIInv, Once, NEW r \in Readers, OutFail(r), UNCHANGED <<obox, sent>>
  PROVE  Once'
<1>1. /\ got[r] \in Seq(Nat) /\ mbox_data[r] \in Seq(Nat)
      /\ WordsOf[r] = got[r] \o mbox_data[r] /\ Sorted(WordsOf[r])
  BY OutNumbers DEF OutIInv, Once, WordsOf
<1>2. WordsOf'[r] = got[r]
  <2>1. got' = got /\ mbox_data'[r] = <<>> BY DEF OutIInv, OutTypeOK, OutFail
  <2>2. got[r] \o <<>> = got[r] BY <1>1
  <2> QED BY <2>1, <2>2 DEF WordsOf
<1>3. \A s \in Readers \ {r} : WordsOf'[s] = WordsOf[s]
  <2>1. got' = got /\ \A s \in Readers \ {r} : mbox_data'[s] = mbox_data[s]
    BY DEF OutIInv, OutTypeOK, OutFail
  <2> QED BY <2>1 DEF WordsOf
<1>4. Sorted(got[r]) /\ ToSet(got[r]) \cap ToSet(mbox_data[r]) = {}
  BY <1>1, SortedFront
<1>5. Has[r] = ToSet(got[r]) \cup ToSet(mbox_data[r])
  BY <1>1, ToSetConcat DEF Has
<1>6. Has'[r] = ToSet(got[r]) /\ \A s \in Readers \ {r} : Has'[s] = Has[s]
  BY <1>2, <1>3 DEF Has
<1>7. lost' = lost \cup ToSet(mbox_data[r]) BY DEF OutFail
<1>8. \A s \in Readers : Sorted(WordsOf'[s]) BY <1>2, <1>3, <1>4 DEF Once
<1>9. \A y : (y \in lost' \/ \E s \in Readers : y \in Has'[s])
             <=> (y \in lost \/ \E s \in Readers : y \in Has[s])
  BY <1>5, <1>6, <1>7
<1>10. \A s, t \in Readers : s # t => Has'[s] \cap Has'[t] = {}
  <2>1. \A s, t \in Readers : s # t => Has[s] \cap Has[t] = {} BY DEF Once
  <2> QED BY <1>5, <1>6, <2>1
<1>11. \A s \in Readers : Has'[s] \cap lost' = {}
  <2>1. \A s \in Readers : Has[s] \cap lost = {} BY DEF Once
  <2>2. \A s, t \in Readers : s # t => Has[s] \cap Has[t] = {} BY DEF Once
  <2> QED BY <1>4, <1>5, <1>6, <1>7, <2>1, <2>2
<1> QED BY <1>8, <1>9, <1>10, <1>11 DEF Once

LEMMA SpeWritesOnce ==
  ASSUME OutIInv, Once, SpeWrites
  PROVE  Once'
<1>1. /\ obox \in Seq(Nat) /\ Len(obox) \in Nat /\ sent \in Nat /\ Len(obox) <= sent
      /\ sent' = sent + 1 /\ obox' = Append(obox, sent + 1)
  BY OutNumbers, WordsOfType DEF OutIInv, Once, SpeWrites
<1>2. /\ Len(obox') = Len(obox) + 1 /\ obox'[Len(obox) + 1] = sent + 1
      /\ \A k \in 1 .. Len(obox) : obox'[k] = obox[k]
  BY <1>1
<1>3. sent' - Len(obox') = sent - Len(obox) BY <1>1, <1>2
<1>4. ASSUME NEW k \in 1 .. Len(obox') PROVE obox'[k] = sent' - Len(obox') + k
  <2>1. CASE k \in 1 .. Len(obox)
    <3>1. obox'[k] = sent - Len(obox) + k BY <1>2, <2>1 DEF Once
    <3> QED BY <1>3, <3>1
  <2>2. CASE k \notin 1 .. Len(obox)
    <3>1. k = Len(obox) + 1 BY <1>1, <1>2, <2>2
    <3> QED BY <1>1, <1>2, <3>1
  <2> QED BY <2>1, <2>2
<1>5. WordsOf' = WordsOf /\ Has' = Has /\ lost' = lost BY DEF SpeWrites, WordsOf, Has
<1>6. Len(obox') <= sent' BY <1>1, <1>2
<1> QED BY <1>3, <1>4, <1>5, <1>6 DEF Once

\* No step gives a word to two readers, or to none.
LEMMA NextOnce == OutIInv /\ Once /\ [OutNext]_outvars => Once'
<1> SUFFICES ASSUME OutIInv, Once, [OutNext]_outvars PROVE Once'
  OBVIOUS
<1>0. ASSUME UNCHANGED <<obox, sent, mbox_data, got, lost>> PROVE Once'
  <2>1. WordsOf' = WordsOf BY <1>0 DEF WordsOf
  <2>2. Has' = Has BY <2>1 DEF Has
  <2> QED BY <1>0, <2>1, <2>2 DEF Once
<1>1. ASSUME NEW r \in Readers, NEW f \in Behaviors, NEW n \in 1 .. OutCount, OutRead(r, f, n)
      PROVE  Once'
  BY <1>0, <1>1 DEF OutRead
<1>2. ASSUME NEW r \in Readers, OutProgress(r) \/ OutFileFails(r) PROVE Once'
  <2>1. OutLock(r) \/ Entries(r) => Once' BY <1>0 DEF OutLock, Entries
  <2>2. GetWord(r) => Once' BY GetWordStep, TakingOnce DEF GetWord
  <2>3. OutUnlock(r) => Once' BY ReturnOnce DEF OutUnlock
  <2>4. FileWord(r) => Once' BY TakingOnce DEF FileWord
  <2>5. ASSUME FileDone(r) PROVE Once'
    <3>1. OutReturn(r) \/ UNCHANGED <<mbox_data, got, lost>> BY <2>5 DEF FileDone
    <3>2. UNCHANGED <<obox, sent>> BY <2>5 DEF FileDone
    <3> QED BY <1>0, <3>1, <3>2, ReturnOnce
  <2>6. OutAgain(r) => Once' BY ReturnOnce DEF OutAgain
  <2>7. OutFileFails(r) => Once' BY FailOnce DEF OutFileFails
  <2> QED BY <1>2, <2>1, <2>2, <2>3, <2>4, <2>5, <2>6, <2>7 DEF OutProgress
<1>3. ASSUME NEW r \in Readers, OutStatus(r) PROVE Once'
  BY <1>0, <1>3 DEF OutStatus
<1>4. SpeWrites => Once' BY SpeWritesOnce
<1>5. UNCHANGED outvars => Once' BY <1>0 DEF outvars
<1> QED BY <1>1, <1>2, <1>3, <1>4, <1>5 DEF OutNext

LEMMA OnceInvariance == OutSpec => []Once
<1>1. OutIInv /\ Once /\ [OutNext]_outvars => Once' BY NextOnce
<1> QED BY <1>1, InitOnce, OutInvariance, PTL DEF OutSpec

\* Every word the program wrote is in the mailbox, or with one reader, who has
\* his words in order, or was taken by a call that failed, for any number of
\* readers, any depth of the mailbox and any length of a call.
THEOREM WordsTakenOnceHolds == OutSpec => []WordsTakenOnce
<1>1. OutIInv /\ Once => WordsTakenOnce
  <2> SUFFICES ASSUME OutIInv, Once PROVE WordsTakenOnce
    OBVIOUS
  <2>1. \A r \in Readers : WordsOf[r] = got[r] \o mbox_data[r] /\ Has[r] = ToSet(got[r] \o mbox_data[r])
    BY DEF WordsOf, Has
  <2>2. \A r \in Readers : WordsOf[r] \in Seq(Nat) /\ Has[r] \subseteq Nat
    BY WordsOfType DEF OutIInv
  <2>3. ASSUME NEW r \in Readers PROVE Increasing(got[r] \o mbox_data[r])
    <3>1. Sorted(WordsOf[r]) /\ Len(WordsOf[r]) \in Nat BY <2>2 DEF Once
    <3>2. ASSUME NEW i \in 1 .. Len(WordsOf[r]) - 1 PROVE WordsOf[r][i] < WordsOf[r][i + 1]
      <4>1. i \in 1 .. Len(WordsOf[r]) /\ i + 1 \in 1 .. Len(WordsOf[r]) /\ i < i + 1 BY <3>1
      <4> QED BY <3>1, <4>1 DEF Sorted
    <3> QED BY <2>1, <3>2 DEF Increasing
  <2>4. \A k \in 1 .. Len(obox) : obox[k] = sent - Len(obox) + k BY DEF Once
  <2>5. (UNION {ToSet(got[r] \o mbox_data[r]) : r \in Readers}) \cup lost = 1 .. sent - Len(obox)
    <3>1. lost \subseteq Nat BY DEF OutIInv, OutTypeOK
    <3>2. \A x \in Nat : x \in 1 .. sent - Len(obox) <=> (x \in lost \/ \E r \in Readers : x \in Has[r])
      BY DEF Once
    <3>3. 1 .. sent - Len(obox) \subseteq Nat OBVIOUS
    <3>4. \A x : x \in 1 .. sent - Len(obox) <=> (x \in lost \/ \E r \in Readers : x \in Has[r])
      BY <2>2, <3>1, <3>2, <3>3
    <3>5. \A x : x \in UNION {ToSet(got[r] \o mbox_data[r]) : r \in Readers}
                 <=> \E r \in Readers : x \in Has[r]
      BY <2>1
    <3>6. UNION {ToSet(got[r] \o mbox_data[r]) : r \in Readers} \subseteq 1 .. sent - Len(obox)
      BY <3>4, <3>5
    <3>7. lost \subseteq 1 .. sent - Len(obox) BY <3>4
    <3>8. ASSUME NEW x \in 1 .. sent - Len(obox)
          PROVE  x \in UNION {ToSet(got[r] \o mbox_data[r]) : r \in Readers} \/ x \in lost
      BY <3>4, <3>5
    <3> QED BY <3>6, <3>7, <3>8
  <2>6. \A r, s \in Readers : r # s =>
          ToSet(got[r] \o mbox_data[r]) \cap ToSet(got[s] \o mbox_data[s]) = {}
    BY <2>1 DEF Once
  <2>7. \A r \in Readers : ToSet(got[r] \o mbox_data[r]) \cap lost = {}
    BY <2>1 DEF Once
  <2> QED BY <2>3, <2>4, <2>5, <2>6, <2>7 DEF WordsTakenOnce
<1> QED BY <1>1, OutInvariance, OnceInvariance, PTL

\* A call returns the words its way of reading promises, and no fewer than a
\* status call has shown to a reader alone; words are lost only by a call that
\* blocks for all and fails between two of its reads.
THEOREM ReadsEnoughHolds == OutSpec => ReadsEnough
<1> DEFINE Promised ==
      /\ \A r \in Readers :
           rpc[r] # "idle" /\ rpc'[r] = "idle" /\ ~ OutFileFails(r) =>
             LET n == Len(got'[r]) - Len(got[r]) IN
             /\ n <= want[r]
             /\ rflag[r] = "ALL_BLOCKING" => n = want[r]
             /\ rflag[r] = "ANY_BLOCKING" => n > 0
             /\ n >= known[r] \/ n = want[r]
      /\ lost' # lost => \E r \in Readers : OutFileFails(r) /\ rflag[r] = "ALL_BLOCKING"
<1>1. OutIInv /\ [OutNext]_outvars => [Promised]_outvars
  <2> SUFFICES ASSUME OutIInv, OutNext PROVE Promised
    OBVIOUS
  <2>1. ASSUME NEW r \in Readers, rpc[r] # "idle", rpc'[r] = "idle", ~ OutFileFails(r)
        PROVE  LET n == Len(got'[r]) - Len(got[r]) IN
               /\ n <= want[r]
               /\ rflag[r] = "ALL_BLOCKING" => n = want[r]
               /\ rflag[r] = "ANY_BLOCKING" => n > 0
               /\ n >= known[r] \/ n = want[r]
    <3> DEFINE stored == Len(mbox_data[r])
    <3>0. /\ stored \in Nat /\ want[r] \in Nat /\ known[r] \in Nat /\ Len(obox) \in Nat
          /\ got[r] \in Seq(Nat) /\ mbox_data[r] \in Seq(Nat)
      BY OutNumbers DEF OutIInv
    <3>1. OutUnlock(r) \/ FileDone(r) \/ OutAgain(r)
      <4>1. ~ SpeWrites BY <2>1 DEF SpeWrites
      <4>2. PICK s \in Readers :
              \/ \E f \in Behaviors, n \in 1 .. OutCount : OutRead(s, f, n)
              \/ OutStatus(s) \/ OutProgress(s) \/ OutFileFails(s)
        BY <4>1 DEF OutNext
      <4>3. ASSUME s # r PROVE FALSE
        BY <2>1, <4>2, <4>3 DEF OutIInv, OutTypeOK, OutRead, OutStatus, OutProgress, OutLock, Entries,
           GetWord, OutUnlock, FileWord, FileDone, OutAgain, OutFileFails, OutReturn, OutFail, OutGoto
      <4>4. \A f \in Behaviors, n \in 1 .. OutCount : ~ OutRead(r, f, n)
        BY <2>1 DEF OutRead
      <4>5. ~ OutStatus(r) BY <2>1 DEF OutStatus
      <4>6. ~ OutLock(r) /\ ~ Entries(r) /\ ~ GetWord(r) /\ ~ FileWord(r)
        BY <2>1 DEF OutIInv, OutTypeOK, OutLock, Entries, GetWord, FileWord, OutGoto
      <4> QED BY <2>1, <4>2, <4>3, <4>4, <4>5, <4>6 DEF OutProgress
    <3>2. OutReturn(r)
      BY <2>1, <3>1 DEF OutIInv, OutTypeOK, OutUnlock, FileDone, OutAgain, OutGoto
    <3>3. Len(got'[r]) - Len(got[r]) = stored
      <4>1. got'[r] = got[r] \o mbox_data[r] BY <3>2 DEF OutIInv, OutTypeOK, OutReturn
      <4>2. Len(got'[r]) = Len(got[r]) + stored /\ Len(got[r]) \in Nat
        BY <3>0, <4>1, ConcatProperties
      <4> QED BY <3>0, <4>2
    <3>4. stored <= want[r] /\ known[r] <= Len(obox) + stored
      BY <2>1 DEF OutIInv, Stored, KnownThere
    <3>5. ASSUME obox = <<>> \/ Enough(r) PROVE stored >= known[r] \/ stored = want[r]
      <4>1. obox = <<>> => Len(obox) = 0 OBVIOUS
      <4> QED BY <3>0, <3>4, <3>5, <4>1 DEF Enough
    <3> SUFFICES /\ rflag[r] = "ALL_BLOCKING" => stored = want[r]
                 /\ rflag[r] = "ANY_BLOCKING" => stored > 0
                 /\ stored >= known[r] \/ stored = want[r]
      BY <3>3, <3>4
    <3>6. CASE OutUnlock(r)
      <4>1. rflag[r] = "ANY_NONBLOCKING"
        BY <3>6 DEF OutIInv, Ways, Register, OutCritical, OutUnlock
      <4>2. Enough(r) \/ known[r] <= stored
        BY <3>6 DEF OutIInv, KnownThere, OutUnlock
      <4> QED BY <3>0, <4>1, <4>2 DEF Enough
    <3>7. CASE FileDone(r)
      <4>1. rpc[r] = "more" /\ (obox = <<>> \/ Enough(r)) BY <3>7 DEF FileDone
      <4>2. rflag[r] = "ALL_BLOCKING" => Enough(r)
        BY <2>1, <3>7 DEF OutIInv, OutTypeOK, FileDone, OutGoto
      <4>3. stored > 0
        <5>1. mbox_data[r] # <<>> BY <4>1 DEF OutIInv, Stored
        <5> QED BY <3>0, <5>1
      <4> QED BY <3>5, <4>1, <4>2, <4>3 DEF Enough
    <3>8. CASE OutAgain(r)
      <4>1. rflag[r] = "ANY_NONBLOCKING" /\ obox = <<>> BY <3>8 DEF OutAgain
      <4> QED BY <3>5, <4>1
    <3> QED BY <3>1, <3>6, <3>7, <3>8
  <2>2. ASSUME lost' # lost
        PROVE  \E r \in Readers : OutFileFails(r) /\ rflag[r] = "ALL_BLOCKING"
    <3>1. PICK r \in Readers : OutFileFails(r)
      BY <2>2 DEF OutNext, OutRead, OutStatus, OutProgress, OutLock, Entries, GetWord, OutUnlock,
         FileWord, FileDone, OutAgain, OutReturn, SpeWrites
    <3>2. lost' = lost \cup ToSet(mbox_data[r]) BY <3>1 DEF OutFileFails, OutFail
    <3>3. mbox_data[r] # <<>>
      <4>1. ToSet(<<>>) = {} BY DEF ToSet
      <4> QED BY <2>2, <3>2, <4>1
    <3>4. rflag[r] = "ALL_BLOCKING" BY <3>1, <3>3 DEF OutIInv, Stored, OutFileFails
    <3> QED BY <3>1, <3>4
  <2> QED BY <2>1, <2>2
<1> QED BY <1>1, OutInvariance, PTL DEF OutSpec, ReadsEnough
=============================================================================
