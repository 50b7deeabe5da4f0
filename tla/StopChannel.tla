---------------------------- MODULE StopChannel -----------------------------
(***************************************************************************)
(* What spe_context_run and spe_stop_info_read promise to each other about *)
(* the stop information of one SPE context, without locks, counters and    *)
(* descriptors.  The channel is a slot that keeps the last stop info, or,  *)
(* while it is open, a bounded queue.  A poster that found the channel     *)
(* open finishes its post before the channel may close.                    *)
(***************************************************************************)
EXTENDS Naturals, Sequences

CONSTANTS Threads, Capacity, None

VARIABLES mode, slot, queue, posting

channel == <<mode, slot, queue, posting>>

Init == mode = "slot" /\ slot = None /\ queue = <<>> /\ posting = {}

Open ==
  /\ mode = "slot"
  /\ mode' = "queue" /\ slot' = None /\ queue' = <<>>
  /\ UNCHANGED posting

Close ==
  /\ mode = "queue" /\ posting = {}
  /\ mode' = "slot" /\ queue' = <<>>
  /\ UNCHANGED <<slot, posting>>

PostSlot(t) ==
  /\ mode = "slot"
  /\ slot' = t
  /\ UNCHANGED <<mode, queue, posting>>

PostBegin(t) ==
  /\ mode = "queue" /\ t \notin posting
  /\ posting' = posting \cup {t}
  /\ UNCHANGED <<mode, slot, queue>>

\* A post ends in the queue, or is given up when the queue is full.
PostEnd(t) ==
  /\ t \in posting
  /\ posting' = posting \ {t}
  /\ \/ Len(queue) < Capacity /\ queue' = Append(queue, t)
     \/ Len(queue) = Capacity /\ queue' = queue
  /\ UNCHANGED <<mode, slot>>

Take ==
  \/ /\ mode = "slot" /\ slot' = None
     /\ UNCHANGED <<mode, queue, posting>>
  \/ /\ mode = "queue" /\ queue # <<>> /\ queue' = Tail(queue)
     /\ UNCHANGED <<mode, slot, posting>>

\* The context is destroyed, and another one created in its place.
Reset ==
  /\ posting = {}
  /\ mode' = "slot" /\ queue' = <<>> /\ slot' \in {slot, None}
  /\ UNCHANGED posting

Next ==
  \/ Open \/ Close \/ Take \/ Reset
  \/ \E t \in Threads : PostSlot(t) \/ PostBegin(t) \/ PostEnd(t)

Spec == Init /\ [][Next]_channel
=============================================================================
