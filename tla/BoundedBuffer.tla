--------------------------- MODULE BoundedBuffer ---------------------------
(***************************************************************************)
(* What a mailbox promises (src/spebase/spebase.h, _base_spe_in_mbox_write *)
(* and _base_spe_in_mbox_status): a queue of at most Depth words.  A write *)
(* appends one or more words, an entry that was written stays until it is  *)
(* read, and the oldest entry is read first.                               *)
(***************************************************************************)
EXTENDS Naturals, Sequences

CONSTANT Depth

VARIABLES buf, out

Init == buf = <<>> /\ out = <<>>

Put ==
  /\ Len(buf) < Len(buf') /\ Len(buf') <= Depth
  /\ \A i \in 1 .. Len(buf) : buf'[i] = buf[i]
  /\ UNCHANGED out

Take ==
  /\ buf # <<>>
  /\ out' = Append(out, Head(buf))
  /\ buf' = Tail(buf)

Next == Put \/ Take

Spec == Init /\ [][Next]_<<buf, out>>
=============================================================================
