---------------------------- MODULE SegmentQueue ----------------------------
(***************************************************************************)
(* What TransferRingBuffer promises its two threads: a first-in-first-out  *)
(* queue of at most Limit segments, which the push thread closes when no   *)
(* further segment will come.                                              *)
(***************************************************************************)
EXTENDS Naturals, Sequences

CONSTANTS Limit, Item

VARIABLES queue, closed

Init ==
  /\ queue = << >>
  /\ closed = FALSE

Enqueue ==
  /\ ~closed
  /\ Len(queue) < Limit
  /\ \E v \in Item : queue' = Append(queue, v)
  /\ UNCHANGED closed

Dequeue ==
  /\ queue # << >>
  /\ queue' = Tail(queue)
  /\ UNCHANGED closed

Close ==
  /\ closed' = TRUE
  /\ UNCHANGED queue

Next == Enqueue \/ Dequeue \/ Close

Spec == Init /\ [][Next]_<<queue, closed>>
=============================================================================
