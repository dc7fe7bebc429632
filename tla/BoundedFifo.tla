---------------------------- MODULE BoundedFifo ----------------------------
(***************************************************************************)
(* What a circular buffer promises its users (kernel/util/circular.c): a   *)
(* bounded first-in first-out queue.  An insertion that does not wait is   *)
(* refused only when the queue is full.                                    *)
(***************************************************************************)
EXTENDS Naturals, Sequences

CONSTANTS Tasks, Elements, Capacity, Refused

VARIABLES fifo,  \* the elements, oldest first
          last   \* <<task, element>> of the last operation, Refused if it failed

Init ==
  /\ fifo = << >>
  /\ last = << >>

Insert(t, e) ==
  /\ Len(fifo) < Capacity
  /\ fifo' = Append(fifo, e)
  /\ last' = <<t, e>>

Refuse(t) ==
  /\ Len(fifo) = Capacity
  /\ last' = <<t, Refused>>
  /\ UNCHANGED fifo

Remove(t) ==
  /\ fifo # << >>
  /\ last' = <<t, Head(fifo)>>
  /\ fifo' = Tail(fifo)

Next == \E t \in Tasks : (\E e \in Elements : Insert(t, e)) \/ Refuse(t) \/ Remove(t)

Spec == Init /\ [][Next]_<<fifo, last>>
=============================================================================
