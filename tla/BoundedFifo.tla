----------------------------- MODULE BoundedFifo -----------------------------
(***************************************************************************)
(* What buffer.h promises its users (the comment in lines 26-40): a FIFO   *)
(* of at most Capacity elements.  `fifo' is the content, `got' the element *)
(* the reader received last.  RingBuffer implements this specification.    *)
(***************************************************************************)
EXTENDS Naturals, Sequences

CONSTANTS Data,      \* the elements
          Capacity   \* most elements held at once

VARIABLES fifo, got
vars == <<fifo, got>>

Init ==
  /\ fifo = <<>>
  /\ got \in Data

Enqueue ==
  /\ Len(fifo) < Capacity
  /\ \E d \in Data : fifo' = Append(fifo, d)
  /\ UNCHANGED got

Dequeue ==
  /\ fifo # <<>>
  /\ got' = Head(fifo)
  /\ fifo' = Tail(fifo)

(* The writer throws the content away. *)
Flush ==
  /\ fifo' = <<>>
  /\ UNCHANGED got

(* The writer throws the oldest element away. *)
Discard ==
  /\ fifo # <<>>
  /\ fifo' = Tail(fifo)
  /\ UNCHANGED got

Next == Enqueue \/ Dequeue \/ Flush \/ Discard

Spec == Init /\ [][Next]_vars
=============================================================================
