---------------------------- MODULE BoundedFifo ----------------------------
(***************************************************************************)
(* What kernel/utils/queue.hpp promises its callers: a first-in first-out  *)
(* queue of at most Size messages whose operations report whether they     *)
(* took effect.  ArrayQueue implements it with a ring buffer.              *)
(***************************************************************************)
EXTENDS Naturals, Sequences

CONSTANTS Message,   \* the values a queue can hold
          Size       \* the capacity, maxSize()

VARIABLES items,     \* the queued messages, oldest first
          status     \* what the last operation returned

Init == items = <<>> /\ status = "SUCCESS"

Push(i) ==
    IF Len(items) = Size
    THEN status' = "FULL" /\ UNCHANGED items
    ELSE status' = "SUCCESS" /\ items' = Append(items, i)

Pop ==
    IF items = <<>>
    THEN status' = "EMPTY" /\ UNCHANGED items
    ELSE status' = "SUCCESS" /\ items' = Tail(items)

Next == Pop \/ \E i \in Message : Push(i)

Spec == Init /\ [][Next]_<<items, status>>
=============================================================================
