-------------------------- MODULE ArrayQueueSpec --------------------------
(***************************************************************************)
(* An ArrayQueue<T> used by one caller: any sequence of push and pop on a  *)
(* queue object, with the Status each call returns.                        *)
(***************************************************************************)
EXTENDS ArrayQueue

VARIABLES queue,     \* the queue object
          status     \* the Status returned by the last push or pop

vars == <<queue, status>>

Init == /\ queue \in {New(buf) : buf \in [Slots -> Message]}
        /\ status = "SUCCESS"

Push(i) == queue' = Pushed(queue, i) /\ status' = PushStatus(queue)

Pop == queue' = Popped(queue) /\ status' = PopStatus(queue)

Next == Pop \/ \E i \in Message : Push(i)

Spec == Init /\ [][Next]_vars
-----------------------------------------------------------------------------
\* The counters stay inside the array and the array holds only messages.
TypeOK == queue \in QueueType /\ status \in {"SUCCESS", "EMPTY", "FULL"}

\* The three counters of the class describe one region of the array: the
\* write position is count_ slots after the read position.  push maintains
\* two of the counters and pop the other two, in different members.
PositionsAgree == PositionsMatch(queue)

\* The ring buffer is a bounded FIFO: every push and pop of the class has
\* the effect and the Status of the same operation on a sequence, through
\* every wrap-around and at both limits.
Fifo == INSTANCE BoundedFifo WITH items <- Contents(queue)
ImplementsFifo == Fifo!Spec
=============================================================================
