---------------------------- MODULE ArrayQueue ----------------------------
(***************************************************************************)
(* ArrayQueue<T> of kernel/utils/queue.hpp: a ring buffer over an array    *)
(* that the caller owns.  The queue object is the record q, with the       *)
(* fields of the class; the operators below are its member functions.      *)
(***************************************************************************)
EXTENDS Naturals

CONSTANTS Message,   \* the template parameter T
          Size       \* size_, the length of the caller's array

\* kernelMain passes an array of 100 messages; readPos_ % size_ is never
\* evaluated for an empty array because push returns FULL before it.
ASSUME SizeAssumption == Size \in Nat \ {0}

Slots == 0 .. Size - 1

QueueType == [data : [Slots -> Message], readPos : Slots,
              writePos : Slots, count : 0 .. Size]

\* Mutant: push and pop step to the next slot without wrapping around.
AdvanceSaturating(p) == IF p + 1 = Size THEN p ELSE p + 1

\* The position after p, with the wrap-around of push and pop.
Advance(p) == (p + 1) % Size

\* The constructor; buf holds whatever the caller's array held.
New(buf) == [data |-> buf, readPos |-> 0, writePos |-> 0, count |-> 0]

\* Mutant: the FULL test of push is off by one.
PushedPastLimit(q, i) ==
    IF q.count > Size
    THEN q
    ELSE [q EXCEPT !.data[q.writePos] = i,
                   !.writePos = Advance(@),
                   !.count = @ + 1]

\* Mutant: pop forgets to give the slot back.
PoppedKeepingCount(q) ==
    IF q.count = 0 THEN q ELSE [q EXCEPT !.readPos = Advance(@)]

\* push: a full queue is left alone and the caller is told FULL.
PushStatus(q) == IF q.count = Size THEN "FULL" ELSE "SUCCESS"

Pushed(q, i) ==
    IF q.count = Size
    THEN q
    ELSE [q EXCEPT !.data[q.writePos] = i,
                   !.writePos = Advance(@),
                   !.count = @ + 1]

\* pop: an empty queue is left alone and the caller is told EMPTY.
PopStatus(q) == IF q.count = 0 THEN "EMPTY" ELSE "SUCCESS"

Popped(q) ==
    IF q.count = 0
    THEN q
    ELSE [q EXCEPT !.readPos = Advance(@), !.count = @ - 1]

\* get(): the slot at readPos_, whatever it holds when the queue is empty.
Get(q) == q.data[q.readPos]

\* The slot j places after the read position.
SlotAt(q, j) == (q.readPos + j) % Size

\* The messages a queue holds, oldest first.
Contents(q) == [k \in 1 .. q.count |-> q.data[SlotAt(q, k - 1)]]

\* The three counters describe one region of the array: the write position
\* is count_ slots after the read position.
PositionsMatch(q) == q.writePos = SlotAt(q, q.count)
=============================================================================
