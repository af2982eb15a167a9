------------------------- MODULE ArrayQueueProofs -------------------------
(***************************************************************************)
(* The lemmas about the member functions of ArrayQueue, and the theorems   *)
(* of ArrayQueueSpec: types, agreement of the counters, and the refinement *)
(* of BoundedFifo, for every capacity and message type.  WrapOnce and      *)
(* AdvanceInSlots reduce % to a case distinction; SlotsApart says that the *)
(* Size slots reached from one position are different, which is why a push *)
(* never lands on a message still queued.                                  *)
(***************************************************************************)
EXTENDS ArrayQueueSpec, SequenceTheorems, TLAPS

\* Taking a number below twice the capacity modulo the capacity subtracts
\* the capacity at most once.
LEMMA WrapOnce ==
    ASSUME NEW n \in 0 .. 2 * Size - 1
    PROVE  n % Size = IF n < Size THEN n ELSE n - Size
  BY SizeAssumption

\* Advance stays inside the array (the readPos_/writePos_ update of
\* queue.hpp).
LEMMA AdvanceInSlots ==
    ASSUME NEW p \in Slots
    PROVE  /\ Advance(p) \in Slots
           /\ Advance(p) = IF p + 1 = Size THEN 0 ELSE p + 1
  BY SizeAssumption, WrapOnce DEF Slots, Advance

\* The slot j places after position r, without %.
LEMMA OffsetWrap ==
    ASSUME NEW r \in Slots, NEW j \in 0 .. Size
    PROVE  (r + j) % Size = IF r + j < Size THEN r + j ELSE r + j - Size
<1>1. r + j \in 0 .. 2 * Size - 1
  BY SizeAssumption DEF Slots
<1>2. /\ r \in Int /\ j \in Int /\ Size \in Nat \ {0}
      /\ \A n \in 0 .. 2 * Size - 1 :
           n % Size = IF n < Size THEN n ELSE n - Size
  BY WrapOnce, SizeAssumption DEF Slots
<1>3. QED
  BY <1>1, <1>2

\* A slot reached from the read position of a queue, without %.
LEMMA SlotAtWrap ==
    ASSUME NEW q \in QueueType, NEW j \in 0 .. Size
    PROVE  /\ SlotAt(q, j) \in Slots
           /\ SlotAt(q, j) = IF q.readPos + j < Size
                             THEN q.readPos + j
                             ELSE q.readPos + j - Size
<1>1. q.readPos \in Slots
  BY DEF QueueType
<1>2. SlotAt(q, j) = IF q.readPos + j < Size
                     THEN q.readPos + j
                     ELSE q.readPos + j - Size
  BY <1>1, OffsetWrap DEF SlotAt
<1>3. QED
  BY <1>1, <1>2, SizeAssumption DEF Slots

\* Different offsets below the capacity are different slots: the slot that
\* push writes is none of the slots that hold queued messages.
LEMMA SlotsApart ==
    ASSUME NEW q \in QueueType,
           NEW j \in 0 .. Size - 1, NEW k \in 0 .. Size - 1,
           j # k
    PROVE  SlotAt(q, j) # SlotAt(q, k)
<1>1. q.readPos \in 0 .. Size - 1
  BY DEF QueueType, Slots
<1>2. QED
  BY <1>1, SlotAtWrap, SizeAssumption

\* push keeps the queue object well formed.
LEMMA PushedType ==
    ASSUME NEW q \in QueueType, NEW i \in Message
    PROVE  Pushed(q, i) \in QueueType
<1>1. CASE q.count = Size
  BY <1>1 DEF Pushed
<1>2. CASE q.count # Size
  <2>1. q.count + 1 \in 0 .. Size
    BY <1>2, SizeAssumption DEF QueueType
  <2>2. Advance(q.writePos) \in Slots
    BY AdvanceInSlots DEF QueueType
  <2>3. [q.data EXCEPT ![q.writePos] = i] \in [Slots -> Message]
    BY DEF QueueType
  <2>4. QED
    BY <1>2, <2>1, <2>2, <2>3 DEF Pushed, QueueType
<1>3. QED
  BY <1>1, <1>2

\* pop keeps the queue object well formed.
LEMMA PoppedType ==
    ASSUME NEW q \in QueueType
    PROVE  Popped(q) \in QueueType
<1>1. CASE q.count = 0
  BY <1>1 DEF Popped
<1>2. CASE q.count # 0
  <2>1. q.count - 1 \in 0 .. Size
    BY <1>2, SizeAssumption DEF QueueType
  <2>2. Advance(q.readPos) \in Slots
    BY AdvanceInSlots DEF QueueType
  <2>3. QED
    BY <1>2, <2>1, <2>2 DEF Popped, QueueType
<1>3. QED
  BY <1>1, <1>2

\* An empty queue's positions match (the constructor).
LEMMA NewPositions ==
    ASSUME NEW buf
    PROVE  PositionsMatch(New(buf))
  BY SizeAssumption DEF PositionsMatch, SlotAt, New

\* pop keeps the write position count_ slots after the read position.
LEMMA PoppedPositions ==
    ASSUME NEW q \in QueueType, PositionsMatch(q)
    PROVE  PositionsMatch(Popped(q))
<1> DEFINE r == Popped(q)
<1>1. CASE q.count = 0
  BY <1>1 DEF Popped
<1>2. CASE q.count # 0
  <2>1. /\ r.readPos = Advance(q.readPos)
        /\ r.writePos = q.writePos
        /\ r.count = q.count - 1
        /\ r \in QueueType
    BY <1>2, PoppedType DEF Popped, QueueType
  <2>2. q.readPos \in Slots /\ q.count \in 0 .. Size /\ q.count - 1 \in 0 .. Size
    BY <1>2, SizeAssumption DEF QueueType
  <2>3. SlotAt(r, q.count - 1)
          = IF r.readPos + (q.count - 1) < Size
            THEN r.readPos + (q.count - 1)
            ELSE r.readPos + (q.count - 1) - Size
    BY <2>1, <2>2, SlotAtWrap
  <2>4. r.readPos = IF q.readPos + 1 = Size THEN 0 ELSE q.readPos + 1
    BY <2>1, <2>2, AdvanceInSlots
  <2>5. SlotAt(q, q.count) = IF q.readPos + q.count < Size
                             THEN q.readPos + q.count
                             ELSE q.readPos + q.count - Size
    BY <2>2, SlotAtWrap
  <2>6. SlotAt(r, r.count) = SlotAt(q, q.count)
    BY <1>2, <2>1, <2>2, <2>3, <2>4, <2>5, SizeAssumption DEF Slots
  <2>7. QED
    BY <2>1, <2>6 DEF PositionsMatch
<1>3. QED
  BY <1>1, <1>2

\* push keeps the write position count_ slots after the read position.
LEMMA PushedPositions ==
    ASSUME NEW q \in QueueType, NEW i \in Message, PositionsMatch(q)
    PROVE  PositionsMatch(Pushed(q, i))
<1> DEFINE r == Pushed(q, i)
<1>1. CASE q.count = Size
  BY <1>1 DEF Pushed
<1>2. CASE q.count # Size
  <2>1. /\ r.readPos = q.readPos
        /\ r.writePos = Advance(q.writePos)
        /\ r.count = q.count + 1
        /\ r \in QueueType
    BY <1>2, PushedType DEF Pushed, QueueType
  <2>2. /\ q.readPos \in Slots
        /\ q.writePos \in Slots
        /\ q.count \in 0 .. Size
        /\ q.count + 1 \in 0 .. Size
    BY <1>2, SizeAssumption DEF QueueType
  <2>3. SlotAt(r, q.count + 1)
          = IF r.readPos + (q.count + 1) < Size
            THEN r.readPos + (q.count + 1)
            ELSE r.readPos + (q.count + 1) - Size
    BY <2>1, <2>2, SlotAtWrap
  <2>4. Advance(q.writePos) = IF q.writePos + 1 = Size
                              THEN 0 ELSE q.writePos + 1
    BY <2>2, AdvanceInSlots
  <2>5. q.writePos = IF q.readPos + q.count < Size
                     THEN q.readPos + q.count
                     ELSE q.readPos + q.count - Size
    BY <2>2, SlotAtWrap DEF PositionsMatch
  <2>6. SlotAt(r, r.count) = Advance(q.writePos)
    BY <1>2, <2>1, <2>2, <2>3, <2>4, <2>5, SizeAssumption DEF Slots
  <2>7. QED
    BY <2>1, <2>6 DEF PositionsMatch
<1>3. QED
  BY <1>1, <1>2

\* Contents of a well-formed queue is a sequence of count messages.
LEMMA ContentsSeq ==
    ASSUME NEW q \in QueueType
    PROVE  /\ Contents(q) \in Seq(Message)
           /\ Len(Contents(q)) = q.count
           /\ \A k \in 1 .. q.count : Contents(q)[k] = q.data[SlotAt(q, k - 1)]
<1>1. q.count \in Nat
  BY SizeAssumption DEF QueueType
<1>2. ASSUME NEW k \in 1 .. q.count
      PROVE  q.data[SlotAt(q, k - 1)] \in Message
  <2>1. k - 1 \in 0 .. Size
    BY SizeAssumption DEF QueueType
  <2>2. SlotAt(q, k - 1) \in Slots
    BY <2>1, SlotAtWrap
  <2>3. QED
    BY <2>2 DEF QueueType
<1>3. Contents(q) \in [1 .. q.count -> Message]
  BY <1>2 DEF Contents
<1>4. Contents(q) \in Seq(Message)
  BY <1>1, <1>3, SeqDef
<1>5. Len(Contents(q)) = q.count
  BY <1>1, <1>4, LenProperties DEF Contents
<1>6. QED
  BY <1>4, <1>5 DEF Contents

\* push appends to the contents: the slot it writes is not one of the count
\* slots already in use.
LEMMA PushAppends ==
    ASSUME NEW q \in QueueType, NEW i \in Message,
           q.count # Size, PositionsMatch(q)
    PROVE  Contents(Pushed(q, i)) = Append(Contents(q), i)
<1> DEFINE r == Pushed(q, i)
<1>1. /\ r \in QueueType
      /\ r.data = [q.data EXCEPT ![q.writePos] = i]
      /\ r.readPos = q.readPos
      /\ r.count = q.count + 1
  BY PushedType DEF Pushed, QueueType
<1>2. q.count \in 0 .. Size - 1
  BY SizeAssumption DEF QueueType
<1>3. /\ Append(Contents(q), i) \in Seq(Message)
      /\ Len(Append(Contents(q), i)) = q.count + 1
      /\ \A k \in 1 .. q.count :
            Append(Contents(q), i)[k] = Contents(q)[k]
      /\ Append(Contents(q), i)[q.count + 1] = i
  BY ContentsSeq, AppendProperties
<1>4. ASSUME NEW k \in 1 .. q.count + 1
      PROVE  Contents(r)[k] = Append(Contents(q), i)[k]
  <2>1. Contents(r)[k] = r.data[SlotAt(r, k - 1)]
    BY <1>1, <1>2, ContentsSeq
  <2>2. SlotAt(r, k - 1) = SlotAt(q, k - 1)
    BY <1>1 DEF SlotAt
  <2>3. k - 1 \in 0 .. Size - 1 /\ k - 1 \in 0 .. Size
    BY <1>2, SizeAssumption
  <2>4. SlotAt(q, k - 1) \in Slots /\ q.data \in [Slots -> Message]
    BY <2>3, SlotAtWrap DEF QueueType
  <2>5. CASE k = q.count + 1
    <3>1. SlotAt(q, k - 1) = q.writePos
      BY <1>2, <2>5 DEF PositionsMatch
    <3>2. QED
      BY <1>1, <1>3, <2>1, <2>2, <2>4, <2>5, <3>1
  <2>6. CASE k # q.count + 1
    <3>1. k \in 1 .. q.count /\ k - 1 # q.count
      BY <1>2, <2>6
    <3>2. SlotAt(q, k - 1) # q.writePos
      BY <1>2, <2>3, <3>1, SlotsApart DEF PositionsMatch
    <3>3. r.data[SlotAt(q, k - 1)] = q.data[SlotAt(q, k - 1)]
      BY <1>1, <2>4, <3>2
    <3>4. QED
      BY <1>3, <2>1, <2>2, <3>1, <3>3, ContentsSeq
  <2>7. QED
    BY <2>5, <2>6
<1>5. Contents(r) \in Seq(Message) /\ Len(Contents(r)) = q.count + 1
  BY <1>1, ContentsSeq
<1>6. QED
  BY <1>3, <1>4, <1>5, SeqEqual

\* pop removes the oldest message from the contents.
LEMMA PopTakesOldest ==
    ASSUME NEW q \in QueueType, q.count # 0
    PROVE  Contents(Popped(q)) = Tail(Contents(q))
<1> DEFINE r == Popped(q)
<1>1. /\ r \in QueueType
      /\ r.data = q.data
      /\ r.readPos = Advance(q.readPos)
      /\ r.count = q.count - 1
  BY PoppedType DEF Popped, QueueType
<1>2. q.count \in 1 .. Size /\ q.readPos \in Slots
  BY SizeAssumption DEF QueueType
<1>3. Contents(q) \in Seq(Message) /\ Contents(q) # << >>
  BY <1>2, ContentsSeq, EmptySeq
<1>4. /\ Tail(Contents(q)) \in Seq(Message)
      /\ Len(Tail(Contents(q))) = q.count - 1
      /\ \A k \in 1 .. q.count - 1 :
            Tail(Contents(q))[k] = Contents(q)[k + 1]
  BY <1>3, ContentsSeq, HeadTailProperties
<1>5. ASSUME NEW k \in 1 .. q.count - 1
      PROVE  Contents(r)[k] = Tail(Contents(q))[k]
  <2>1. Contents(r)[k] = q.data[SlotAt(r, k - 1)]
    BY <1>1, ContentsSeq
  <2>2. k \in 0 .. Size /\ k - 1 \in 0 .. Size /\ k + 1 \in 1 .. q.count
    BY <1>2, SizeAssumption
  <2>3. SlotAt(r, k - 1) = SlotAt(q, k)
    <3>1. SlotAt(r, k - 1) = IF r.readPos + (k - 1) < Size
                             THEN r.readPos + (k - 1)
                             ELSE r.readPos + (k - 1) - Size
      BY <1>1, <2>2, SlotAtWrap
    <3>2. SlotAt(q, k) = IF q.readPos + k < Size
                         THEN q.readPos + k ELSE q.readPos + k - Size
      BY <2>2, SlotAtWrap
    <3>3. r.readPos = IF q.readPos + 1 = Size THEN 0 ELSE q.readPos + 1
      BY <1>1, <1>2, AdvanceInSlots
    <3>4. QED
      BY <1>2, <2>2, <3>1, <3>2, <3>3, SizeAssumption DEF Slots
  <2>4. Contents(q)[k + 1] = q.data[SlotAt(q, (k + 1) - 1)]
    BY <2>2, ContentsSeq
  <2>5. (k + 1) - 1 = k
    BY <1>2
  <2>6. QED
    BY <1>4, <2>1, <2>3, <2>4, <2>5
<1>6. Contents(r) \in Seq(Message) /\ Len(Contents(r)) = q.count - 1
  BY <1>1, ContentsSeq
<1>7. QED
  BY <1>4, <1>5, <1>6, SeqEqual
-----------------------------------------------------------------------------
\* Every reachable queue object has its positions inside the array and a
\* count between zero and the capacity.
THEOREM TypeCorrect == Spec => []TypeOK
<1>1. Init => TypeOK
  BY SizeAssumption DEF Init, New, TypeOK, QueueType, Slots
<1>2. TypeOK /\ [Next]_vars => TypeOK'
  <2> SUFFICES ASSUME TypeOK, [Next]_vars PROVE TypeOK'
    OBVIOUS
  <2>1. CASE Pop
    BY <2>1, PoppedType DEF Pop, TypeOK, PopStatus
  <2>2. ASSUME NEW i \in Message, Push(i) PROVE TypeOK'
    BY <2>2, PushedType DEF Push, TypeOK, PushStatus
  <2>3. CASE UNCHANGED vars
    BY <2>3 DEF vars, TypeOK
  <2>4. QED
    BY <2>1, <2>2, <2>3 DEF Next
<1>3. QED
  BY <1>1, <1>2, PTL DEF Spec

\* The write position always lies count_ slots after the read position,
\* although push and pop update different counters of the class.
THEOREM PositionsCorrect == Spec => []PositionsAgree
<1>1. Init => PositionsAgree
  BY NewPositions DEF Init, PositionsAgree
<1>2. TypeOK /\ PositionsAgree /\ [Next]_vars => PositionsAgree'
  <2> SUFFICES ASSUME TypeOK, PositionsAgree, [Next]_vars
               PROVE  PositionsAgree'
    OBVIOUS
  <2>1. CASE Pop
    BY <2>1, PoppedPositions DEF Pop, PositionsAgree, TypeOK
  <2>2. ASSUME NEW i \in Message, Push(i) PROVE PositionsAgree'
    BY <2>2, PushedPositions DEF Push, PositionsAgree, TypeOK
  <2>3. CASE UNCHANGED vars
    BY <2>3 DEF vars, PositionsAgree
  <2>4. QED
    BY <2>1, <2>2, <2>3 DEF Next
<1>3. QED
  BY <1>1, <1>2, TypeCorrect, PTL DEF Spec

\* The ring buffer implements the bounded FIFO queue, for every capacity:
\* each call has the effect and the Status the sequence operation has.
THEOREM RingImplementsFifo == Spec => ImplementsFifo
<1>1. Init => Fifo!Init
  <2> SUFFICES ASSUME Init PROVE Fifo!Init
    OBVIOUS
  <2>1. queue.count = 0 /\ status = "SUCCESS" /\ queue \in QueueType
    BY SizeAssumption DEF Init, New, QueueType, Slots
  <2>2. Contents(queue) = << >>
    BY <2>1, ContentsSeq, EmptySeq
  <2>3. QED
    BY <2>1, <2>2 DEF Fifo!Init
<1>2. TypeOK /\ PositionsAgree /\ [Next]_vars
        => [Fifo!Next]_<<Contents(queue), status>>
  <2> SUFFICES ASSUME TypeOK, PositionsAgree, [Next]_vars
               PROVE  [Fifo!Next]_<<Contents(queue), status>>
    OBVIOUS
  <2>0. /\ queue \in QueueType
        /\ Len(Contents(queue)) = queue.count
        /\ Contents(queue) \in Seq(Message)
        /\ queue.count \in Nat
    BY ContentsSeq, SizeAssumption DEF TypeOK, QueueType
  <2>1. CASE Pop
    <3>1. CASE queue.count = 0
      BY <2>0, <2>1, <3>1, EmptySeq
         DEF Pop, Popped, PopStatus, Fifo!Next, Fifo!Pop
    <3>2. CASE queue.count # 0
      <4>1. Contents(queue) # << >>
        BY <2>0, <3>2, EmptySeq
      <4>2. Contents(queue)' = Tail(Contents(queue)) /\ status' = "SUCCESS"
        BY <2>0, <2>1, <3>2, PopTakesOldest DEF Pop, PopStatus
      <4>3. QED
        BY <4>1, <4>2 DEF Fifo!Next, Fifo!Pop
    <3>3. QED
      BY <3>1, <3>2
  <2>2. ASSUME NEW i \in Message, Push(i)
        PROVE  [Fifo!Next]_<<Contents(queue), status>>
    <3>1. CASE queue.count = Size
      BY <2>0, <2>2, <3>1
         DEF Push, Pushed, PushStatus, Fifo!Next, Fifo!Push
    <3>2. CASE queue.count # Size
      <4>1. Contents(queue)' = Append(Contents(queue), i)
        BY <2>0, <2>2, <3>2, PushAppends DEF Push, PositionsAgree
      <4>2. status' = "SUCCESS"
        BY <2>2, <3>2 DEF Push, PushStatus
      <4>3. QED
        BY <2>0, <3>2, <4>1, <4>2 DEF Fifo!Next, Fifo!Push
    <3>3. QED
      BY <3>1, <3>2
  <2>3. CASE UNCHANGED vars
    BY <2>3 DEF vars
  <2>4. QED
    BY <2>1, <2>2, <2>3 DEF Next
<1>3. QED
  BY <1>1, <1>2, TypeCorrect, PositionsCorrect, PTL
     DEF Spec, ImplementsFifo, Fifo!Spec
=============================================================================
