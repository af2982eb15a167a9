-------------------------- MODULE EventLoopProofs --------------------------
(***************************************************************************)
(* Proofs about EventLoop, for every queue size, every number of packets   *)
(* and keys, and both kinds of controller and of interrupt delivery.       *)
(***************************************************************************)
EXTENDS EventLoop, SequenceTheorems, TLAPS

\* The lemmas about the queue's member functions, which do not depend on the
\* variables of the module that proves them.
Queue == INSTANCE ArrayQueueProofs WITH queue <- mainQueue,
                                        status <- PopStatus(mainQueue)

\* A position of the main queue that advances stays inside the array.
LEMMA AdvanceInSlots ==
    ASSUME NEW p \in Slots
    PROVE  Advance(p) \in Slots
  BY SizeAssumption, Queue!AdvanceInSlots
     DEF Slots, Advance, Queue!Slots, Queue!Advance

\* A new main queue's positions match.
LEMMA NewPositions ==
    ASSUME NEW buf
    PROVE  PositionsMatch(New(buf))
  BY SizeAssumption, Queue!NewPositions
     DEF PositionsMatch, SlotAt, New,
         Queue!PositionsMatch, Queue!SlotAt, Queue!New

\* A push keeps the main queue well formed.
LEMMA PushedType ==
    ASSUME NEW q \in QueueType, NEW i \in Message
    PROVE  Pushed(q, i) \in QueueType
  BY SizeAssumption, Queue!PushedType
     DEF QueueType, Slots, Pushed, Advance,
         Queue!QueueType, Queue!Slots, Queue!Pushed, Queue!Advance

\* A push keeps the main queue's positions matching.
LEMMA PushedPositions ==
    ASSUME NEW q \in QueueType, NEW i \in Message, PositionsMatch(q)
    PROVE  PositionsMatch(Pushed(q, i))
  BY SizeAssumption, Queue!PushedPositions
     DEF QueueType, Slots, Pushed, Advance, PositionsMatch, SlotAt,
         Queue!QueueType, Queue!Slots, Queue!Pushed, Queue!Advance,
         Queue!PositionsMatch, Queue!SlotAt

\* A pop keeps the main queue's positions matching.
LEMMA PoppedPositions ==
    ASSUME NEW q \in QueueType, PositionsMatch(q)
    PROVE  PositionsMatch(Popped(q))
  BY SizeAssumption, Queue!PoppedPositions
     DEF QueueType, Slots, Popped, Advance, PositionsMatch, SlotAt,
         Queue!QueueType, Queue!Slots, Queue!Popped, Queue!Advance,
         Queue!PositionsMatch, Queue!SlotAt

\* The half-done pop holds a positive count, so the count it writes back is
\* still a count.
TypeInv == TypeOK /\ (pc = "popStore" => reg.count > 0)

\* The initial state is of the type.
LEMMA TypeInit == Init => TypeInv
<1> SUFFICES ASSUME Init PROVE TypeInv
  OBVIOUS
<1>1. mainQueue \in QueueType
  BY SizeAssumption, EventLoopAssumption
     DEF Init, New, QueueType, Slots
<1>2. moves \in Seq(Bytes \X Bytes \X Bytes)
  BY DEF Init
<1>3. pic \in PicType /\ ob \in BufferType
  BY DEF Init, PicType, BufferType, Bytes
<1>4. reg \in [count : 0 .. Size, flg : Bytes, x : Bytes]
  BY SizeAssumption DEF Init, Bytes
<1>5. QED
  BY <1>1, <1>2, <1>3, <1>4, EventLoopAssumption
     DEF Init, TypeInv, TypeOK, BootPc

\* A read of the data port takes the oldest byte, if there is one.
LEMMA ReadPortType ==
    ASSUME TypeOK, ReadPort
    PROVE  /\ ob' \in BufferType /\ pic' \in PicType
           /\ isr' \in {"idle", "push", "eoi1", "eoi2", "iret", "dead"}
  BY DEF TypeOK, ReadPort, BufferType, PicType

\* The kernel stays on the machine it was started on.
LEMMA MachineStep == [Next]_vars => hw' = hw
  BY DEF Next, KernelStep, Boot, Loop, Process, Handler, Fill, vars,
         LoadIDT, SetIDTEntry, Remap, MaskAll, EnableCascade, EnableMouse,
         Cli, Check, StiHlt, GetMessage, PopLoad, PopStore, Sti,
         ReadStatus, ReadFlg, ReadX, ReadY, DrainStatus, DrainRead,
         Interrupt, HandlerPush, HandlerEoi1, HandlerEoi2, HandlerReturn,
         FillMouse, FillKey, MouseMove, KeyPress

\* Every step keeps the type.
LEMMA TypeStep == TypeInv /\ [Next]_vars => TypeInv'
<1> SUFFICES ASSUME TypeInv, [Next]_vars PROVE TypeInv'
  OBVIOUS
<1>0. /\ ob.byte \in Bytes
      /\ mouse \in [sent : 0 .. 3 * MaxPackets, taken : 0 .. 3 * MaxPackets]
      /\ keys \in [sent : 0 .. MaxKeys, taken : 0 .. MaxKeys]
  BY DEF TypeInv, TypeOK, BufferType
<1> USE DEF TypeInv, TypeOK, BootPc, LoopPc, ProcessPc, At, devices, cpu
<1>1. CASE Boot
  <2>1. CASE LoadIDT \/ SetIDTEntry
    BY <2>1 DEF LoadIDT, SetIDTEntry
  <2>2. CASE Remap \/ MaskAll \/ EnableCascade \/ EnableMouse
    <3>1. pic' \in PicType
      <4>0. CASE Remap
        BY <4>0 DEF PicType, Remap
      <4>1. CASE MaskAll
        BY <4>1 DEF PicType, MaskAll
      <4>2. CASE EnableCascade
        BY <4>2 DEF PicType, EnableCascade
      <4>3. CASE EnableMouse
        BY <4>3 DEF PicType, EnableMouse
      <4>4. QED
        BY <2>2, <4>0, <4>1, <4>2, <4>3
    <3>2. QED
      BY <2>2, <3>1 DEF Remap, MaskAll, EnableCascade, EnableMouse
  <2>3. QED
    BY <1>1, <2>1, <2>2 DEF Boot
<1>2. CASE Loop
  <2>1. CASE PopStore
    <3>1. mainQueue' \in QueueType
      <4>1. mainQueue.readPos \in Slots /\ reg.count - 1 \in 0 .. Size
        BY <2>1, SizeAssumption DEF PopStore, QueueType
      <4>2. Advance(mainQueue.readPos) \in Slots
        BY <4>1, AdvanceInSlots
      <4>3. QED
        BY <2>1, <4>1, <4>2 DEF PopStore, QueueType
    <3>2. QED
      BY <2>1, <3>1 DEF PopStore
  <2>2. CASE PopLoad
    BY <2>2, SizeAssumption DEF PopLoad, QueueType
  <2>3. QED
    BY <1>2, <2>1, <2>2 DEF Loop, Cli, Check, StiHlt, GetMessage, Sti
<1>3. CASE Process
  <2>1. CASE ReadStatus \/ DrainStatus
    BY <2>1 DEF ReadStatus, DrainStatus
  <2>2. CASE ReadFlg
    BY <1>0, <2>2, ReadPortType DEF ReadFlg, InByte
  <2>3. CASE ReadX
    BY <1>0, <2>3, ReadPortType DEF ReadX, InByte
  <2>4. CASE ReadY
    <3>1. moves' \in Seq(Bytes \X Bytes \X Bytes)
      <4>1. <<reg.flg, reg.x, InByte>> \in Bytes \X Bytes \X Bytes
        BY <1>0 DEF InByte
      <4>2. QED
        BY <2>4, <4>1, AppendProperties DEF ReadY
    <3>2. QED
      BY <2>4, <3>1, ReadPortType DEF ReadY
  <2>5. CASE DrainRead
    BY <2>5, ReadPortType DEF DrainRead
  <2>6. QED
    BY <1>3, <2>1, <2>2, <2>3, <2>4, <2>5 DEF Process
<1>4. CASE Interrupt
  <2>1. pic' \in PicType
    BY <1>4 DEF Interrupt, PicType
  <2>2. QED
    BY <1>4, <2>1 DEF Interrupt
<1>5. CASE Handler
  <2>1. CASE HandlerPush
    <3>1. mainQueue' \in QueueType
      BY <2>1, PushedType, EventLoopAssumption DEF HandlerPush
    <3>2. QED
      BY <2>1, <3>1 DEF HandlerPush
  <2>2. CASE HandlerEoi1 \/ HandlerEoi2 \/ HandlerReturn
    <3>1. pic' \in PicType
      <4>1. CASE HandlerEoi1
        BY <4>1 DEF HandlerEoi1, PicType
      <4>2. CASE HandlerEoi2
        BY <4>2 DEF HandlerEoi2, PicType
      <4>3. CASE HandlerReturn
        BY <4>3 DEF HandlerReturn
      <4>4. QED
        BY <2>2, <4>1, <4>2, <4>3
    <3>2. QED
      BY <2>2, <3>1 DEF HandlerEoi1, HandlerEoi2, HandlerReturn
  <2>3. QED
    BY <1>5, <2>1, <2>2 DEF Handler
<1>6. CASE Fill
  <2>1. pic' \in PicType
    BY <1>6 DEF Fill, FillMouse, FillKey, PicType
  <2>2. CASE FillMouse
    <3>1. /\ mouse.taken + 1 \in 1 .. 3 * MaxPackets
          /\ mouse.taken + 1 \in 0 .. 3 * MaxPackets
          /\ mouse.taken + 1 <= mouse.sent
      BY <1>0, <2>2, EventLoopAssumption DEF FillMouse
    <3>2. ob' \in BufferType
      BY <2>2, <3>1 DEF FillMouse, BufferType, Bytes, MouseBytes
    <3>3. /\ mouse' \in [sent : 0 .. 3 * MaxPackets, taken : 0 .. 3 * MaxPackets]
          /\ mouse'.taken <= mouse'.sent
      BY <1>0, <2>2, <3>1 DEF FillMouse
    <3>4. QED
      BY <2>1, <2>2, <3>2, <3>3 DEF FillMouse
  <2>3. CASE FillKey
    <3>0. keys.taken + 1 \in 0 .. MaxKeys
      BY <1>0, <2>3, EventLoopAssumption DEF FillKey
    <3>1. keys' \in [sent : 0 .. MaxKeys, taken : 0 .. MaxKeys]
      BY <1>0, <2>3, <3>0 DEF FillKey
    <3>2. ob' \in BufferType
      BY <2>3 DEF FillKey, BufferType, Bytes
    <3>3. QED
      BY <2>1, <2>3, <3>1, <3>2 DEF FillKey
  <2>4. QED
    BY <1>6, <2>2, <2>3 DEF Fill
<1>7. CASE MouseMove \/ KeyPress
  <2>1. CASE MouseMove
    <3>1. /\ mouse' \in [sent : 0 .. 3 * MaxPackets, taken : 0 .. 3 * MaxPackets]
          /\ mouse'.taken <= mouse'.sent
      BY <1>0, <2>1, EventLoopAssumption DEF MouseMove
    <3>2. QED
      BY <2>1, <3>1 DEF MouseMove
  <2>2. CASE KeyPress
    <3>1. keys' \in [sent : 0 .. MaxKeys, taken : 0 .. MaxKeys]
      BY <1>0, <2>2, EventLoopAssumption DEF KeyPress
    <3>2. QED
      BY <2>2, <3>1 DEF KeyPress
  <2>3. QED
    BY <1>7, <2>1, <2>2
<1>8. CASE UNCHANGED vars
  BY <1>8 DEF vars
<1>9. QED
  BY <1>1, <1>2, <1>3, <1>4, <1>5, <1>6, <1>7, <1>8 DEF Next, KernelStep

\* The types hold in every reachable state.
THEOREM TypeCorrect == Spec => []TypeOK
<1>1. Spec => []TypeInv
  BY TypeInit, TypeStep, PTL DEF Spec
<1>2. TypeInv => TypeOK
  BY DEF TypeInv
<1>3. QED
  BY <1>1, <1>2, PTL
-----------------------------------------------------------------------------
\* The interrupt flag and the handler: the handler runs with the flag clear,
\* the test of the queue happens with it clear, hlt and process with it set.
Flags ==
    /\ isr \notin {"idle", "dead"} => ~ifl
    /\ pc \in {"check", "hlt"} => ~ifl /\ isr = "idle"
    /\ pc = "halted" => ifl /\ isr = "idle"
    /\ pc \in {"hlt", "halted"} => mainQueue.count = 0
    /\ pc \in ProcessPc /\ isr = "idle" => ifl

\* Which PIC has the request in service at each step of the handler.
Service ==
    /\ isr \in {"idle", "iret"} => pic.inService = {}
    /\ isr \in {"push", "eoi1"} => pic.inService = {1, 2}
    /\ isr = "eoi2" => pic.inService = {2}

\* How far the interrupt set-up has come.
SetUp ==
    /\ pc # "lidt" => idt.loaded
    /\ pc \notin {"lidt", "gate"} => idt.gate
    /\ pc \notin {"lidt", "gate", "remap"} => pic.remapped
    /\ pc \in {"lidt", "gate", "remap"} => 12 \in pic.mask
    /\ pc = "enable12" => 2 \notin pic.mask
    /\ pc \in LoopPc => pic.mask = {}

\* The strengthening of GetHasMessage over the handler's steps.
HasMessage ==
    pc \in {"get", "popLoad"} => mainQueue.count > 0 \/ isr = "push"

\* Nothing arrives before the PICs are set up.
Quiet ==
    hw.quiet /\ pc \in {"lidt", "gate", "remap", "maskAll"}
        => ~ob.full /\ mouse.taken = mouse.sent /\ keys.taken = keys.sent

\* A mouse byte in the output buffer is attended to: its interrupt is
\* latched or being handled, or a message is queued, or kernelMain is on the
\* way to reading the byte.
Attended ==
    hw.quiet /\ ob.full /\ ob.aux =>
        \/ pic.irr
        \/ isr = "push"
        \/ mainQueue.count > 0
        \/ pc \in {"get", "popLoad", "popStore", "sti", "status", "readFlg"}

\* With prompt interrupts a request is only ever latched for a byte still
\* in the buffer, and while pop runs with interrupts enabled the byte that
\* woke the kernel keeps the buffer full and the line quiet.
Undisturbed ==
    ~hw.latency =>
        /\ pic.irr => ob.full /\ ob.aux
        /\ pc \in {"get", "popLoad", "popStore"} /\ (ifl \/ isr # "idle")
              => ob.full /\ ob.aux /\ ~pic.irr
        /\ pc = "popStore" => isr = "idle" /\ reg.count = mainQueue.count
        /\ PositionsMatch(mainQueue)

IInv == /\ TypeInv /\ Flags /\ Service /\ SetUp /\ HasMessage
        /\ Quiet /\ Attended /\ Undisturbed

\* What the arithmetic of a push and a pop does to the count.
LEMMA PushedCount ==
    ASSUME NEW q \in QueueType, NEW i \in Message
    PROVE  Pushed(q, i).count \in Nat /\ Pushed(q, i).count > 0
<1>1. CASE q.count = Size
  BY <1>1, SizeAssumption DEF Pushed
<1>2. CASE q.count # Size
  BY <1>2, SizeAssumption DEF Pushed, QueueType
<1>3. QED
  BY <1>1, <1>2

\* The interrupt flag belongs to the place in the loop.
LEMMA FlagsStep == IInv /\ [Next]_vars => Flags'
<1> SUFFICES ASSUME IInv, [Next]_vars PROVE Flags'
  OBVIOUS
<1>0. pic \in PicType /\ ob \in BufferType /\ mainQueue \in QueueType
  BY DEF IInv, TypeInv, TypeOK
<1> USE <1>0 DEF IInv, Flags, At, devices, cpu, PicType, BufferType, ProcessPc
<1>1. CASE Boot
  BY <1>1 DEF Boot, LoadIDT, SetIDTEntry, Remap, MaskAll, EnableCascade,
              EnableMouse
<1>2. CASE Loop
  BY <1>2 DEF Loop, Cli, Check, StiHlt, GetMessage, PopLoad, PopStore, Sti
<1>3. CASE Process
  BY <1>3 DEF Process, ReadStatus, ReadFlg, ReadX, ReadY, DrainStatus,
              DrainRead, ReadPort
<1>4. CASE Interrupt
  BY <1>4 DEF Interrupt, CanInterrupt
<1>5. CASE Handler
  BY <1>5 DEF Handler, HandlerPush, HandlerEoi1, HandlerEoi2, HandlerReturn
<1>6. CASE Fill
  BY <1>6 DEF Fill, FillMouse, FillKey
<1>7. CASE MouseMove \/ KeyPress
  BY <1>7 DEF MouseMove, KeyPress, Touchable
<1>8. CASE UNCHANGED vars
  BY <1>8 DEF vars
<1>9. QED
  BY <1>1, <1>2, <1>3, <1>4, <1>5, <1>6, <1>7, <1>8 DEF Next, KernelStep

\* What the PICs have in service belongs to the handler's step.
LEMMA ServiceStep == IInv /\ [Next]_vars => Service'
<1> SUFFICES ASSUME IInv, [Next]_vars PROVE Service'
  OBVIOUS
<1>0. pic \in PicType /\ ob \in BufferType /\ mainQueue \in QueueType
  BY DEF IInv, TypeInv, TypeOK
<1> USE <1>0 DEF IInv, Service, At, devices, cpu, PicType, BufferType
<1>1. CASE Boot
  BY <1>1 DEF Boot, LoadIDT, SetIDTEntry, Remap, MaskAll, EnableCascade,
              EnableMouse
<1>2. CASE Loop
  BY <1>2 DEF Loop, Cli, Check, StiHlt, GetMessage, PopLoad, PopStore, Sti
<1>3. CASE Process
  BY <1>3 DEF Process, ReadStatus, ReadFlg, ReadX, ReadY, DrainStatus,
              DrainRead, ReadPort
<1>4. CASE Interrupt
  BY <1>4 DEF Interrupt
<1>5. CASE Handler
  BY <1>5 DEF Handler, HandlerPush, HandlerEoi1, HandlerEoi2, HandlerReturn
<1>6. CASE Fill
  BY <1>6 DEF Fill, FillMouse, FillKey
<1>7. CASE MouseMove \/ KeyPress
  BY <1>7 DEF MouseMove, KeyPress, Touchable
<1>8. CASE UNCHANGED vars
  BY <1>8 DEF vars
<1>9. QED
  BY <1>1, <1>2, <1>3, <1>4, <1>5, <1>6, <1>7, <1>8 DEF Next, KernelStep

\* The set-up goes in order: gate, remap, masks, lines.
LEMMA SetUpStep == IInv /\ [Next]_vars => SetUp'
<1> SUFFICES ASSUME IInv, [Next]_vars PROVE SetUp'
  OBVIOUS
<1>0. pic \in PicType /\ idt \in [loaded : BOOLEAN, gate : BOOLEAN]
  BY DEF IInv, TypeInv, TypeOK
<1> USE <1>0 DEF IInv, SetUp, At, devices, cpu, PicType, BufferType,
                 ProcessPc, LoopPc
<1>1. CASE Boot
  <2>1. CASE LoadIDT \/ SetIDTEntry
    BY <2>1 DEF LoadIDT, SetIDTEntry
  <2>2. CASE Remap
    BY <2>2 DEF Remap
  <2>3. CASE MaskAll
    BY <2>3 DEF MaskAll
  <2>4. CASE EnableCascade
    BY <2>4 DEF EnableCascade
  <2>5. CASE EnableMouse
    <3>1. pic'.mask = pic.mask \ {12} /\ pic'.remapped = pic.remapped
      BY <2>5 DEF EnableMouse
    <3>2. 2 \notin pic.mask /\ pic.mask \subseteq {2, 12}
      BY <2>5 DEF EnableMouse
    <3>3. pic'.mask = {}
      BY <3>1, <3>2
    <3>4. QED
      BY <2>5, <3>1, <3>3 DEF EnableMouse
  <2>6. QED
    BY <1>1, <2>1, <2>2, <2>3, <2>4, <2>5 DEF Boot
<1>2. CASE Loop
  BY <1>2 DEF Loop, Cli, Check, StiHlt, GetMessage, PopLoad, PopStore, Sti
<1>3. CASE Process
  BY <1>3 DEF Process, ReadStatus, ReadFlg, ReadX, ReadY, DrainStatus,
              DrainRead, ReadPort
<1>4. CASE Interrupt
  BY <1>4 DEF Interrupt
<1>5. CASE Handler
  BY <1>5 DEF Handler, HandlerPush, HandlerEoi1, HandlerEoi2, HandlerReturn
<1>6. CASE Fill
  BY <1>6 DEF Fill, FillMouse, FillKey
<1>7. CASE MouseMove \/ KeyPress
  BY <1>7 DEF MouseMove, KeyPress, Touchable
<1>8. CASE UNCHANGED vars
  BY <1>8 DEF vars
<1>9. QED
  BY <1>1, <1>2, <1>3, <1>4, <1>5, <1>6, <1>7, <1>8 DEF Next, KernelStep

\* Only the handler puts messages in, only the loop takes them out.
LEMMA HasMessageStep == IInv /\ [Next]_vars => HasMessage'
<1> SUFFICES ASSUME IInv, [Next]_vars PROVE HasMessage'
  OBVIOUS
<1>0. pic \in PicType /\ ob \in BufferType /\ mainQueue \in QueueType
  BY DEF IInv, TypeInv, TypeOK
<1> USE <1>0 DEF IInv, HasMessage, At, devices, cpu, PicType, BufferType
<1>1. CASE Boot
  BY <1>1 DEF Boot, LoadIDT, SetIDTEntry, Remap, MaskAll, EnableCascade,
              EnableMouse
<1>2. CASE Loop
  BY <1>2, SizeAssumption
     DEF QueueType, Loop, Cli, Check, StiHlt, GetMessage, PopLoad, PopStore, Sti
<1>3. CASE Process
  BY <1>3 DEF Process, ReadStatus, ReadFlg, ReadX, ReadY, DrainStatus,
              DrainRead, ReadPort
<1>4. CASE Interrupt
  BY <1>4 DEF Interrupt
<1>5. CASE Handler
  <2>1. CASE HandlerPush
    BY <2>1, PushedCount, EventLoopAssumption DEF HandlerPush
  <2>2. CASE HandlerEoi1 \/ HandlerEoi2 \/ HandlerReturn
    BY <2>2 DEF HandlerEoi1, HandlerEoi2, HandlerReturn
  <2>3. QED
    BY <1>5, <2>1, <2>2 DEF Handler
<1>6. CASE Fill
  BY <1>6 DEF Fill, FillMouse, FillKey
<1>7. CASE MouseMove \/ KeyPress
  BY <1>7 DEF MouseMove, KeyPress, Touchable
<1>8. CASE UNCHANGED vars
  BY <1>8 DEF vars
<1>9. QED
  BY <1>1, <1>2, <1>3, <1>4, <1>5, <1>6, <1>7, <1>8 DEF Next, KernelStep

\* Without its line the mouse raises no request.
LEMMA QuietStep == IInv /\ [Next]_vars => Quiet'
<1> SUFFICES ASSUME IInv, [Next]_vars PROVE Quiet'
  OBVIOUS
<1>0. pic \in PicType /\ ob \in BufferType /\ mainQueue \in QueueType
  BY DEF IInv, TypeInv, TypeOK
<1> USE <1>0 DEF IInv, Quiet, At, devices, cpu, PicType, BufferType
<1>1. CASE Boot
  BY <1>1 DEF Boot, LoadIDT, SetIDTEntry, Remap, MaskAll, EnableCascade,
              EnableMouse
<1>2. CASE Loop
  BY <1>2 DEF Loop, Cli, Check, StiHlt, GetMessage, PopLoad, PopStore, Sti
<1>3. CASE Process
  BY <1>3 DEF Process, ReadStatus, ReadFlg, ReadX, ReadY, DrainStatus,
              DrainRead, ReadPort
<1>4. CASE Interrupt
  BY <1>4 DEF Interrupt
<1>5. CASE Handler
  BY <1>5 DEF Handler, HandlerPush, HandlerEoi1, HandlerEoi2, HandlerReturn
<1>6. CASE Fill
  <2>1. /\ mouse.taken \in Int /\ mouse.sent \in Int
        /\ keys.taken \in Int /\ keys.sent \in Int
    BY EventLoopAssumption DEF TypeInv, TypeOK
  <2>2. QED
    BY <1>6, <2>1 DEF Fill, FillMouse, FillKey
<1>7. CASE MouseMove \/ KeyPress
  BY <1>7 DEF MouseMove, KeyPress, Touchable
<1>8. CASE UNCHANGED vars
  BY <1>8 DEF vars
<1>9. QED
  BY <1>1, <1>2, <1>3, <1>4, <1>5, <1>6, <1>7, <1>8 DEF Next, KernelStep

\* A byte that waits has a request or a message on its way.
LEMMA AttendedStep == IInv /\ [Next]_vars => Attended'
<1> SUFFICES ASSUME IInv, [Next]_vars PROVE Attended'
  OBVIOUS
<1>0. pic \in PicType /\ ob \in BufferType /\ mainQueue \in QueueType
  BY DEF IInv, TypeInv, TypeOK
<1> USE <1>0 DEF IInv, Attended, At, devices, cpu, PicType, BufferType
<1>1. CASE Boot
  BY <1>1 DEF Quiet, Boot, LoadIDT, SetIDTEntry, Remap, MaskAll,
              EnableCascade, EnableMouse
<1>2. CASE Loop
  BY <1>2 DEF Loop, Cli, Check, StiHlt, GetMessage, PopLoad, PopStore, Sti
<1>3. CASE Process
  BY <1>3 DEF Process, ReadStatus, ReadFlg, ReadX, ReadY, DrainStatus,
              DrainRead, ReadPort
<1>4. CASE Interrupt
  BY <1>4 DEF Interrupt
<1>5. CASE Handler
  <2>1. CASE HandlerPush
    BY <2>1, PushedCount, EventLoopAssumption DEF HandlerPush
  <2>2. CASE HandlerEoi1 \/ HandlerEoi2 \/ HandlerReturn
    BY <2>2 DEF HandlerEoi1, HandlerEoi2, HandlerReturn
  <2>3. QED
    BY <1>5, <2>1, <2>2 DEF Handler
<1>6. CASE Fill
  BY <1>6 DEF Fill, FillMouse, FillKey
<1>7. CASE MouseMove \/ KeyPress
  BY <1>7 DEF MouseMove, KeyPress, Touchable
<1>8. CASE UNCHANGED vars
  BY <1>8 DEF vars
<1>9. QED
  BY <1>1, <1>2, <1>3, <1>4, <1>5, <1>6, <1>7, <1>8 DEF Next, KernelStep

\* The half-done pop writes back exactly what pop would have left.
LEMMA PopStoreIsPop ==
    ASSUME mainQueue \in QueueType, PopStore,
           reg.count = mainQueue.count, reg.count > 0
    PROVE  mainQueue' = Popped(mainQueue)
  BY SizeAssumption DEF PopStore, Popped, QueueType

\* The pop with interrupts enabled meets a quiet line: it stays undisturbed.
LEMMA UndisturbedStep == IInv /\ [Next]_vars => Undisturbed'
<1> SUFFICES ASSUME IInv, [Next]_vars, ~hw.latency PROVE Undisturbed'
  BY MachineStep DEF Undisturbed
<1>0. pic \in PicType /\ ob \in BufferType /\ mainQueue \in QueueType
  BY DEF IInv, TypeInv, TypeOK
<1> USE <1>0 DEF IInv, Undisturbed, At, devices, cpu, PicType, BufferType
<1>1. CASE Boot
  BY <1>1 DEF Boot, LoadIDT, SetIDTEntry, Remap, MaskAll, EnableCascade,
              EnableMouse
<1>2. CASE Loop
  <2>1. CASE PopStore
    <3>1. mainQueue' = Popped(mainQueue)
      BY <2>1, PopStoreIsPop DEF PopStore, TypeInv
    <3>2. PositionsMatch(mainQueue')
      BY <3>1, PoppedPositions
    <3>3. QED
      BY <2>1, <3>2 DEF PopStore
  <2>2. CASE PopLoad
    BY <2>2 DEF PopLoad, TypeInv, TypeOK
  <2>3. CASE Cli \/ Check \/ StiHlt
    BY <2>3 DEF Cli, Check, StiHlt, Flags
  <2>4. CASE GetMessage \/ Sti
    BY <2>4 DEF GetMessage, Sti
  <2>5. QED
    BY <1>2, <2>1, <2>2, <2>3, <2>4 DEF Loop
<1>3. CASE Process
  <2>1. pc \in ProcessPc /\ isr = "idle" /\ ~CanInterrupt
    BY <1>3 DEF Process, ProcessPc, ReadStatus, ReadFlg, ReadX, ReadY,
                DrainStatus, DrainRead
  <2>2. UNCHANGED <<isr, ifl, mainQueue>> /\ pc' \in ProcessPc \union {"cli"}
    BY <1>3, <2>1 DEF Process, ProcessPc, ReadStatus, ReadFlg, ReadX, ReadY,
                      DrainStatus, DrainRead, ReadPort
  <2>3. pic.irr = FALSE
    BY <2>1 DEF Flags, Service, SetUp, LoopPc, CanInterrupt
  <2>4. pic'.irr = FALSE
    BY <1>3, <2>3 DEF Process, ReadStatus, ReadFlg, ReadX, ReadY,
                      DrainStatus, DrainRead, ReadPort
  <2>5. QED
    BY <2>1, <2>2, <2>4 DEF ProcessPc
<1>4. CASE Interrupt
  BY <1>4 DEF Interrupt, CanInterrupt
<1>5. CASE Handler
  <2>1. CASE HandlerPush
    <3>1. PositionsMatch(mainQueue')
      BY <2>1, PushedPositions, EventLoopAssumption DEF HandlerPush
    <3>2. QED
      BY <2>1, <3>1 DEF HandlerPush, Flags
  <2>2. CASE HandlerEoi1 \/ HandlerEoi2 \/ HandlerReturn
    BY <2>2 DEF HandlerEoi1, HandlerEoi2, HandlerReturn, Flags
  <2>3. QED
    BY <1>5, <2>1, <2>2 DEF Handler
<1>6. CASE Fill
  BY <1>6 DEF Fill, FillMouse, FillKey
<1>7. CASE MouseMove \/ KeyPress
  BY <1>7 DEF MouseMove, KeyPress
<1>8. CASE UNCHANGED vars
  BY <1>8 DEF vars
<1>9. QED
  BY <1>1, <1>2, <1>3, <1>4, <1>5, <1>6, <1>7, <1>8 DEF Next, KernelStep

\* All parts together hold in every state.
LEMMA InductiveInvariant == Spec => []IInv
<1>1. Init => IInv
  <2> SUFFICES ASSUME Init PROVE IInv
    OBVIOUS
  <2>1. PositionsMatch(mainQueue)
    BY NewPositions DEF Init
  <2>2. pic.irr = FALSE /\ pic.inService = {} /\ 12 \in pic.mask
    BY DEF Init
  <2>3. QED
    BY <2>1, <2>2, TypeInit
       DEF Init, IInv, Flags, Service, SetUp, HasMessage, Quiet, Attended,
           Undisturbed, LoopPc, ProcessPc
<1>2. IInv /\ [Next]_vars => IInv'
  <2> SUFFICES ASSUME IInv, [Next]_vars PROVE IInv'
    OBVIOUS
  <2>1. TypeInv'
    BY TypeStep DEF IInv
  <2>2. QED
    BY <2>1, FlagsStep, ServiceStep, SetUpStep, HasMessageStep, QuietStep,
       AttendedStep, UndisturbedStep DEF IInv
<1>3. QED
  BY <1>1, <1>2, PTL DEF Spec

-----------------------------------------------------------------------------
\* No interrupt reaches the CPU before its handler is in place.
THEOREM HandlerAlwaysReady == Spec => []HandlerReady
<1>1. IInv => HandlerReady
  BY DEF IInv, SetUp, HandlerReady, CanInterrupt
<1>2. QED
  BY <1>1, InductiveInvariant, PTL

\* kernelMain takes messages only from a queue that holds one.
THEOREM AlwaysHasMessage == Spec => []GetHasMessage
<1>1. IInv => GetHasMessage
  BY DEF IInv, HasMessage, GetHasMessage
<1>2. QED
  BY <1>1, InductiveInvariant, PTL

\* The event loop never sleeps on a mouse byte, if the devices are quiet
\* while the PICs are remapped: for any queue size, with fast and slow
\* controllers, prompt and late interrupts, with and without a keyboard.
THEOREM NeverSleepsOnMouseByte == Spec => []NoLostWakeup
<1>1. IInv => NoLostWakeup
  <2> SUFFICES ASSUME IInv, hw.quiet, pc = "halted", isr = "idle",
                      ob.full, ob.aux
               PROVE  CanInterrupt
    BY DEF NoLostWakeup
  <2>1. ifl /\ mainQueue.count = 0
    BY DEF IInv, Flags
  <2>2. pic.irr
    BY <2>1 DEF IInv, Attended
  <2>3. pic.inService = {} /\ pic.mask = {}
    BY DEF IInv, Service, SetUp, LoopPc
  <2>4. QED
    BY <2>1, <2>2, <2>3 DEF CanInterrupt
<1>2. QED
  BY <1>1, InductiveInvariant, PTL

\* With prompt interrupts the pop that runs with interrupts enabled is never
\* interleaved with a push, so the queue's counters always agree.
THEOREM QueueUndisturbed == Spec => []QueuePositions
<1>1. IInv => QueuePositions
  BY DEF IInv, Undisturbed, QueuePositions
<1>2. QED
  BY <1>1, InductiveInvariant, PTL

\* What the calls do to the PICs is what PicView allows: its first service
\* ends before its second, only remapped PICs are opened, and the interrupt
\* taken has the new vector.
THEOREM CallsImplementPicView == Spec => ImplementsPicView
<1>1. Init => View!Init
  BY DEF Init, View!Init
<1>2. IInv /\ [Next]_vars => [View!Next]_pic
  <2> SUFFICES ASSUME IInv, Next PROVE View!Next \/ UNCHANGED pic
    BY DEF vars
  <2>0. pic \in PicType
    BY DEF IInv, TypeInv, TypeOK
  <2>1. CASE LoadIDT \/ SetIDTEntry \/ Loop \/ HandlerPush \/ HandlerReturn
             \/ FillKey \/ MouseMove \/ KeyPress
    BY <2>1 DEF LoadIDT, SetIDTEntry, Loop, Cli, Check, StiHlt, GetMessage,
                PopLoad, PopStore, Sti, HandlerPush, HandlerReturn, FillKey,
                MouseMove, KeyPress
  <2>2. CASE Remap
    BY <2>2 DEF Remap, View!Next, View!Remap
  <2>3. CASE MaskAll
    <3>1. {2, 12} \in SUBSET {2, 12} /\ pic.mask \subseteq {2, 12}
      BY <2>0 DEF PicType
    <3>2. View!Mask
      BY <2>3, <3>1 DEF MaskAll, View!Mask
    <3>3. QED
      BY <3>2 DEF View!Next
  <2>4. CASE EnableCascade \/ EnableMouse
    <3>1. pic.remapped
      BY <2>4 DEF IInv, SetUp, EnableCascade, EnableMouse, At
    <3>2. View!Unmask
      BY <2>4, <3>1 DEF EnableCascade, EnableMouse, View!Unmask
    <3>3. QED
      BY <3>2 DEF View!Next
  <2>5. CASE Process
    <3>1. UNCHANGED pic \/ View!Forget
      BY <2>5 DEF Process, ReadStatus, ReadFlg, ReadX, ReadY, DrainStatus,
                  DrainRead, ReadPort, View!Forget
    <3>2. QED
      BY <3>1 DEF View!Next
  <2>6. CASE Interrupt
    <3>1. pic.remapped
      BY <2>6 DEF IInv, SetUp, Interrupt, CanInterrupt
    <3>2. View!Accept
      BY <2>6, <3>1 DEF Interrupt, CanInterrupt, View!Accept
    <3>3. QED
      BY <3>2 DEF View!Next
  <2>7. CASE HandlerEoi1
    <3>1. pic.inService = {1, 2} /\ pic.inService \ {1} = {2}
      BY <2>7 DEF HandlerEoi1, IInv, Service
    <3>2. View!EndFirst
      BY <2>7, <3>1 DEF HandlerEoi1, View!EndFirst
    <3>3. QED
      BY <3>2 DEF View!Next
  <2>8. CASE HandlerEoi2
    <3>1. pic.inService = {2} /\ pic.inService \ {2} = {}
      BY <2>8 DEF HandlerEoi2, IInv, Service
    <3>2. View!EndSecond
      BY <2>8, <3>1 DEF HandlerEoi2, View!EndSecond
    <3>3. QED
      BY <3>2 DEF View!Next
  <2>9. CASE FillMouse
    BY <2>9 DEF FillMouse, View!Next, View!Request
  <2>10. QED
    BY <2>1, <2>2, <2>3, <2>4, <2>5, <2>6, <2>7, <2>8, <2>9
       DEF Next, KernelStep, Boot, Handler, Fill
<1>3. QED
  BY <1>1, <1>2, InductiveInvariant, PTL DEF Spec, ImplementsPicView, View!Spec
-----------------------------------------------------------------------------
\* Bytes of the packet in hand that process has read.
Taken == IF pc = "readX" THEN 1 ELSE IF pc = "readY" THEN 2 ELSE 0

\* Where the controller is prompt and no key has been pressed, process reads
\* every byte once: what the controller has presented is what the moves, the
\* packet in hand and the output buffer account for.
InStep ==
    hw.prompt /\ keys.sent = 0 =>
        /\ keys.taken = 0 /\ pc \notin {"drainStatus", "drainRead"}
        /\ ob.full => ob.aux
        /\ ob.byte = mouse.taken
        /\ \E k \in Nat : mouse.sent = 3 * k
        /\ mouse.taken = 3 * Len(moves) + Taken + (IF ob.full THEN 1 ELSE 0)
        /\ pc = "readFlg" => ob.full
        /\ pc \in {"readX", "readY"} => reg.flg = 3 * Len(moves) + 1
        /\ pc = "readY" => reg.x = 3 * Len(moves) + 2
        /\ PacketsIntact

\* A packet in hand is not finished, so its next byte has been sent, and a
\* prompt controller has presented it before process reads the port.
LEMMA NextByteIsThere ==
    ASSUME TypeInv, InStep, hw.prompt, keys.sent = 0, Settled,
           pc \in {"readFlg", "readX", "readY"}
    PROVE  /\ ob.full /\ InByte = 3 * Len(moves) + Taken + 1
           /\ Len(moves) \in Nat
<1>1. /\ Len(moves) \in Nat /\ ob.full \in BOOLEAN
      /\ mouse.taken \in Int /\ mouse.sent \in Int /\ mouse.taken <= mouse.sent
  BY EventLoopAssumption DEF TypeInv, TypeOK, BufferType
<1>2. Taken \in {0, 1, 2} /\ (pc # "readFlg" => Taken \in {1, 2})
  BY DEF Taken
<1>3. ob.full
  <2> SUFFICES ASSUME ~ob.full PROVE FALSE
    OBVIOUS
  <2>1. Taken \in {1, 2} /\ mouse.taken = 3 * Len(moves) + Taken
    BY <1>1, <1>2 DEF InStep
  <2>2. mouse.taken = mouse.sent
    BY <1>1 DEF Settled, CanFill
  <2>3. PICK k \in Nat : mouse.sent = 3 * k
    BY DEF InStep
  <2>4. QED
    BY <1>1, <2>1, <2>2, <2>3
<1>4. QED
  BY <1>1, <1>2, <1>3 DEF InStep, InByte

\* Steps that neither present nor read a byte nor enter or leave a packet.
LEMMA InStepKept ==
    ASSUME InStep, UNCHANGED <<hw, ob, mouse, keys, moves>>,
           reg'.flg = reg.flg, reg'.x = reg.x,
           \/ pc' = pc
           \/ /\ pc' \notin {"readFlg", "readX", "readY", "drainStatus",
                             "drainRead"}
              /\ pc \notin {"readX", "readY"}
    PROVE  InStep'
<1> SUFFICES ASSUME hw.prompt, keys.sent = 0 PROVE InStep'
  BY DEF InStep
<1>1. Taken' = Taken
  BY DEF Taken
<1>2. PacketsIntact'
  BY DEF InStep, PacketsIntact, Packet
<1>3. QED
  BY <1>1, <1>2 DEF InStep

\* A byte read is the next one, and the packet grows by it or is a move.
LEMMA InStepReads ==
    ASSUME TypeInv, InStep, ReadFlg \/ ReadX \/ ReadY
    PROVE  InStep'
<1>1. SUFFICES ASSUME hw.prompt, keys.sent = 0 PROVE InStep'
  BY DEF InStep, ReadFlg, ReadX, ReadY
<1>2. /\ ob.full /\ InByte = 3 * Len(moves) + Taken + 1 /\ Len(moves) \in Nat
      /\ mouse.taken = 3 * Len(moves) + Taken + 1
  BY <1>1, NextByteIsThere DEF ReadFlg, ReadX, ReadY, At, InStep, InByte
<1>3. /\ UNCHANGED <<hw, mouse, keys>> /\ ob'.full = FALSE
      /\ ob'.byte = ob.byte
  <2>1. ob \in BufferType
    BY DEF TypeInv, TypeOK
  <2>2. QED
    BY <2>1 DEF ReadFlg, ReadX, ReadY, ReadPort, BufferType
<1>4. CASE ReadFlg
  <2>1. /\ pc = "readFlg" /\ pc' = "readX" /\ moves' = moves
        /\ reg' = [reg EXCEPT !.flg = InByte]
        /\ reg \in [count : 0 .. Size, flg : Bytes, x : Bytes]
    BY <1>4 DEF ReadFlg, At, TypeInv, TypeOK
  <2>2. Taken = 0 /\ Taken' = 1 /\ reg'.flg = 3 * Len(moves) + 1
    BY <1>2, <2>1 DEF Taken
  <2>3. PacketsIntact'
    BY <1>1, <2>1 DEF InStep, PacketsIntact, Packet
  <2>4. QED
    BY <1>1, <1>2, <1>3, <2>1, <2>2, <2>3 DEF InStep
<1>5. CASE ReadX
  <2>1. /\ pc = "readX" /\ pc' = "readY" /\ moves' = moves
        /\ reg' = [reg EXCEPT !.x = InByte]
        /\ reg \in [count : 0 .. Size, flg : Bytes, x : Bytes]
    BY <1>5 DEF ReadX, At, TypeInv, TypeOK
  <2>2. /\ Taken = 1 /\ Taken' = 2 /\ reg'.x = 3 * Len(moves) + 2
        /\ reg'.flg = reg.flg /\ reg.flg = 3 * Len(moves) + 1
    BY <1>1, <1>2, <2>1 DEF Taken, InStep
  <2>3. PacketsIntact'
    BY <1>1, <2>1 DEF InStep, PacketsIntact, Packet
  <2>4. QED
    BY <1>1, <1>2, <1>3, <2>1, <2>2, <2>3 DEF InStep
<1>6. CASE ReadY
  <2>1. /\ pc = "readY" /\ pc' = "cli"
        /\ moves' = Append(moves, <<reg.flg, reg.x, InByte>>)
        /\ moves \in Seq(Bytes \X Bytes \X Bytes)
    BY <1>6 DEF ReadY, At, TypeInv, TypeOK
  <2>2. /\ Taken = 2 /\ Taken' = 0 /\ InByte = 3 * Len(moves) + 3
        /\ reg.flg = 3 * Len(moves) + 1 /\ reg.x = 3 * Len(moves) + 2
    BY <1>1, <1>2, <2>1 DEF Taken, InStep
  <2>3. Len(moves') = Len(moves) + 1 /\ mouse.taken = 3 * Len(moves')
    BY <1>2, <2>1, <2>2
  <2>4. PacketsIntact'
    <3> SUFFICES ASSUME NEW k \in 1 .. Len(moves) + 1
                 PROVE  moves'[k] = Packet(k)
      BY <2>1, <2>3 DEF PacketsIntact, Packet
    <3>1. CASE k \in 1 .. Len(moves)
      <4>1. moves'[k] = moves[k]
        BY <2>1, <3>1
      <4>2. moves[k] = Packet(k)
        BY <1>1, <2>1, <3>1 DEF InStep, PacketsIntact
      <4>3. QED
        BY <4>1, <4>2
    <3>2. CASE k = Len(moves) + 1
      <4>1. moves'[k] = <<reg.flg, reg.x, InByte>>
        BY <2>1, <3>2
      <4>2. /\ reg.flg = 3 * k - 2 /\ reg.x = 3 * k - 1 /\ InByte = 3 * k
        BY <1>2, <2>2, <3>2
      <4>3. QED
        BY <4>1, <4>2 DEF Packet
    <3>3. QED
      BY <1>2, <3>1, <3>2
  <2>5. mouse'.taken = 3 * Len(moves') + Taken' + (IF ob'.full THEN 1 ELSE 0)
    BY <1>2, <1>3, <2>2, <2>3
  <2>6. QED
    BY <1>1, <1>3, <2>1, <2>4, <2>5 DEF InStep
<1>7. QED
  BY <1>4, <1>5, <1>6

\* A byte presented is the one the buffer then holds.
LEMMA InStepFill ==
    ASSUME TypeInv, InStep, FillMouse
    PROVE  InStep'
<1>1. SUFFICES ASSUME hw.prompt, keys.sent = 0 PROVE InStep'
  BY DEF InStep, FillMouse
<1>2. /\ mouse.taken \in Int /\ Len(moves) \in Nat /\ Taken \in {0, 1, 2}
      /\ mouse \in [sent : 0 .. 3 * MaxPackets, taken : 0 .. 3 * MaxPackets]
  BY EventLoopAssumption DEF TypeInv, TypeOK, Taken
<1>3. /\ UNCHANGED <<hw, pc, reg, keys, moves>>
      /\ ob' = [full |-> TRUE, aux |-> TRUE, byte |-> mouse.taken + 1]
      /\ ~ob.full /\ mouse'.taken = mouse.taken + 1 /\ mouse'.sent = mouse.sent
  BY <1>2 DEF FillMouse, cpu
<1>4. Taken' = Taken /\ mouse.taken = 3 * Len(moves) + Taken
  BY <1>1, <1>2, <1>3 DEF Taken, InStep
<1>5. PacketsIntact'
  BY <1>1, <1>3 DEF InStep, PacketsIntact, Packet
<1>6. mouse'.taken = 3 * Len(moves) + Taken + 1
  BY <1>2, <1>3, <1>4
<1>7. QED
  BY <1>1, <1>3, <1>4, <1>5, <1>6 DEF InStep

\* Every step keeps mouse and kernel in step.
LEMMA InStepStep == IInv /\ InStep /\ [Next]_vars => InStep'
<1> SUFFICES ASSUME IInv, InStep, [Next]_vars PROVE InStep'
  OBVIOUS
<1>0. TypeInv
  BY DEF IInv
<1>1. CASE Boot \/ Loop \/ Interrupt \/ Handler \/ UNCHANGED vars
  <2>1. UNCHANGED <<hw, ob, mouse, keys, moves>>
    BY <1>1
       DEF Boot, LoadIDT, SetIDTEntry, Remap, MaskAll, EnableCascade,
           EnableMouse, Loop, Cli, Check, StiHlt, GetMessage, PopLoad,
           PopStore, Sti, Interrupt, Handler, HandlerPush, HandlerEoi1,
           HandlerEoi2, HandlerReturn, devices, vars
  <2>2. reg'.flg = reg.flg /\ reg'.x = reg.x
    <3>1. CASE PopLoad
      BY <1>0, <3>1 DEF PopLoad, TypeInv, TypeOK
    <3>2. CASE ~PopLoad
      BY <1>1, <3>2
         DEF Boot, LoadIDT, SetIDTEntry, Remap, MaskAll, EnableCascade,
             EnableMouse, Loop, Cli, Check, StiHlt, GetMessage, PopStore, Sti,
             Interrupt, Handler, HandlerPush, HandlerEoi1, HandlerEoi2,
             HandlerReturn, vars
    <3>3. QED
      BY <3>1, <3>2
  <2>3. \/ pc' = pc
        \/ /\ pc' \notin {"readFlg", "readX", "readY", "drainStatus",
                          "drainRead"}
           /\ pc \notin {"readX", "readY"}
    BY <1>1
       DEF Boot, LoadIDT, SetIDTEntry, Remap, MaskAll, EnableCascade,
           EnableMouse, Loop, Cli, Check, StiHlt, GetMessage, PopLoad,
           PopStore, Sti, Interrupt, Handler, HandlerPush, HandlerEoi1,
           HandlerEoi2, HandlerReturn, At, vars
  <2>4. QED
    BY <2>1, <2>2, <2>3, InStepKept
<1>2. CASE Process
  <2>1. CASE ReadFlg \/ ReadX \/ ReadY
    BY <1>0, <2>1, InStepReads
  <2>2. CASE ReadStatus
    <3>1. SUFFICES ASSUME hw.prompt, keys.sent = 0 PROVE InStep'
      BY <2>2 DEF InStep, ReadStatus, devices
    <3>2. /\ UNCHANGED <<hw, ob, mouse, keys, moves, reg>> /\ pc = "status"
          /\ pc' = "cli" \/ (pc' = "readFlg" /\ ob.full)
      BY <2>2, <3>1 DEF InStep, ReadStatus, At, devices
    <3>3. Taken' = Taken
      BY <3>2 DEF Taken
    <3>4. PacketsIntact'
      BY <3>1, <3>2 DEF InStep, PacketsIntact, Packet
    <3>5. QED
      BY <3>1, <3>2, <3>3, <3>4 DEF InStep
  <2>3. CASE DrainStatus \/ DrainRead
    BY <2>3 DEF InStep, DrainStatus, DrainRead, At, devices
  <2>4. QED
    BY <1>2, <2>1, <2>2, <2>3 DEF Process
<1>3. CASE Fill
  <2>1. CASE FillMouse
    BY <1>0, <2>1, InStepFill
  <2>2. CASE FillKey
    <3>1. SUFFICES ASSUME hw.prompt, keys.sent = 0 PROVE FALSE
      BY <1>0, <2>2 DEF InStep, FillKey, TypeInv, TypeOK
    <3>2. keys.taken = 0 /\ keys.taken < keys.sent
      BY <2>2, <3>1 DEF InStep, FillKey
    <3>3. QED
      BY <3>1, <3>2
  <2>3. QED
    BY <1>3, <2>1, <2>2 DEF Fill
<1>4. CASE MouseMove
  <2>1. SUFFICES ASSUME hw.prompt, keys.sent = 0 PROVE InStep'
    BY <1>4 DEF InStep, MouseMove
  <2>2. /\ UNCHANGED <<hw, pc, reg, ob, keys, moves>>
        /\ mouse'.taken = mouse.taken /\ mouse'.sent = mouse.sent + 3
    BY <1>0, <1>4 DEF MouseMove, cpu, TypeInv, TypeOK
  <2>3. PICK k \in Nat : mouse.sent = 3 * k
    BY <2>1 DEF InStep
  <2>4. mouse'.sent = 3 * (k + 1) /\ k + 1 \in Nat
    BY <2>2, <2>3
  <2>5. Taken' = Taken
    BY <2>2 DEF Taken
  <2>6. PacketsIntact'
    BY <2>1, <2>2 DEF InStep, PacketsIntact, Packet
  <2>7. QED
    BY <2>1, <2>2, <2>4, <2>5, <2>6 DEF InStep
<1>5. CASE KeyPress
  <2>1. keys.sent \in Nat /\ keys'.sent = keys.sent + 1
    BY <1>0, <1>5, EventLoopAssumption DEF KeyPress, TypeInv, TypeOK
  <2>2. keys'.sent # 0
    BY <2>1
  <2>3. QED
    BY <2>2 DEF InStep
<1>6. QED
  BY <1>1, <1>2, <1>3, <1>4, <1>5 DEF Next, KernelStep

\* On a prompt controller, as long as no key is pressed, every move of the
\* cursor is computed from the three bytes of one packet, in order, for any
\* number of packets, any queue size and any delay of the interrupts.
THEOREM MovesFromWholePackets == Spec => []PromptPacketsIntact
<1>1. Init => InStep
  <2> SUFFICES ASSUME Init PROVE InStep
    OBVIOUS
  <2>1. /\ mouse.sent = 3 * 0 /\ mouse.taken = 0 /\ 0 \in Nat
        /\ Len(moves) = 0 /\ ob.full = FALSE /\ ob.byte = 0
        /\ keys.taken = 0 /\ pc = "lidt" /\ DOMAIN moves = {}
    BY DEF Init
  <2>2. QED
    BY <2>1 DEF InStep, Taken, PacketsIntact
<1>2. InStep => PromptPacketsIntact
  BY DEF InStep, PromptPacketsIntact
<1>3. QED
  BY <1>1, <1>2, InductiveInvariant, InStepStep, PTL DEF Spec
=============================================================================
