----------------------------- MODULE EventLoop -----------------------------
(***************************************************************************)
(* The interrupt-driven core of the kernel: the last part of kernelMain    *)
(* (interrupt set-up and event loop), the PS/2 mouse interrupt handler and *)
(* MousePS2::process, together with the three devices they depend on: the  *)
(* 8042 controller with its one-byte output buffer, the cascaded 8259      *)
(* PICs and the CPU's interrupt flag.                                      *)
(*                                                                         *)
(* One CPU step is one instruction that another actor can observe or       *)
(* disturb: an access to a port, to the queue or to the interrupt flag.    *)
(* The handler and the devices act between any two steps.                  *)
(***************************************************************************)
EXTENDS ArrayQueue, Sequences, FiniteSets

CONSTANTS InterruptMouse, \* the only Message::Type
          MaxPackets,     \* bound: packets the mouse sends
          MaxKeys,        \* bound: bytes the keyboard sends
          Machines        \* the kinds of hardware, see MachineType

\* What differs between machines.
MachineType == [
    prompt  : BOOLEAN,  \* the 8042 presents its next byte before the CPU can
                        \*   read a port again (an emulated 8042)
    latency : BOOLEAN,  \* a raised interrupt may reach the CPU some
                        \*   instructions late
    quiet   : BOOLEAN]  \* nobody touches the devices before remap() has
                        \*   masked the PICs

ASSUME EventLoopAssumption ==
    /\ Message = {InterruptMouse}
    /\ MaxPackets \in Nat /\ MaxKeys \in Nat
    /\ Machines \subseteq MachineType

VARIABLES
    hw,         \* the machine the kernel runs on, which never changes
    pc,         \* the next step of kernelMain
    isr,        \* the next step of InterruptHandlerPS2Mouse, "idle", or "dead"
                \*   after a vector without a gate
    ifl,        \* the CPU's interrupt flag
    reg,        \* values kernelMain holds in registers across steps
    mainQueue,  \* the queue shared by kernelMain and the handler
    idt,        \* is the IDT loaded, is the mouse gate in it
    pic,        \* both PICs: request latch of IRQ 12, chips with a request in
                \*   service, masked lines, vectors moved to 0x20
    ob,         \* the 8042 output buffer
    mouse,      \* bytes the mouse has sent and the controller has taken
    keys,       \* the same for the keyboard
    moves       \* the (flg, xMove, yMove) each moveRelative was computed from

cpu == <<pc, isr, ifl, reg>>
devices == <<ob, mouse, keys>>
vars == <<hw, pc, isr, ifl, reg, mainQueue, idt, pic, ob, mouse, keys, moves>>

BootPc == {"lidt", "gate", "remap", "maskAll", "enable2", "enable12"}
ProcessPc == {"status", "readFlg", "readX", "readY",
              "drainStatus", "drainRead"}
LoopPc == {"cli", "check", "hlt", "halted", "get", "popLoad", "popStore",
           "sti"} \union ProcessPc

\* Mouse bytes are numbered in the order the mouse sends them, so that byte
\* 3k+1 is the flags byte of packet k+1; 0 stands for any other byte.
MouseBytes == 1 .. 3 * MaxPackets
Bytes == {0} \union MouseBytes

\* The firmware hands over with both lines masked or only the mouse's, and
\* no specification settles the interrupt flag after ExitBootServices.
Init ==
    /\ hw \in Machines
    /\ pc = "lidt" /\ isr = "idle" /\ ifl \in BOOLEAN
    /\ reg = [count |-> 0, flg |-> 0, x |-> 0]
    /\ mainQueue = New([s \in Slots |-> InterruptMouse])
    /\ idt = [loaded |-> FALSE, gate |-> FALSE]
    /\ pic \in [irr : {FALSE}, inService : {{}}, mask : {{12}, {2, 12}},
                remapped : {FALSE}]
    /\ ob = [full |-> FALSE, aux |-> FALSE, byte |-> 0]
    /\ mouse = [sent |-> 0, taken |-> 0]
    /\ keys = [sent |-> 0, taken |-> 0]
    /\ moves = <<>>
-----------------------------------------------------------------------------
\* The PICs pass IRQ 12 on and the CPU accepts it.
CanInterrupt == ifl /\ pic.irr /\ pic.inService = {} /\ pic.mask = {}

\* The controller has a byte to put into its empty output buffer.
CanFill == ~ob.full /\ (mouse.taken < mouse.sent \/ keys.taken < keys.sent)

\* kernelMain can take step l: the handler is not running, and an accepted
\* interrupt comes first unless its delivery takes time.
At(l) == pc = l /\ isr = "idle" /\ (hw.latency \/ ~CanInterrupt)

\* A port read happens after the controller has presented its next byte.
Settled == hw.prompt => ~CanFill

\* What the data port returns: the last byte presented, read before or not.
InByte == ob.byte

\* Reading port 0x60 empties the buffer and drops the interrupt line; a PIC
\* may forget a request that has not been acknowledged yet.  If the CPU has
\* seen it, it gets vector 0x27 instead, for which there is no gate.
ReadPort ==
    /\ ob' = [ob EXCEPT !.full = FALSE]
    /\ \/ UNCHANGED <<pic, isr>>
       \/ /\ ob.full /\ ob.aux
          /\ pic' = [pic EXCEPT !.irr = FALSE]
          /\ isr' = isr \/ (CanInterrupt /\ isr' = "dead")
-----------------------------------------------------------------------------
\* kernelMain: interrupt set-up.

LoadIDT ==
    /\ At("lidt") /\ pc' = "gate"
    /\ idt' = [idt EXCEPT !.loaded = TRUE]
    /\ UNCHANGED <<hw, isr, ifl, reg, mainQueue, pic, devices, moves>>

\* Mutant: the gate goes to entry 12 instead of entry 12 + 0x20.
SetIDTEntryUnshifted ==
    /\ At("gate") /\ pc' = "remap"
    /\ UNCHANGED <<hw, isr, ifl, reg, mainQueue, idt, pic, devices, moves>>

SetIDTEntry ==
    /\ At("gate") /\ pc' = "remap"
    /\ idt' = [idt EXCEPT !.gate = TRUE]
    /\ UNCHANGED <<hw, isr, ifl, reg, mainQueue, pic, devices, moves>>

\* Mutant: the vectors stay where the firmware put them.
RemapInPlace ==
    /\ At("remap") /\ pc' = "maskAll"
    /\ pic' = [irr |-> FALSE, inService |-> {}, mask |-> {}, remapped |-> FALSE]
    /\ UNCHANGED <<hw, isr, ifl, reg, mainQueue, idt, devices, moves>>

\* remap(), ICW1 to ICW4: the PICs forget requests and masks.
Remap ==
    /\ At("remap") /\ pc' = "maskAll"
    /\ pic' = [irr |-> FALSE, inService |-> {}, mask |-> {}, remapped |-> TRUE]
    /\ UNCHANGED <<hw, isr, ifl, reg, mainQueue, idt, devices, moves>>

\* remap(), last two writes.
MaskAll ==
    /\ At("maskAll") /\ pc' = "enable2"
    /\ pic' = [pic EXCEPT !.mask = {2, 12}]
    /\ UNCHANGED <<hw, isr, ifl, reg, mainQueue, idt, devices, moves>>

\* Mutant: line 2 of the first PIC stays masked.
EnableCascadeForgotten ==
    /\ At("enable2") /\ pc' = "enable12"
    /\ UNCHANGED <<hw, isr, ifl, reg, mainQueue, idt, pic, devices, moves>>

EnableCascade ==
    /\ At("enable2") /\ pc' = "enable12"
    /\ pic' = [pic EXCEPT !.mask = @ \ {2}]
    /\ UNCHANGED <<hw, isr, ifl, reg, mainQueue, idt, devices, moves>>

EnableMouse ==
    /\ At("enable12") /\ pc' = "cli"
    /\ pic' = [pic EXCEPT !.mask = @ \ {12}]
    /\ UNCHANGED <<hw, isr, ifl, reg, mainQueue, idt, devices, moves>>

Boot == \/ LoadIDT \/ SetIDTEntry \/ Remap \/ MaskAll
        \/ EnableCascade \/ EnableMouse
-----------------------------------------------------------------------------
\* kernelMain: the event loop.

\* Mutant: the queue is examined with interrupts enabled.
CliForgotten ==
    /\ At("cli") /\ pc' = "check"
    /\ UNCHANGED <<hw, isr, ifl, reg, mainQueue, idt, pic, devices, moves>>

Cli ==
    /\ At("cli") /\ pc' = "check" /\ ifl' = FALSE
    /\ UNCHANGED <<hw, isr, reg, mainQueue, idt, pic, devices, moves>>

Check ==
    /\ At("check")
    /\ pc' = IF mainQueue.count = 0 THEN "hlt" ELSE "get"
    /\ UNCHANGED <<hw, isr, ifl, reg, mainQueue, idt, pic, devices, moves>>

\* Mutant: sti without hlt, the loop polls.
StiWithoutHlt ==
    /\ At("hlt") /\ pc' = "get" /\ ifl' = TRUE
    /\ UNCHANGED <<hw, isr, reg, mainQueue, idt, pic, devices, moves>>

\* sti; hlt: sti holds interrupts back until hlt has begun to wait.
StiHlt ==
    /\ At("hlt") /\ pc' = "halted" /\ ifl' = TRUE
    /\ UNCHANGED <<hw, isr, reg, mainQueue, idt, pic, devices, moves>>

\* get() returns InterruptMouse, the only message, whatever the queue holds.
GetMessage ==
    /\ At("get") /\ pc' = "popLoad"
    /\ UNCHANGED <<hw, isr, ifl, reg, mainQueue, idt, pic, devices, moves>>

\* pop(), first half: the count is tested and kept in a register.
PopLoad ==
    /\ At("popLoad")
    /\ pc' = IF mainQueue.count = 0 THEN "sti" ELSE "popStore"
    /\ reg' = [reg EXCEPT !.count = mainQueue.count]
    /\ UNCHANGED <<hw, isr, ifl, mainQueue, idt, pic, devices, moves>>

\* pop(), second half: the slot is released and the count written back.
PopStore ==
    /\ At("popStore") /\ pc' = "sti"
    /\ mainQueue' = [mainQueue EXCEPT !.readPos = Advance(@),
                                      !.count = reg.count - 1]
    /\ UNCHANGED <<hw, isr, ifl, reg, idt, pic, devices, moves>>

Sti ==
    /\ At("sti") /\ pc' = "status" /\ ifl' = TRUE
    /\ UNCHANGED <<hw, isr, reg, mainQueue, idt, pic, devices, moves>>

Loop == \/ Cli \/ Check \/ StiHlt \/ GetMessage
        \/ PopLoad \/ PopStore \/ Sti
-----------------------------------------------------------------------------
\* MousePS2::process.

\* Mutant: process looks at the source of the byte but not at bit 0.
ReadStatusSourceOnly ==
    /\ At("status") /\ Settled
    /\ pc' = IF ob.aux THEN "readFlg" ELSE "drainStatus"
    /\ UNCHANGED <<hw, isr, ifl, reg, mainQueue, idt, pic, devices, moves>>

ReadStatus ==
    /\ At("status") /\ Settled
    /\ pc' = IF ~ob.full THEN "cli"
             ELSE IF ob.aux THEN "readFlg" ELSE "drainStatus"
    /\ UNCHANGED <<hw, isr, ifl, reg, mainQueue, idt, pic, devices, moves>>

ReadFlg ==
    /\ At("readFlg") /\ Settled /\ pc' = "readX"
    /\ reg' = [reg EXCEPT !.flg = InByte]
    /\ ReadPort
    /\ UNCHANGED <<hw, ifl, mainQueue, idt, mouse, keys, moves>>

ReadX ==
    /\ At("readX") /\ Settled /\ pc' = "readY"
    /\ reg' = [reg EXCEPT !.x = InByte]
    /\ ReadPort
    /\ UNCHANGED <<hw, ifl, mainQueue, idt, mouse, keys, moves>>

\* The third byte, and moveRelative with the three.
ReadY ==
    /\ At("readY") /\ Settled /\ pc' = "cli"
    /\ moves' = Append(moves, <<reg.flg, reg.x, InByte>>)
    /\ ReadPort
    /\ UNCHANGED <<hw, ifl, reg, mainQueue, idt, mouse, keys>>

DrainStatus ==
    /\ At("drainStatus") /\ Settled
    /\ pc' = IF ob.full THEN "drainRead" ELSE "cli"
    /\ UNCHANGED <<hw, isr, ifl, reg, mainQueue, idt, pic, devices, moves>>

DrainRead ==
    /\ At("drainRead") /\ Settled /\ pc' = "drainStatus"
    /\ ReadPort
    /\ UNCHANGED <<hw, ifl, reg, mainQueue, idt, mouse, keys, moves>>

Process == \/ ReadStatus \/ ReadFlg \/ ReadX \/ ReadY
           \/ DrainStatus \/ DrainRead
-----------------------------------------------------------------------------
\* InterruptHandlerPS2Mouse, through an interrupt gate: it runs with the
\* interrupt flag clear.  hlt ends with the interrupt that wakes the CPU.

Interrupt ==
    /\ isr = "idle" /\ CanInterrupt
    /\ isr' = "push" /\ ifl' = FALSE
    /\ pc' = IF pc = "halted" THEN "get" ELSE pc
    /\ pic' = [pic EXCEPT !.irr = FALSE, !.inService = {1, 2}]
    /\ UNCHANGED <<hw, reg, mainQueue, idt, devices, moves>>

\* The Status push returns is not looked at.
HandlerPush ==
    /\ isr = "push" /\ isr' = "eoi1"
    /\ mainQueue' = Pushed(mainQueue, InterruptMouse)
    /\ UNCHANGED <<hw, pc, ifl, reg, idt, pic, devices, moves>>

\* endOfInterrupt(12), first the PIC the CPU is wired to, then the other.
HandlerEoi1 ==
    /\ isr = "eoi1" /\ isr' = "eoi2"
    /\ pic' = [pic EXCEPT !.inService = @ \ {1}]
    /\ UNCHANGED <<hw, pc, ifl, reg, mainQueue, idt, devices, moves>>

\* Mutant: the second PIC gets no EOI although IRQ 12 is one of its lines.
HandlerEoiFirstOnly ==
    /\ isr = "eoi2" /\ isr' = "iret"
    /\ UNCHANGED <<hw, pc, ifl, reg, mainQueue, idt, pic, devices, moves>>

HandlerEoi2 ==
    /\ isr = "eoi2" /\ isr' = "iret"
    /\ pic' = [pic EXCEPT !.inService = @ \ {2}]
    /\ UNCHANGED <<hw, pc, ifl, reg, mainQueue, idt, devices, moves>>

HandlerReturn ==
    /\ isr = "iret" /\ isr' = "idle" /\ ifl' = TRUE
    /\ UNCHANGED <<hw, pc, reg, mainQueue, idt, pic, devices, moves>>

Handler == HandlerPush \/ HandlerEoi1 \/ HandlerEoi2 \/ HandlerReturn
-----------------------------------------------------------------------------
\* The devices.

Touchable == hw.quiet => pc \notin {"lidt", "gate", "remap", "maskAll"}

\* The mouse reports a movement or a button: three bytes.
MouseMove ==
    /\ Touchable /\ mouse.sent + 3 <= 3 * MaxPackets
    /\ mouse' = [mouse EXCEPT !.sent = @ + 3]
    /\ UNCHANGED <<hw, cpu, mainQueue, idt, pic, ob, keys, moves>>

KeyPress ==
    /\ Touchable /\ keys.sent < MaxKeys
    /\ keys' = [keys EXCEPT !.sent = @ + 1]
    /\ UNCHANGED <<hw, cpu, mainQueue, idt, pic, ob, mouse, moves>>

\* A byte from the mouse appears: the line of IRQ 12 rises.
FillMouse ==
    /\ ~ob.full /\ mouse.taken < mouse.sent
    /\ ob' = [full |-> TRUE, aux |-> TRUE, byte |-> mouse.taken + 1]
    /\ mouse' = [mouse EXCEPT !.taken = @ + 1]
    /\ pic' = [pic EXCEPT !.irr = TRUE]
    /\ UNCHANGED <<hw, cpu, mainQueue, idt, keys, moves>>

\* A byte from the keyboard appears: IRQ 1, which stays masked.
FillKey ==
    /\ ~ob.full /\ keys.taken < keys.sent
    /\ ob' = [full |-> TRUE, aux |-> FALSE, byte |-> 0]
    /\ keys' = [keys EXCEPT !.taken = @ + 1]
    /\ UNCHANGED <<hw, cpu, mainQueue, idt, pic, mouse, moves>>

Fill == FillMouse \/ FillKey
-----------------------------------------------------------------------------
KernelStep == Boot \/ Loop \/ Process

Next == \/ KernelStep \/ Interrupt \/ Handler
        \/ Fill \/ MouseMove \/ KeyPress

Spec == Init /\ [][Next]_vars

\* The CPU executes, interrupts are delivered, the controller transfers
\* bytes; nothing says that the user moves the mouse or presses a key.
Fairness ==
    /\ WF_vars(KernelStep)
    /\ WF_vars(Interrupt)
    /\ WF_vars(Handler)
    /\ WF_vars(Fill)

FairSpec == Spec /\ Fairness
-----------------------------------------------------------------------------
PicType == [irr : BOOLEAN, inService : SUBSET {1, 2},
            mask : SUBSET {2, 12}, remapped : BOOLEAN]
BufferType == [full : BOOLEAN, aux : BOOLEAN, byte : Bytes]

\* Every variable has its type; in particular the queue's counters stay
\* inside the array even when a push comes between the halves of a pop.
TypeOK ==
    /\ hw \in Machines
    /\ pc \in BootPc \union LoopPc
    /\ isr \in {"idle", "push", "eoi1", "eoi2", "iret", "dead"}
    /\ ifl \in BOOLEAN
    /\ reg \in [count : 0 .. Size, flg : Bytes, x : Bytes]
    /\ mainQueue \in QueueType
    /\ idt \in [loaded : BOOLEAN, gate : BOOLEAN]
    /\ pic \in PicType
    /\ ob \in BufferType
    /\ mouse \in [sent : 0 .. 3 * MaxPackets, taken : 0 .. 3 * MaxPackets]
    /\ mouse.taken <= mouse.sent
    /\ keys \in [sent : 0 .. MaxKeys, taken : 0 .. MaxKeys]
    /\ moves \in Seq(Bytes \X Bytes \X Bytes)

\* An interrupt that can reach the CPU finds a loaded IDT with the mouse gate
\* in it, and PICs that send vector 0x2c: kernelMain unmasks nothing before
\* the handler is in place, and remap's own unmasking comes after the gate.
HandlerReady == CanInterrupt => idt.loaded /\ idt.gate /\ pic.remapped

\* The event loop never goes to sleep on a mouse byte: whenever kernelMain is
\* halted while the output buffer holds one, the interrupt that will wake it
\* is on its way, even after pushes that a full queue refused.  (A byte that
\* came before remap() is lost for good: remap() drops its interrupt.)
NoLostWakeup ==
    hw.quiet /\ pc = "halted" /\ isr = "idle" /\ ob.full /\ ob.aux
        => CanInterrupt

\* get() is called, and pop() takes its count, only when a message is
\* queued: the missing `continue` after hlt is harmless because only the
\* handler, which pushes, ends the hlt.
GetHasMessage ==
    isr = "idle" /\ pc \in {"get", "popLoad"} => mainQueue.count > 0

\* The queue's counters agree although pop runs with interrupts enabled
\* after a hlt: no handler comes between the halves of the pop, because no
\* new byte can arrive before process has read the old one.
QueuePositions == ~hw.latency => PositionsMatch(mainQueue)

\* Every move of the cursor is computed from the three bytes of one packet,
\* packet after packet ("checks whether the mouse has moved and if so moves
\* the cursor", mouse.hpp:12).
Packet(k) == <<3 * k - 2, 3 * k - 1, 3 * k>>
PacketsIntact == \A k \in DOMAIN moves : moves[k] = Packet(k)

\* The same where the controller presents each byte in time and no keyboard
\* byte comes between two bytes of a packet.
PromptPacketsIntact == hw.prompt /\ keys.sent = 0 => PacketsIntact

\* Everything the mouse has reported is on the screen in the end, on such a
\* machine and if it was quiet during the set-up, unless a late interrupt
\* turns into one that has no gate.
EveryMoveShown ==
    hw.prompt /\ hw.quiet =>
        <>[](3 * Len(moves) = mouse.sent) \/ <>(keys.sent > 0)
            \/ (hw.latency /\ <>(isr = "dead"))

\* A mouse byte in the output buffer is read, whatever the keyboard does and
\* however slow the controller and the interrupts are.
MouseByteRead ==
    \A b \in MouseBytes :
        hw.quiet /\ ob.full /\ ob.byte = b
            ~> ob.byte # b \/ ~ob.full \/ isr = "dead"

\* The calls act on the PICs as PicView, which Interrupts implements access by
\* access, says: what is atomic here may be.
View == INSTANCE PicView
ImplementsPicView == View!Spec

\* A keyboard byte is thrown away ("on keyboard input discard the buffer",
\* mouse.cpp:18).
KeyboardDiscarded == ob.full /\ ~ob.aux ~> ~ob.full
=============================================================================
