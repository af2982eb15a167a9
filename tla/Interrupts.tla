----------------------------- MODULE Interrupts -----------------------------
(***************************************************************************)
(* How an interrupt finds its way: kernelMain's set-up of the descriptor   *)
(* table and of the two PICs, one port access at a time, the CPU, the end  *)
(* of interrupt, and the timer, keyboard and mouse lines, which can rise   *)
(* between any two accesses.  Composes Pic and Idt.  The event loop is     *)
(* reduced to its sti, its cli and the read that takes the mouse's line    *)
(* down; EventLoop has it in full.                                         *)
(***************************************************************************)
EXTENDS Pic, Idt, Sequences

CONSTANTS HandlerAddress, \* of InterruptHandlerPS2Mouse
          Machines        \* see MachineType

\* What the firmware leaves and what the machine does.
MachineType == [
    enabled : BOOLEAN,   \* the interrupt flag is set on entry to the kernel
    others  : BOOLEAN,   \* the timer and the keyboard are at work
    late    : BOOLEAN,   \* the CPU looks at the PIC's output with a delay
    imr     : SUBSET Lines] \* the mask of the first PIC

ASSUME InterruptsAssumption ==
    HandlerAddress \in Nat \ {0} /\ Machines \subseteq MachineType

VARIABLES
    machine,  \* the machine, which never changes
    pc, k,    \* the next step of kernelMain, and of the call it is in
    value,    \* enable's local variable
    isr,      \* the next step of the handler, "idle", or "dead" after a vector
              \*   without a gate
    ifl,      \* the CPU's interrupt flag
    idt,      \* the kernel's table, vectors 0x20 to 0x2f
    loaded,   \* does the CPU use it
    chips,    \* PIC1 and PIC2
    high,     \* the lines that devices hold high
    seen      \* the PIC's output as the CPU last saw it

kernel == <<pc, k, value>>
table == <<idt, loaded>>
vars == <<machine, kernel, isr, ifl, table, chips, high, seen>>

Vectors == 32 .. 47

\* Line 12 is line 4 of the second chip.
ChipOf(irq) == IF irq < 8 THEN 1 ELSE 2
LineOf(irq) == irq % 8

\* The firmware has PICs at the vectors 8 and 0x70, its mouse line masked.
Init ==
    /\ machine \in Machines
    /\ pc = "lidt" /\ k = 1 /\ value = 0 /\ isr = "idle"
    /\ ifl = machine.enabled
    /\ idt = [v \in Vectors |-> Empty] /\ loaded = FALSE
    /\ chips = <<Chip(machine.imr, 8), Chip(Lines, 112)>>
    /\ high = {} /\ seen = FALSE
-----------------------------------------------------------------------------
\* The second chip's output is line 2 of the first.
Requests ==
    Pending(IF Pending(chips[2]) = {} THEN chips[1]
            ELSE [chips[1] EXCEPT !.irr = @ \union {2}])

Output == Requests # {}

\* kernelMain takes a step; an interrupt that is seen at once comes first.
At(l) == pc = l /\ isr = "idle" /\ (machine.late \/ ~(ifl /\ Output))

LoadIDT ==
    /\ At("lidt") /\ pc' = "gate" /\ loaded' = TRUE
    /\ UNCHANGED <<machine, k, value, isr, ifl, idt, chips, high, seen>>

\* Entry 12 + 0x20.
SetGate ==
    /\ At("gate") /\ pc' = "remap"
    /\ idt' = [idt EXCEPT ![12 + 32] =
                  SetIDTEntry(CreateIDTAttr(InterruptGate), HandlerAddress)]
    /\ UNCHANGED <<machine, k, value, isr, ifl, loaded, chips, high, seen>>

\* Mutant: the vectors of the second PIC overlap the exceptions'.
RemapWritesOffset ==
    <<<<1, ICW1>>, <<2, ICW1>>, <<1, 32>>, <<2, 8>>, <<1, 4>>, <<2, 2>>,
      <<1, 1>>, <<2, 1>>, <<1, 255>>, <<2, 255>>>>

\* Mutant: the masks are written before the last initialisation words.
RemapWritesEarlyMask ==
    <<<<1, ICW1>>, <<2, ICW1>>, <<1, 32>>, <<2, 40>>, <<1, 4>>, <<2, 2>>,
      <<1, 255>>, <<2, 255>>, <<1, 1>>, <<2, 1>>>>

\* remap(): the first two writes go to the command ports, the others to the
\* data ports.
RemapWrites ==
    <<<<1, ICW1>>, <<2, ICW1>>, <<1, 32>>, <<2, 40>>, <<1, 4>>, <<2, 2>>,
      <<1, 1>>, <<2, 1>>, <<1, 255>>, <<2, 255>>>>

RemapWrite ==
    /\ At("remap")
    /\ LET c == RemapWrites[k][1]
           v == RemapWrites[k][2]
       IN  chips' = [chips EXCEPT ![c] = IF k <= 2 THEN Command(@, v) ELSE Data(@, v)]
    /\ IF k = 10 THEN pc' = "enable2" /\ k' = 1 ELSE k' = k + 1 /\ UNCHANGED pc
    /\ UNCHANGED <<machine, value, isr, ifl, table, high, seen>>

\* enable(irq): the mask is read, and written back without one bit.
EnableRead(irq) ==
    /\ k = 1 /\ k' = 2
    /\ value' = Value(chips[ChipOf(irq)].imr \ {LineOf(irq)})
    /\ UNCHANGED <<pc, chips>>

EnableWrite(irq, next) ==
    /\ k = 2 /\ k' = 1 /\ pc' = next
    /\ chips' = [chips EXCEPT ![ChipOf(irq)] = Data(@, value)]
    /\ UNCHANGED value

\* Mutant: line 12 is taken for a line of the first PIC.
EnableMouseWrongChip ==
    /\ At("enable12")
    /\ EnableRead(4) \/ EnableWrite(4, "run")
    /\ UNCHANGED <<machine, isr, ifl, table, high, seen>>

EnableCascade ==
    /\ At("enable2")
    /\ EnableRead(2) \/ EnableWrite(2, "enable12")
    /\ UNCHANGED <<machine, isr, ifl, table, high, seen>>

EnableMouse ==
    /\ At("enable12")
    /\ EnableRead(12) \/ EnableWrite(12, "run")
    /\ UNCHANGED <<machine, isr, ifl, table, high, seen>>

SetUp == LoadIDT \/ SetGate \/ RemapWrite \/ EnableCascade \/ EnableMouse

\* The event loop.
Cli == /\ At("run") /\ ifl /\ ifl' = FALSE
       /\ UNCHANGED <<machine, kernel, isr, table, chips, high, seen>>

Sti == /\ At("run") /\ ~ifl /\ ifl' = TRUE
       /\ UNCHANGED <<machine, kernel, isr, table, chips, high, seen>>
-----------------------------------------------------------------------------
\* The lines.  A falling line may take a request along that has not been
\* acknowledged.
Lower(irq) ==
    /\ irq \in high /\ high' = high \ {irq}
    /\ \/ UNCHANGED chips
       \/ chips' = [chips EXCEPT ![ChipOf(irq)].irr = @ \ {LineOf(irq)}]
    /\ UNCHANGED <<machine, kernel, isr, ifl, table, seen>>

Raise(irq) ==
    /\ irq \notin high /\ high' = high \union {irq}
    /\ chips' = [chips EXCEPT ![ChipOf(irq)].irr = @ \union {LineOf(irq)}]
    /\ UNCHANGED <<machine, kernel, isr, ifl, table, seen>>

\* process reads the data port.
ReadMouse == At("run") /\ Lower(12)

Devices == \/ Raise(12)
           \/ machine.others /\ \E irq \in {0, 1} : Raise(irq) \/ Lower(irq)

Look == /\ machine.late /\ isr # "dead" /\ seen' = Output
        /\ UNCHANGED <<machine, kernel, isr, ifl, table, chips, high>>

\* The CPU takes an interrupt.  A request that is gone by now is answered
\* with line 7, "spurious".  Before LIDT the firmware's handlers serve.
Accept ==
    /\ isr = "idle" /\ ifl /\ loaded
    /\ IF machine.late THEN seen ELSE Output
    /\ LET l == IF Output THEN Min(Requests) ELSE 7
           m == Min(Pending(chips[2]))
           v == IF l = 2 THEN chips[2].base + m ELSE chips[1].base + l
       IN  /\ chips' = IF ~Output THEN chips
                       ELSE IF l # 2 THEN [chips EXCEPT ![1] = Acknowledged(@, l)]
                       ELSE <<Acknowledged(chips[1], 2), Acknowledged(chips[2], m)>>
           /\ isr' = IF v \in Vectors /\ IsGate(idt[v])
                           /\ Target(idt[v]) = HandlerAddress
                     THEN "eoi1" ELSE "dead"
    /\ ifl' = FALSE /\ seen' = FALSE
    /\ UNCHANGED <<machine, kernel, table, high>>

\* endOfInterrupt(12), after the push that EventLoop models.
HandlerEoi1 ==
    /\ isr = "eoi1" /\ isr' = "eoi2"
    /\ chips' = [chips EXCEPT ![1] = Command(@, EOI)]
    /\ UNCHANGED <<machine, kernel, ifl, table, high, seen>>

\* Mutant: only the PIC the CPU is wired to hears of the end.
HandlerEoi2Missing ==
    /\ isr = "eoi2" /\ isr' = "iret"
    /\ UNCHANGED <<machine, kernel, ifl, table, chips, high, seen>>

HandlerEoi2 ==
    /\ isr = "eoi2" /\ isr' = "iret"
    /\ chips' = [chips EXCEPT ![2] = Command(@, EOI)]
    /\ UNCHANGED <<machine, kernel, ifl, table, high, seen>>

HandlerReturn ==
    /\ isr = "iret" /\ isr' = "idle" /\ ifl' = TRUE
    /\ UNCHANGED <<machine, kernel, table, chips, high, seen>>

Handler == HandlerEoi1 \/ HandlerEoi2 \/ HandlerReturn
-----------------------------------------------------------------------------
Kernel == SetUp \/ Sti

Next == Kernel \/ Cli \/ ReadMouse \/ Handler \/ Accept \/ Look \/ Devices

Spec == Init /\ [][Next]_vars

\* The CPU goes on and looks at the PIC again and again; the event loop
\* always comes back to its sti.
FairSpec == Spec /\ WF_vars(Kernel) /\ WF_vars(Handler)
                 /\ SF_vars(Accept) /\ WF_vars(Look)
-----------------------------------------------------------------------------
\* Every interrupt finds the handler of the mouse behind its vector, also
\* one that comes between two port accesses of remap, which opens both PICs
\* for a while: if the firmware hands over with interrupts disabled or no
\* other device is at work, and if requests do not come late.
Handled ==
    ~machine.late /\ (~machine.enabled \/ ~machine.others) => isr # "dead"

\* Outside the handler neither PIC has a request in service, which would
\* keep every later request of its priority and below from the CPU.
ServiceEnds ==
    isr = "idle" => chips[1].isr = {} /\ chips[2].isr = {}

\* Once set up, a request of the mouse is answered, time after time.
MouseServed ==
    pc = "run" /\ 4 \in chips[2].irr ~> 4 \notin chips[2].irr \/ isr = "dead"

\* The port accesses implement the PICs as EventLoop sees them.  A remap
\* counts as done with its second write; until then the masks are those the
\* firmware left.
Begun == pc \notin {"lidt", "gate"} /\ (pc = "remap" => k > 2)

pic ==
    [irr |-> 4 \in chips[2].irr,
     inService |-> {c \in {1, 2} : (IF c = 1 THEN 2 ELSE 4) \in chips[c].isr},
     mask |-> IF Begun THEN {irq \in {2, 12} : LineOf(irq) \in chips[ChipOf(irq)].imr}
              ELSE {12} \union ({2} \intersect machine.imr),
     remapped |-> Begun /\ \A c \in {1, 2} :
                     chips[c].icw # 0 \/ chips[c].base = IF c = 1 THEN 32 ELSE 40]

View == INSTANCE PicView

ImplementsPicView == View!Spec
=============================================================================
