-------------------------- MODULE InterruptsProofs --------------------------
(***************************************************************************)
(* Proofs about Interrupts, for every set of machines, every width of the  *)
(* descriptors' parts and every address of the handler.                    *)
(***************************************************************************)
EXTENDS Interrupts, TLAPS

\* The devices are on the lines 0, 1 and 12, a chip's vectors are the
\* firmware's or the kernel's, and only the mouse's vector gets a gate.
Wiring ==
    /\ chips \in [{1, 2} -> ChipType]
    /\ chips[1].irr \subseteq {0, 1} /\ chips[2].irr \subseteq {4}
    /\ chips[1].base \in {8, 32} /\ chips[2].base \in {112, 40}
    /\ idt \in [Vectors -> {Empty} \union {idt[44]}]
    /\ \A v \in Vectors \ {44} : idt[v] = Empty

\* The initialisation word each chip waits for at each step of remap.
Awaited(c) ==
    IF pc # "remap" THEN 0
    ELSE IF k \in {1 + c, 2 + c} THEN 2
    ELSE IF k \in {3 + c, 4 + c} THEN 3
    ELSE IF k \in {5 + c, 6 + c} THEN 4 ELSE 0

Dialogue ==
    /\ pc \in {"lidt", "gate"} => k = 1
    /\ pc = "remap" => k \in 1 .. 10
    /\ chips[1].icw = Awaited(1) /\ chips[2].icw = Awaited(2)

\* The requests in service are those of the handler's step.
Served ==
    /\ isr \in {"idle", "eoi1", "eoi2", "iret", "dead"}
    /\ isr # "dead" =>
           /\ chips[1].isr = IF isr = "eoi1" THEN {2} ELSE {}
           /\ chips[2].isr = IF isr \in {"eoi1", "eoi2"} THEN {4} ELSE {}

IInv == Wiring /\ Dialogue /\ Served
-----------------------------------------------------------------------------
\* The line of highest priority is one of the lines requested.
LEMMA MinOfOne ==
    ASSUME NEW n \in Nat
    PROVE  Min({n}) = n
<1>1. \E x \in {n} : \A y \in {n} : x <= y
  OBVIOUS
<1>2. QED
  BY <1>1 DEF Min

\* The least of the lines the first chip can have requests on.
LEMMA MinOfLines ==
    ASSUME NEW S \in SUBSET {0, 1, 2}, S # {}
    PROVE  Min(S) \in S
<1>1. \E x \in S : \A y \in S : x <= y
  <2>1. CASE 0 \in S
    <3>1. \A y \in S : 0 <= y
      OBVIOUS
    <3>2. QED
      BY <2>1, <3>1
  <2>2. CASE 0 \notin S /\ 1 \in S
    <3>1. \A y \in S : y \in {1, 2}
      BY <2>2
    <3>2. QED
      BY <2>2, <3>1
  <2>3. CASE 0 \notin S /\ 1 \notin S
    <3>1. S = {2}
      BY <2>3
    <3>2. QED
      BY <3>1
  <2>4. QED
    BY <2>1, <2>2, <2>3
<1>2. QED
  BY <1>1 DEF Min

\* Every mask is a set of lines.
LEMMA BitsAreLines == \A v : Bits(v) \in SUBSET Lines
BY DEF Bits

\* Every set of lines is the bits of a register.
LEMMA BitsOfSum ==
    ASSUME NEW b \in [Lines -> {0, 1}]
    PROVE  \E v \in 0 .. 255 : Bits(v) = {l \in Lines : b[l] = 1}
<1>1. /\ b[0] \in {0, 1} /\ b[1] \in {0, 1} /\ b[2] \in {0, 1}
      /\ b[3] \in {0, 1} /\ b[4] \in {0, 1} /\ b[5] \in {0, 1}
      /\ b[6] \in {0, 1} /\ b[7] \in {0, 1}
  BY DEF Lines
<1> DEFINE v == b[0] + 2 * b[1] + 4 * b[2] + 8 * b[3] + 16 * b[4]
                + 32 * b[5] + 64 * b[6] + 128 * b[7]
<1>2. v \in 0 .. 255
  BY <1>1
<1>3. /\ (v \div 1) % 2 = b[0] /\ (v \div 2) % 2 = b[1]
      /\ (v \div 4) % 2 = b[2] /\ (v \div 8) % 2 = b[3]
  BY <1>1
<1>4. /\ (v \div 16) % 2 = b[4] /\ (v \div 32) % 2 = b[5]
      /\ (v \div 64) % 2 = b[6] /\ (v \div 128) % 2 = b[7]
  BY <1>1
<1> HIDE DEF v
<1>5. \A l \in Lines : (v \div Weight[l + 1]) % 2 = b[l]
  <2>1. SUFFICES ASSUME NEW l \in {0, 1, 2, 3, 4, 5, 6, 7}
                 PROVE  (v \div Weight[l + 1]) % 2 = b[l]
    BY DEF Lines
  <2>2. /\ Weight[1] = 1 /\ Weight[2] = 2 /\ Weight[3] = 4 /\ Weight[4] = 8
        /\ Weight[5] = 16 /\ Weight[6] = 32 /\ Weight[7] = 64
        /\ Weight[8] = 128
    BY DEF Weight
  <2>3. CASE l \in {0, 1, 2, 3}
    BY <1>3, <2>2, <2>3
  <2>4. CASE l \in {4, 5, 6, 7}
    BY <1>4, <2>2, <2>4
  <2>5. QED
    BY <2>3, <2>4
<1>6. QED
  BY <1>2, <1>5 DEF Bits

\* What enable writes back is what it has read, without the one bit.
LEMMA BitsOfValue ==
    ASSUME NEW S \in SUBSET Lines
    PROVE  Bits(Value(S)) = S
<1> DEFINE b == [l \in Lines |-> IF l \in S THEN 1 ELSE 0]
<1>1. b \in [Lines -> {0, 1}] /\ {l \in Lines : b[l] = 1} = S
  OBVIOUS
<1>2. \E v \in 0 .. 255 : Bits(v) = S
  BY <1>1, BitsOfSum
<1>3. QED
  BY <1>2 DEF Value

\* remap's last words mask every line.
LEMMA BitsOf255 == Bits(255) = Lines
<1> SUFFICES ASSUME NEW l \in {0, 1, 2, 3, 4, 5, 6, 7}
             PROVE  (255 \div Weight[l + 1]) % 2 = 1
  BY DEF Bits, Lines
<1>1. QED
  BY DEF Weight

\* A number's quotient is the one its remainder leaves.
LEMMA QuotientIs ==
    ASSUME NEW n \in Nat, NEW d \in Nat \ {0}, NEW q \in Nat,
           NEW r \in 0 .. d - 1, n = d * q + r
    PROVE  n \div d = q
OBVIOUS

\* The parts of an address, put together by the CPU, are the address.
LEMMA TargetOfEntry ==
    ASSUME NEW attr
    PROVE  /\ Target(SetIDTEntry(attr, HandlerAddress)) = HandlerAddress
           /\ SetIDTEntry(attr, HandlerAddress).attr = attr
<1>1. Word \in Nat \ {0} /\ HandlerAddress \in Nat
  BY IdtAssumption, InterruptsAssumption
<1> DEFINE q == HandlerAddress \div Word
           r == HandlerAddress % Word
           h == q \div Word
           m == q % Word
<1>2. /\ q \in Nat /\ r \in 0 .. Word - 1 /\ HandlerAddress = Word * q + r
  BY <1>1
<1>3. /\ h \in Nat /\ m \in 0 .. Word - 1 /\ q = Word * h + m
  BY <1>1, <1>2
<1> HIDE DEF q, r, h, m
<1>4. /\ Word * m + r \in 0 .. Word * Word - 1 /\ Word * Word \in Nat \ {0}
      /\ Word * m \in Nat
  BY <1>1, <1>2, <1>3
<1>5. HandlerAddress = Word * Word * h + (Word * m + r)
  BY <1>1, <1>2, <1>3
<1>6. HandlerAddress \div (Word * Word) = h
  BY <1>1, <1>3, <1>4, <1>5, QuotientIs
<1>7. Target(SetIDTEntry(attr, HandlerAddress))
          = r + m * Word + h * (Word * Word)
  BY <1>6 DEF Target, SetIDTEntry, Descriptor, q, r, m
<1>8. QED
  BY <1>1, <1>2, <1>3, <1>4, <1>5, <1>7 DEF SetIDTEntry, Descriptor

\* A write to the data port: the vectors change only when the chip waits for
\* them, and the requests never.
LEMMA DataWrite ==
    ASSUME NEW chip \in ChipType, NEW v, chip.icw = 2 => v \in 0 .. 255
    PROVE  /\ Data(chip, v) \in ChipType
           /\ Data(chip, v).irr = chip.irr /\ Data(chip, v).isr = chip.isr
           /\ Data(chip, v).base = IF chip.icw = 2 THEN v ELSE chip.base
           /\ Data(chip, v).imr = IF chip.icw = 0 THEN Bits(v) ELSE chip.imr
           /\ Data(chip, v).icw = IF chip.icw = 2 THEN 3
                                  ELSE IF chip.icw = 3 THEN 4 ELSE 0
<1>1. /\ 2 # 3 /\ 2 # 4 /\ 3 # 4 /\ 0 # 2 /\ 0 # 3 /\ 0 # 4
      /\ chip.icw \in {0, 2, 3, 4}
  BY DEF ChipType
<1>2. CASE chip.icw = 2
  <2>1. Data(chip, v) = [chip EXCEPT !.base = v, !.icw = 3]
    BY <1>1, <1>2, Zenon DEF Data
  <2>2. /\ Data(chip, v) \in ChipType /\ Data(chip, v).irr = chip.irr
        /\ Data(chip, v).isr = chip.isr /\ Data(chip, v).icw = 3
    BY <1>2, <2>1 DEF ChipType
  <2>3. Data(chip, v).base = v /\ Data(chip, v).imr = chip.imr
    BY <1>2, <2>1 DEF ChipType
  <2>4. QED
    BY <1>1, <1>2, <2>2, <2>3
<1>3. CASE chip.icw = 3
  <2>1. Data(chip, v) = [chip EXCEPT !.icw = 4]
    BY <1>1, <1>3, Zenon DEF Data
  <2>2. QED
    BY <1>3, <2>1 DEF ChipType
<1>4. CASE chip.icw = 4
  <2>1. Data(chip, v) = [chip EXCEPT !.icw = 0]
    BY <1>1, <1>4, Zenon DEF Data
  <2>2. QED
    BY <1>4, <2>1 DEF ChipType
<1>5. CASE chip.icw = 0
  <2>1. Data(chip, v) = [chip EXCEPT !.imr = Bits(v)]
    BY <1>1, <1>5, Zenon DEF Data
  <2>2. QED
    BY <1>5, <2>1, BitsAreLines DEF ChipType
<1>6. QED
  BY <1>1, <1>2, <1>3, <1>4, <1>5

\* The first word of remap forgets the requests and the service.
LEMMA Icw1Write ==
    ASSUME NEW chip \in ChipType
    PROVE  /\ Command(chip, ICW1) \in ChipType
           /\ Command(chip, ICW1).irr = {} /\ Command(chip, ICW1).isr = {}
           /\ Command(chip, ICW1).base = chip.base
           /\ Command(chip, ICW1).imr = {} /\ Command(chip, ICW1).icw = 2
<1>1. ICW1 # EOI
  BY DEF ICW1, EOI
<1>2. Command(chip, ICW1) = [Chip({}, chip.base) EXCEPT !.icw = 2]
  BY <1>1, Zenon DEF Command
<1>3. QED
  BY <1>2 DEF ChipType, Chip, Lines

\* The end of interrupt ends the only service there is.
LEMMA EoiWrite ==
    ASSUME NEW chip \in ChipType, NEW l \in Lines, chip.isr = {l}
    PROVE  Command(chip, EOI) = [chip EXCEPT !.isr = {}]
<1>1. Min(chip.isr) = l
  BY MinOfOne DEF Lines
<1>2. ICW1 # EOI /\ chip.isr # {}
  BY DEF ICW1, EOI
<1>3. Command(chip, EOI) = [chip EXCEPT !.isr = @ \ {Min(@)}]
  BY <1>2, Zenon DEF Command
<1>4. QED
  BY <1>1, <1>3
-----------------------------------------------------------------------------
\* The firmware leaves both chips without a request in service.
LEMMA InitInv == Init => IInv
<1> SUFFICES ASSUME Init PROVE IInv
  OBVIOUS
<1>1. machine \in MachineType
  BY InterruptsAssumption DEF Init
<1>2. machine.imr \in SUBSET Lines
  BY <1>1 DEF MachineType
<1>3. Chip(machine.imr, 8) \in ChipType /\ Chip(Lines, 112) \in ChipType
  BY <1>2 DEF Chip, ChipType, Lines
<1>4. Wiring
  BY <1>3 DEF Init, Wiring, Chip, Vectors
<1>5. Dialogue /\ Served
  BY DEF Init, Dialogue, Awaited, Served, Chip
<1>6. QED
  BY <1>4, <1>5 DEF IInv
-----------------------------------------------------------------------------
\* A step that leaves chips and table alone.
LEMMA SetUpSteps ==
    ASSUME IInv, LoadIDT \/ SetGate
    PROVE  IInv'
<1> USE DEF IInv
<1>1. Served'
  BY DEF LoadIDT, SetGate, Served
<1>2. Dialogue'
  BY DEF LoadIDT, SetGate, At, Dialogue, Awaited
<1>3. CASE LoadIDT
  <2>1. Wiring'
    BY <1>3 DEF LoadIDT, Wiring
  <2>2. QED
    BY <1>1, <1>2, <2>1
<1>4. CASE SetGate
  <2>1. idt' = [idt EXCEPT ![44] = idt'[44]] /\ UNCHANGED chips
    BY <1>4 DEF SetGate, Wiring, Vectors
  <2>2. Wiring'
    BY <2>1 DEF Wiring, Vectors
  <2>3. QED
    BY <1>1, <1>2, <2>2
<1>5. QED
  BY <1>3, <1>4

\* enable changes nothing but a mask.
LEMMA EnableSteps ==
    ASSUME IInv, EnableCascade \/ EnableMouse
    PROVE  IInv'
<1> USE DEF IInv
<1>1. /\ isr = "idle" /\ isr' = "idle" /\ idt' = idt
      /\ pc \in {"enable2", "enable12"}
      /\ pc' \in {"enable2", "enable12", "run"}
  BY DEF EnableCascade, EnableMouse, At, EnableRead, EnableWrite, table
<1>2. \/ UNCHANGED chips
      \/ \E c \in {1, 2} : chips' = [chips EXCEPT ![c] = Data(@, value)]
  <2>1. ChipOf(2) = 1 /\ ChipOf(12) = 2
    BY DEF ChipOf
  <2>2. QED
    BY <2>1 DEF EnableCascade, EnableMouse, EnableRead, EnableWrite
<1>3. CASE UNCHANGED chips
  BY <1>1, <1>3 DEF Wiring, Dialogue, Awaited, Served
<1>4. ASSUME NEW c \in {1, 2}, chips' = [chips EXCEPT ![c] = Data(@, value)]
      PROVE  IInv'
  <2>1. chips[c] \in ChipType /\ chips[1].icw = 0 /\ chips[2].icw = 0
    BY <1>1 DEF Wiring, Dialogue, Awaited
  <2>2. /\ Data(chips[c], value) \in ChipType
        /\ Data(chips[c], value).irr = chips[c].irr
        /\ Data(chips[c], value).isr = chips[c].isr
        /\ Data(chips[c], value).base = chips[c].base
        /\ Data(chips[c], value).icw = 0
    BY <2>1, DataWrite
  <2>3. Wiring'
    BY <1>1, <1>4, <2>2 DEF Wiring
  <2>4. Dialogue' /\ Served'
    BY <1>1, <1>4, <2>1, <2>2 DEF Wiring, Dialogue, Awaited, Served
  <2>5. QED
    BY <2>3, <2>4
<1>5. QED
  BY <1>2, <1>3, <1>4

\* The ten writes of remap: ICW1 to both chips, then word after word to both
\* data ports, first the vectors and last the masks.
Icw1To(c) == k = c /\ chips' = [chips EXCEPT ![c] = Command(@, ICW1)]
WordTo(c, v) == /\ k \in {2 + c, 4 + c, 6 + c, 8 + c}
                /\ k = 2 + c => v = IF c = 1 THEN 32 ELSE 40
                /\ k = 8 + c => v = 255
                /\ chips' = [chips EXCEPT ![c] = Data(@, v)]

\* Every write of remap is one of these.
LEMMA RemapWritesOne ==
    ASSUME Dialogue, RemapWrite
    PROVE  /\ isr = "idle" /\ isr' = "idle" /\ pc = "remap" /\ k \in 1 .. 10
           /\ pc' = IF k = 10 THEN "enable2" ELSE "remap"
           /\ k' = IF k = 10 THEN 1 ELSE k + 1
           /\ UNCHANGED <<machine, value, ifl, table, high, seen>>
           /\ \E c \in {1, 2} : Icw1To(c) \/ \E v \in 0 .. 255 : WordTo(c, v)
<1>0. /\ RemapWrites[1] = <<1, ICW1>> /\ RemapWrites[2] = <<2, ICW1>>
      /\ RemapWrites[3] = <<1, 32>> /\ RemapWrites[4] = <<2, 40>>
      /\ RemapWrites[5] = <<1, 4>> /\ RemapWrites[6] = <<2, 2>>
      /\ RemapWrites[7] = <<1, 1>> /\ RemapWrites[8] = <<2, 1>>
      /\ RemapWrites[9] = <<1, 255>> /\ RemapWrites[10] = <<2, 255>>
  BY DEF RemapWrites
<1>1. /\ isr = "idle" /\ isr' = "idle" /\ pc = "remap" /\ k \in 1 .. 10
      /\ pc' = IF k = 10 THEN "enable2" ELSE "remap"
      /\ k' = IF k = 10 THEN 1 ELSE k + 1
      /\ UNCHANGED <<machine, value, ifl, table, high, seen>>
  BY DEF RemapWrite, At, Dialogue
<1>2. PICK c \in {1, 2}, v \in 0 .. 255 : RemapWrites[k] = <<c, v>>
  BY <1>0, <1>1 DEF ICW1
<1>3. RemapWrites[k][1] = c /\ RemapWrites[k][2] = v
  BY <1>2
<1>4. chips' = [chips EXCEPT ![c] = IF k <= 2 THEN Command(@, v)
                                  ELSE Data(@, v)]
  BY <1>3, Zenon DEF RemapWrite
<1>5. CASE k \in {1, 2}
  <2>1. k = c /\ v = ICW1
    BY <1>0, <1>2, <1>5
  <2>2. k <= 2
    BY <1>5
  <2>3. chips' = [chips EXCEPT ![c] = Command(@, ICW1)]
    BY <1>4, <2>1, <2>2, Zenon
  <2>4. Icw1To(c)
    BY <2>1, <2>3 DEF Icw1To
  <2>5. QED
    BY <1>1, <2>4
<1>6. CASE k \notin {1, 2}
  <2>1. k \in {2 + c, 4 + c, 6 + c, 8 + c}
    BY <1>0, <1>1, <1>2, <1>6
  <2>2. /\ k = 2 + c => v = IF c = 1 THEN 32 ELSE 40
        /\ k = 8 + c => v = 255
    BY <1>0, <1>2
  <2>3. ~(k <= 2)
    BY <1>1, <1>6
  <2>4. chips' = [chips EXCEPT ![c] = Data(@, v)]
    BY <1>4, <2>3, Zenon
  <2>5. WordTo(c, v)
    BY <2>1, <2>2, <2>4 DEF WordTo
  <2>6. QED
    BY <1>1, <2>5
<1>7. QED
  BY <1>5, <1>6

\* Write k of remap sets the vectors of chip 1 or 2 to the kernel's in the
\* third and fourth step, and leaves no request in service.
LEMMA RemapStep == ASSUME IInv, RemapWrite PROVE IInv'
<1> USE DEF IInv
<1>1. /\ isr = "idle" /\ isr' = "idle" /\ idt' = idt
      /\ pc = "remap" /\ k \in 1 .. 10
      /\ pc' = IF k = 10 THEN "enable2" ELSE "remap"
      /\ k # 10 => k' = k + 1
  BY RemapWritesOne DEF table
<1>2. chips[1] \in ChipType /\ chips[2] \in ChipType
  BY DEF Wiring
<1>3. chips[1].isr = {} /\ chips[2].isr = {}
  BY <1>1 DEF Served
<1>4. ASSUME NEW c \in {1, 2}, k = c,
             chips' = [chips EXCEPT ![c] = Command(@, ICW1)]
      PROVE  IInv'
  <2>1. /\ Command(chips[c], ICW1) \in ChipType
        /\ Command(chips[c], ICW1).irr = {} /\ Command(chips[c], ICW1).isr = {}
        /\ Command(chips[c], ICW1).base = chips[c].base
        /\ Command(chips[c], ICW1).icw = 2
    BY <1>2, Icw1Write
  <2>2. Wiring'
    BY <1>1, <1>4, <2>1 DEF Wiring
  <2>3. Served'
    BY <1>1, <1>3, <1>4, <2>1 DEF Wiring, Served
  <2>4. Dialogue'
    <3>1. CASE c = 1
      BY <1>1, <1>4, <2>1, <3>1 DEF Wiring, Dialogue, Awaited
    <3>2. CASE c = 2
      BY <1>1, <1>4, <2>1, <3>2 DEF Wiring, Dialogue, Awaited
    <3>3. QED
      BY <3>1, <3>2
  <2>5. QED
    BY <2>2, <2>3, <2>4
<1>5. ASSUME NEW c \in {1, 2}, NEW v \in 0 .. 255,
             k \in {2 + c, 4 + c, 6 + c, 8 + c},
             k = 2 + c => v = IF c = 1 THEN 32 ELSE 40,
             chips' = [chips EXCEPT ![c] = Data(@, v)]
      PROVE  IInv'
  <2>1. chips[c].icw = Awaited(c)
    BY DEF Dialogue
  <2>2. chips[c].icw = IF k = 2 + c THEN 2 ELSE IF k = 4 + c THEN 3
                       ELSE IF k = 6 + c THEN 4 ELSE 0
    BY <1>1, <1>5, <2>1 DEF Awaited
  <2>3. /\ Data(chips[c], v) \in ChipType
        /\ Data(chips[c], v).irr = chips[c].irr
        /\ Data(chips[c], v).isr = chips[c].isr
        /\ Data(chips[c], v).base = IF k = 2 + c THEN v ELSE chips[c].base
        /\ Data(chips[c], v).icw = IF k = 2 + c THEN 3
                                  ELSE IF k = 4 + c THEN 4 ELSE 0
    BY <1>2, <1>5, <2>2, DataWrite
  <2>4. Wiring'
    BY <1>1, <1>5, <2>3 DEF Wiring
  <2>5. Served'
    BY <1>1, <1>3, <1>5, <2>3 DEF Wiring, Served
  <2>6. Dialogue'
    <3>1. CASE c = 1
      BY <1>1, <1>5, <2>3, <3>1 DEF Wiring, Dialogue, Awaited
    <3>2. CASE c = 2
      BY <1>1, <1>5, <2>3, <3>2 DEF Wiring, Dialogue, Awaited
    <3>3. QED
      BY <3>1, <3>2
  <2>7. QED
    BY <2>4, <2>5, <2>6
<1>6. QED
  BY <1>4, <1>5, RemapWritesOne DEF Icw1To, WordTo

\* Steps that leave the chips' service and the table alone.
LEMMA OtherSteps ==
    ASSUME IInv, Cli \/ Sti \/ ReadMouse \/ Devices \/ Look
    PROVE  IInv'
<1> USE DEF IInv
<1>1. ASSUME NEW irq \in {0, 1, 12}, Raise(irq) \/ Lower(irq), chips' # chips
      PROVE  IInv'
  <2>1. ChipOf(irq) = (IF irq = 12 THEN 2 ELSE 1)
        /\ LineOf(irq) = IF irq = 12 THEN 4 ELSE irq
    BY DEF ChipOf, LineOf
  <2>2. /\ isr' = isr /\ pc' = pc /\ k' = k /\ idt' = idt
        /\ \E r \in SUBSET Lines :
               /\ chips' = [chips EXCEPT ![ChipOf(irq)].irr = r]
               /\ r \subseteq chips[ChipOf(irq)].irr \union {LineOf(irq)}
    <3>1. chips[ChipOf(irq)].irr \in SUBSET Lines /\ LineOf(irq) \in Lines
      BY <2>1 DEF Wiring, ChipType, Lines
    <3>2. QED
      BY <1>1, <3>1 DEF Raise, Lower, kernel, table
  <2>3. Wiring'
    BY <2>1, <2>2 DEF Wiring, ChipType
  <2>4. Dialogue' /\ Served'
    BY <2>1, <2>2 DEF Wiring, ChipType, Dialogue, Awaited, Served
  <2>5. QED
    BY <2>3, <2>4
<1>2. CASE UNCHANGED <<chips, idt, isr, pc, k>>
  BY <1>2 DEF Wiring, Dialogue, Awaited, Served
<1>3. CASE Cli \/ Sti \/ Look
  BY <1>2, <1>3 DEF Cli, Sti, Look, kernel, table
<1>4. ASSUME NEW irq \in {0, 1, 12}, Raise(irq) \/ Lower(irq)
      PROVE  IInv'
  <2>1. UNCHANGED <<idt, isr, pc, k>>
    BY <1>4 DEF Raise, Lower, kernel, table
  <2>2. QED
    BY <1>1, <1>2, <1>4, <2>1
<1>5. CASE ReadMouse \/ Devices
  BY <1>4, <1>5 DEF ReadMouse, Devices
<1>6. QED
  BY <1>3, <1>5

\* What the CPU does when it takes an interrupt: it acknowledges a line of
\* the first chip, or the cascade and the mouse's line, or nothing.
Acknowledges(l) ==
    \/ l = 7 /\ ~Output /\ UNCHANGED chips
    \/ l \in {0, 1} /\ chips' = [chips EXCEPT ![1] = Acknowledged(@, l)]
    \/ /\ l = 2 /\ chips[1].icw = 0 /\ chips[2].icw = 0
       /\ 2 \notin chips[1].imr /\ 4 \in chips[2].irr \ chips[2].imr
       /\ chips' = <<Acknowledged(chips[1], 2), Acknowledged(chips[2], 4)>>

\* The handler of the mouse is behind vector v.
Finds(v) == v \in Vectors /\ IsGate(idt[v]) /\ Target(idt[v]) = HandlerAddress

\* An accepted interrupt is the spurious one, one of the first chip's lines,
\* or the mouse's through the cascade; its vector decides.
LEMMA AcceptIs ==
    ASSUME IInv, Accept
    PROVE  /\ isr = "idle" /\ ifl /\ ~ifl' /\ loaded
           /\ UNCHANGED <<machine, kernel, table>>
           /\ \E l \in {0, 1, 2, 7} :
                  /\ Acknowledges(l)
                  /\ l = 7 => machine.late
                  /\ l \in {0, 1} => l \in chips[1].irr \ chips[1].imr
                  /\ isr' = IF Finds(IF l = 2 THEN chips[2].base + 4
                                     ELSE chips[1].base + l)
                            THEN "eoi1" ELSE "dead"
<1>1. /\ isr = "idle" /\ ifl /\ ~ifl' /\ loaded
      /\ UNCHANGED <<machine, kernel, table>>
  BY DEF Accept
<1>2. /\ chips[1] \in ChipType /\ chips[2] \in ChipType
      /\ chips[1].isr = {} /\ chips[2].isr = {}
      /\ chips[1].irr \subseteq {0, 1} /\ chips[2].irr \subseteq {4}
  BY <1>1 DEF IInv, Wiring, Served
<1>3. /\ Pending(chips[2]) \subseteq {4} /\ Requests \subseteq {0, 1, 2}
      /\ \A l \in Requests : l \notin chips[1].imr
      /\ \A l \in {0, 1} \intersect Requests : l \in chips[1].irr
      /\ 2 \in Requests => /\ Pending(chips[2]) = {4}
                           /\ 4 \in chips[2].irr \ chips[2].imr
                           /\ chips[1].icw = 0 /\ chips[2].icw = 0
  BY <1>2 DEF Pending, Requests, ChipType
<1>4. Output => Min(Requests) \in {0, 1, 2} /\ Min(Requests) \in Requests
  BY <1>3, MinOfLines DEF Output
<1> DEFINE l == IF Output THEN Min(Requests) ELSE 7
           m == Min(Pending(chips[2]))
           v == IF l = 2 THEN chips[2].base + m ELSE chips[1].base + l
<1>5. /\ chips' = IF ~Output THEN chips
                  ELSE IF l # 2 THEN [chips EXCEPT ![1] = Acknowledged(@, l)]
                  ELSE <<Acknowledged(chips[1], 2), Acknowledged(chips[2], m)>>
      /\ isr' = IF Finds(v) THEN "eoi1" ELSE "dead"
  BY DEF Accept, Finds
<1>6. ~machine.late => Output
  BY DEF Accept
<1>7. l \in {0, 1, 2, 7} /\ (l = 7 <=> ~Output) /\ (l # 7 => l \in Requests)
  BY <1>4
<1>8. l = 2 => m = 4
  BY <1>3, <1>7, MinOfOne
<1> HIDE DEF l, m
<1>9. Acknowledges(l)
  <2>1. CASE l = 7
    BY <1>5, <1>7, <2>1 DEF Acknowledges
  <2>2. CASE l \in {0, 1}
    BY <1>5, <1>7, <2>2 DEF Acknowledges
  <2>3. CASE l = 2
    BY <1>3, <1>5, <1>7, <1>8, <2>3 DEF Acknowledges
  <2>4. QED
    BY <1>7, <2>1, <2>2, <2>3
<1>10. l \in {0, 1} => l \in chips[1].irr \ chips[1].imr
  BY <1>3, <1>7
<1>11. isr' = IF Finds(IF l = 2 THEN chips[2].base + 4 ELSE chips[1].base + l)
              THEN "eoi1" ELSE "dead"
  BY <1>5, <1>8
<1>12. QED
  BY <1>1, <1>6, <1>7, <1>9, <1>10, <1>11

\* An interrupt whose handler is entered has been passed on by both chips.
LEMMA AcceptStep == ASSUME IInv, Accept PROVE IInv'
<1> USE DEF IInv
<1>1. /\ isr = "idle" /\ pc' = pc /\ k' = k /\ idt' = idt
      /\ chips \in [{1, 2} -> ChipType]
      /\ chips[1].isr = {} /\ chips[2].isr = {}
  BY AcceptIs DEF kernel, table, Wiring, Served
<1>2. PICK l \in {0, 1, 2, 7} :
          /\ Acknowledges(l)
          /\ isr' = IF Finds(IF l = 2 THEN chips[2].base + 4
                             ELSE chips[1].base + l)
                    THEN "eoi1" ELSE "dead"
  BY AcceptIs
<1>3. ASSUME NEW c \in {1, 2}, NEW n \in Lines
      PROVE  /\ Acknowledged(chips[c], n) \in ChipType
             /\ Acknowledged(chips[c], n).irr \subseteq chips[c].irr
             /\ Acknowledged(chips[c], n).isr = {n}
             /\ Acknowledged(chips[c], n).base = chips[c].base
             /\ Acknowledged(chips[c], n).icw = chips[c].icw
  <2>1. chips[c] \in ChipType /\ chips[c].isr = {}
    BY <1>1
  <2>2. QED
    BY <2>1 DEF Acknowledged, ChipType
<1>4. 0 \in Lines /\ 1 \in Lines /\ 2 \in Lines /\ 4 \in Lines
  BY DEF Lines
<1>5. Wiring' /\ Dialogue'
  <2>1. CASE UNCHANGED chips
    BY <1>1, <2>1 DEF Wiring, Dialogue, Awaited
  <2>2. CASE l \in {0, 1} /\ chips' = [chips EXCEPT ![1] = Acknowledged(@, l)]
    BY <1>1, <1>3, <1>4, <2>2 DEF Wiring, Dialogue, Awaited
  <2>3. CASE chips' = <<Acknowledged(chips[1], 2), Acknowledged(chips[2], 4)>>
    BY <1>1, <1>3, <1>4, <2>3 DEF Wiring, Dialogue, Awaited
  <2>4. QED
    BY <1>2, <2>1, <2>2, <2>3 DEF Acknowledges
<1>6. isr' = "eoi1" => l = 2
  <2>1. \A v \in Vectors : IsGate(idt[v]) => v = 44
    BY DEF Wiring, IsGate, Empty, Descriptor
  <2>2. chips[1].base \in {8, 32} /\ chips[2].base \in {112, 40}
    BY DEF Wiring
  <2>3. QED
    BY <1>2, <2>1, <2>2 DEF Finds
<1>7. Served'
  <2>1. CASE isr' = "dead"
    BY <2>1 DEF Served
  <2>2. CASE isr' = "eoi1"
    <3>1. chips' = <<Acknowledged(chips[1], 2), Acknowledged(chips[2], 4)>>
      BY <1>2, <1>6, <2>2 DEF Acknowledges
    <3>2. QED
      BY <1>3, <1>4, <2>2, <3>1 DEF Served
  <2>3. QED
    BY <1>2, <2>1, <2>2
<1>8. QED
  BY <1>5, <1>7

\* endOfInterrupt ends one service on each chip and changes nothing else.
LEMMA HandlerIs ==
    ASSUME IInv, Handler
    PROVE  /\ UNCHANGED <<machine, kernel, table, high>>
           /\ \/ isr = "eoi1" /\ isr' = "eoi2"
                 /\ chips' = [chips EXCEPT ![1].isr = {}]
              \/ isr = "eoi2" /\ isr' = "iret"
                 /\ chips' = [chips EXCEPT ![2].isr = {}]
              \/ isr = "iret" /\ isr' = "idle" /\ chips' = chips
           /\ \A c \in {1, 2} : /\ chips'[c].imr = chips[c].imr
                                /\ chips'[c].base = chips[c].base
                                /\ chips'[c].irr = chips[c].irr
                                /\ chips'[c].icw = chips[c].icw
<1>1. chips[1] \in ChipType /\ chips[2] \in ChipType
      /\ chips \in [{1, 2} -> ChipType]
  BY DEF IInv, Wiring
<1>2. CASE HandlerEoi1
  <2>1. chips[1].isr = {2} /\ 2 \in Lines
    BY <1>2 DEF HandlerEoi1, IInv, Served, Lines
  <2>2. Command(chips[1], EOI) = [chips[1] EXCEPT !.isr = {}]
    BY <1>1, <2>1, EoiWrite
  <2>3. chips' = [chips EXCEPT ![1].isr = {}]
    BY <1>2, <2>2 DEF HandlerEoi1
  <2>4. \A d \in {1, 2} : /\ chips'[d].imr = chips[d].imr
                          /\ chips'[d].base = chips[d].base
                          /\ chips'[d].irr = chips[d].irr
                          /\ chips'[d].icw = chips[d].icw
    BY <1>1, <2>3 DEF ChipType
  <2>5. QED
    BY <1>2, <2>3, <2>4 DEF HandlerEoi1
<1>3. CASE HandlerEoi2
  <2>1. chips[2].isr = {4} /\ 4 \in Lines
    BY <1>3 DEF HandlerEoi2, IInv, Served, Lines
  <2>2. Command(chips[2], EOI) = [chips[2] EXCEPT !.isr = {}]
    BY <1>1, <2>1, EoiWrite
  <2>3. chips' = [chips EXCEPT ![2].isr = {}]
    BY <1>3, <2>2 DEF HandlerEoi2
  <2>4. \A d \in {1, 2} : /\ chips'[d].imr = chips[d].imr
                          /\ chips'[d].base = chips[d].base
                          /\ chips'[d].irr = chips[d].irr
                          /\ chips'[d].icw = chips[d].icw
    BY <1>1, <2>3 DEF ChipType
  <2>5. QED
    BY <1>3, <2>3, <2>4 DEF HandlerEoi2
<1>4. CASE HandlerReturn
  BY <1>4 DEF HandlerReturn
<1>5. QED
  BY <1>2, <1>3, <1>4 DEF Handler

\* The handler ends the master's service, then the slave's.
LEMMA HandlerSteps == ASSUME IInv, Handler PROVE IInv'
<1> USE DEF IInv
<1>1. /\ pc' = pc /\ k' = k /\ idt' = idt
      /\ chips \in [{1, 2} -> ChipType]
  BY HandlerIs DEF kernel, table, Wiring
<1>2. CASE /\ isr = "eoi1" /\ isr' = "eoi2"
           /\ chips' = [chips EXCEPT ![1].isr = {}]
  BY <1>1, <1>2 DEF Wiring, ChipType, Dialogue, Awaited, Served
<1>3. CASE /\ isr = "eoi2" /\ isr' = "iret"
           /\ chips' = [chips EXCEPT ![2].isr = {}]
  BY <1>1, <1>3 DEF Wiring, ChipType, Dialogue, Awaited, Served
<1>4. CASE isr = "iret" /\ isr' = "idle" /\ chips' = chips
  BY <1>1, <1>4 DEF Wiring, Dialogue, Awaited, Served
<1>5. QED
  BY <1>2, <1>3, <1>4, HandlerIs

\* Every step of kernel, handler and devices keeps the invariant.
LEMMA NextInv == ASSUME IInv, [Next]_vars PROVE IInv'
<1>1. CASE UNCHANGED vars
  BY <1>1 DEF vars, kernel, table, IInv, Wiring, Dialogue, Awaited, Served
<1>2. CASE Next
  BY <1>2, SetUpSteps, EnableSteps, RemapStep, OtherSteps, AcceptStep,
     HandlerSteps DEF Next, Kernel, SetUp
<1>3. QED
  BY <1>1, <1>2

\* Neither PIC is left with a request in service when the handler is done or
\* has not begun: the two commands of endOfInterrupt end exactly what the CPU
\* acknowledged.
THEOREM ServicesEnd == Spec => []ServiceEnds
<1>1. IInv => ServiceEnds
  BY DEF IInv, Served, ServiceEnds
<1>2. QED
  BY InitInv, NextInv, <1>1, PTL DEF Spec
-----------------------------------------------------------------------------
\* The masks at each step: open from ICW1 on, closed by the last words, and
\* opened again by enable, line by line.
MaskAt(c) ==
    IF pc = "remap" THEN IF k <= 8 + c THEN {} ELSE Lines
    ELSE IF pc = "enable2" \/ (pc = "enable12" /\ c = 2) THEN Lines
    ELSE Lines \ {IF c = 1 THEN 2 ELSE 4}

\* What the set-up has reached: the gate leads to the handler before remap
\* begins, a chip has the kernel's vectors from its second word on, and a
\* mask other than the firmware's belongs to the step; enable holds the mask
\* it will write.
Prepared ==
    /\ machine \in MachineType
    /\ pc \in {"lidt", "gate", "remap", "enable2", "enable12", "run"}
    /\ pc \in {"enable2", "enable12"} => k \in {1, 2}
    /\ pc \notin {"lidt", "gate"} =>
           idt[44] = SetIDTEntry(CreateIDTAttr(InterruptGate), HandlerAddress)
    /\ ~Begun => chips[2].imr = Lines
    /\ \A c \in {1, 2} : pc \notin {"lidt", "gate"} =>
           /\ (pc = "remap" => k > c) => chips[c].imr = MaskAt(c)
           /\ (pc = "remap" => k > 2 + c) =>
                  chips[c].base = IF c = 1 THEN 32 ELSE 40
    /\ pc = "enable2" /\ k = 2 => value = Value(chips[1].imr \ {2})
    /\ pc = "enable12" /\ k = 2 => value = Value(chips[2].imr \ {4})

\* Where the firmware hands over with interrupts disabled, none comes before
\* the loop; where no other device is at work, none but the mouse's.
Calm ==
    /\ ~machine.others => chips[1].irr = {}
    /\ ~machine.enabled /\ pc # "run" => ~ifl /\ isr = "idle"
    /\ Handled

\* Steps that leave the masks and the vectors alone.
LEMMA PreparedKept ==
    ASSUME Prepared, UNCHANGED <<machine, kernel, idt>>,
           \A c \in {1, 2} : /\ chips'[c].imr = chips[c].imr
                             /\ chips'[c].base = chips[c].base
    PROVE  Prepared'
<1>1. UNCHANGED <<pc, k, value>>
  BY DEF kernel
<1>2. Begun' = Begun
  BY <1>1, Zenon DEF Begun
<1>3. \A c \in {1, 2} : MaskAt(c)' = MaskAt(c)
  BY <1>1 DEF MaskAt
<1>4. QED
  BY <1>1, <1>2, <1>3 DEF Prepared

\* remap's writes prepare one chip after the other.
LEMMA PreparedRemap == ASSUME IInv, Prepared, RemapWrite PROVE Prepared'
<1>1. /\ pc = "remap" /\ k \in 1 .. 10
      /\ pc' = IF k = 10 THEN "enable2" ELSE "remap"
      /\ k' = IF k = 10 THEN 1 ELSE k + 1
      /\ UNCHANGED <<machine, idt>>
      /\ chips \in [{1, 2} -> ChipType]
  BY RemapWritesOne DEF IInv, Wiring, table
<1>2. PICK c \in {1, 2} : Icw1To(c) \/ \E v \in 0 .. 255 : WordTo(c, v)
  BY RemapWritesOne DEF IInv
<1> DEFINE d == 3 - c
<1>3. /\ d \in {1, 2} /\ d # c /\ \A e \in {1, 2} : e = c \/ e = d
  OBVIOUS
<1>4. chips'[d] = chips[d] /\ k # 8 + d /\ k # 2 + d /\ k # d
  <2>1. /\ \A e \in {1, 2} : e # c => chips'[e] = chips[e]
        /\ k \in {c, 2 + c, 4 + c, 6 + c, 8 + c}
    BY <1>1, <1>2 DEF Icw1To, WordTo
  <2>2. QED
    BY <1>3, <2>1
<1> HIDE DEF d
<1>5. /\ chips'[c].imr = IF k = c THEN {} ELSE IF k = 8 + c THEN Lines
                         ELSE chips[c].imr
      /\ chips'[c].base = IF k = 2 + c THEN IF c = 1 THEN 32 ELSE 40
                          ELSE chips[c].base
  <2>1. chips[c] \in ChipType /\ chips[c].icw = Awaited(c)
    BY <1>1 DEF IInv, Dialogue
  <2>2. CASE Icw1To(c)
    <3>1. k = c /\ chips'[c] = Command(chips[c], ICW1)
      BY <1>1, <2>2 DEF Icw1To
    <3>2. QED
      BY <2>1, <3>1, Icw1Write
  <2>3. ASSUME NEW v \in 0 .. 255, WordTo(c, v)
        PROVE  /\ chips'[c].imr = IF k = c THEN {} ELSE IF k = 8 + c THEN Lines
                                   ELSE chips[c].imr
               /\ chips'[c].base = IF k = 2 + c THEN IF c = 1 THEN 32 ELSE 40
                                    ELSE chips[c].base
    <3>1. /\ k \in {2 + c, 4 + c, 6 + c, 8 + c}
          /\ k = 2 + c => v = IF c = 1 THEN 32 ELSE 40
          /\ k = 8 + c => v = 255
          /\ chips'[c] = Data(chips[c], v)
      BY <1>1, <2>3 DEF WordTo
    <3>2. /\ chips[c].icw = 2 <=> k = 2 + c
          /\ chips[c].icw = 0 <=> k = 8 + c
      BY <1>1, <2>1, <3>1 DEF Awaited
    <3>3. /\ chips'[c].imr = IF k = 8 + c THEN Bits(v) ELSE chips[c].imr
          /\ chips'[c].base = IF k = 2 + c THEN v ELSE chips[c].base
      BY <2>1, <3>1, <3>2, DataWrite
    <3>4. k # c
      BY <3>1
    <3>5. QED
      BY <3>1, <3>3, <3>4, BitsOf255
  <2>4. QED
    BY <1>2, <2>2, <2>3
<1>6. k \in {c, 2 + c, 4 + c, 6 + c, 8 + c}
  BY <1>2 DEF Icw1To, WordTo
<1>7. ASSUME NEW e \in {1, 2}
      PROVE  /\ (pc' = "remap" => k' > e) => chips'[e].imr = MaskAt(e)'
             /\ (pc' = "remap" => k' > 2 + e) =>
                    chips'[e].base = IF e = 1 THEN 32 ELSE 40
  <2>1. /\ (k > e) => chips[e].imr = IF k <= 8 + e THEN {} ELSE Lines
        /\ (k > 2 + e) => chips[e].base = IF e = 1 THEN 32 ELSE 40
    BY <1>1 DEF Prepared, MaskAt
  <2>2. MaskAt(e)' = IF pc' = "remap" THEN IF k' <= 8 + e THEN {} ELSE Lines
                     ELSE Lines
    BY <1>1 DEF MaskAt
  <2>3. CASE e = c
    <3>1. (pc' = "remap" => k' > e) => chips'[e].imr = MaskAt(e)'
      BY <1>1, <1>5, <1>6, <2>1, <2>2, <2>3
    <3>2. (pc' = "remap" => k' > 2 + e) =>
              chips'[e].base = IF e = 1 THEN 32 ELSE 40
      BY <1>1, <1>5, <1>6, <2>1, <2>3
    <3>3. QED
      BY <3>1, <3>2
  <2>4. CASE e = d
    <3>1. (pc' = "remap" => k' > e) => chips'[e].imr = MaskAt(e)'
      BY <1>1, <1>4, <2>1, <2>2, <2>4
    <3>2. (pc' = "remap" => k' > 2 + e) =>
              chips'[e].base = IF e = 1 THEN 32 ELSE 40
      BY <1>1, <1>4, <2>1, <2>4
    <3>3. QED
      BY <3>1, <3>2
  <2>5. QED
    BY <1>3, <2>3, <2>4
<1>8. ~Begun' => chips'[2].imr = Lines
  <2>1. SUFFICES ASSUME ~Begun' PROVE chips'[2].imr = Lines
    OBVIOUS
  <2>2. k = 1
    BY <1>1, <2>1 DEF Begun
  <2>3. c = 1 /\ ~Begun
    BY <1>1, <1>6, <2>2 DEF Begun
  <2>4. QED
    BY <1>3, <1>4, <2>3 DEF Prepared
<1>9. QED
  BY <1>1, <1>7, <1>8 DEF Prepared

\* enable writes chip c's mask without line l.
WrittenBack(c, l) ==
    /\ k = 2 /\ k' = 1
    /\ chips' \in [{1, 2} -> ChipType]
    /\ \A e \in {1, 2} : e # c => chips'[e] = chips[e]
    /\ chips'[c].imr = Lines \ {l}
    /\ chips'[c].irr = chips[c].irr /\ chips'[c].isr = chips[c].isr
    /\ chips'[c].base = chips[c].base /\ chips'[c].icw = chips[c].icw

\* What enable has read is what it writes, but for the one bit.
LEMMA MaskIsWrittenBack ==
    ASSUME IInv, NEW c \in {1, 2}, NEW irq \in {2, 12}, NEW next,
           ChipOf(irq) = c, chips[c].icw = 0, EnableWrite(irq, next),
           value = Value(Lines \ {LineOf(irq)})
    PROVE  WrittenBack(c, LineOf(irq))
<1>1. chips \in [{1, 2} -> ChipType]
  BY DEF IInv, Wiring
<1>2. chips' = [chips EXCEPT ![c] = Data(@, value)] /\ k = 2 /\ k' = 1
  BY DEF EnableWrite
<1>3. Bits(value) = Lines \ {LineOf(irq)}
  BY BitsOfValue
<1>4. /\ Data(chips[c], value) \in ChipType
      /\ Data(chips[c], value).irr = chips[c].irr
      /\ Data(chips[c], value).isr = chips[c].isr
      /\ Data(chips[c], value).base = chips[c].base
      /\ Data(chips[c], value).imr = Lines \ {LineOf(irq)}
      /\ Data(chips[c], value).icw = 0
  <2>1. chips[c] \in ChipType /\ chips[c].icw = 0
    BY <1>1
  <2>2. /\ Data(chips[c], value) \in ChipType
        /\ Data(chips[c], value).irr = chips[c].irr
        /\ Data(chips[c], value).isr = chips[c].isr
        /\ Data(chips[c], value).base = chips[c].base
        /\ Data(chips[c], value).imr = Bits(value)
        /\ Data(chips[c], value).icw = 0
    BY <2>1, DataWrite
  <2>3. QED
    BY <1>3, <2>2
<1>5. QED
  BY <1>1, <1>2, <1>4 DEF WrittenBack

\* enable reads the mask, then writes it back: line 2 of the first chip for
\* the cascade, line 4 of the second for the mouse.
LEMMA EnableIsOneLine ==
    ASSUME IInv, Prepared, EnableCascade \/ EnableMouse
    PROVE  /\ UNCHANGED <<machine, isr, ifl, idt>> /\ isr = "idle"
           /\ \/ /\ pc' = pc /\ k = 1 /\ k' = 2 /\ UNCHANGED chips
                 /\ pc = "enable2" => value' = Value(chips[1].imr \ {2})
                 /\ pc = "enable12" => value' = Value(chips[2].imr \ {4})
              \/ pc = "enable2" /\ pc' = "enable12" /\ WrittenBack(1, 2)
              \/ pc = "enable12" /\ pc' = "run" /\ WrittenBack(2, 4)
<1>1. /\ ChipOf(2) = 1 /\ LineOf(2) = 2 /\ ChipOf(12) = 2 /\ LineOf(12) = 4
  BY DEF ChipOf, LineOf
<1>2. /\ UNCHANGED <<machine, isr, ifl, idt>> /\ isr = "idle"
      /\ pc \in {"enable2", "enable12"}
      /\ chips[1].icw = 0 /\ chips[2].icw = 0
  BY DEF EnableCascade, EnableMouse, At, table, IInv, Dialogue, Awaited
<1>3. CASE EnableCascade
  <2>1. pc = "enable2" /\ chips[1].imr = Lines
    BY <1>3 DEF EnableCascade, At, Prepared, MaskAt
  <2>2. CASE EnableRead(2)
    BY <1>1, <1>2, <2>1, <2>2 DEF EnableRead
  <2>3. CASE EnableWrite(2, "enable12")
    <3>1. pc' = "enable12" /\ value = Value(Lines \ {2})
      BY <2>1, <2>3 DEF EnableWrite, Prepared
    <3>2. WrittenBack(1, 2)
      BY <1>1, <1>2, <2>3, <3>1, MaskIsWrittenBack
    <3>3. QED
      BY <1>2, <2>1, <3>1, <3>2
  <2>4. QED
    BY <1>3, <2>2, <2>3 DEF EnableCascade
<1>4. CASE EnableMouse
  <2>1. pc = "enable12" /\ chips[2].imr = Lines
    BY <1>4 DEF EnableMouse, At, Prepared, MaskAt
  <2>2. CASE EnableRead(12)
    BY <1>1, <1>2, <2>1, <2>2 DEF EnableRead
  <2>3. CASE EnableWrite(12, "run")
    <3>1. pc' = "run" /\ value = Value(Lines \ {4})
      BY <2>1, <2>3 DEF EnableWrite, Prepared
    <3>2. WrittenBack(2, 4)
      BY <1>1, <1>2, <2>3, <3>1, MaskIsWrittenBack
    <3>3. QED
      BY <1>2, <2>1, <3>1, <3>2
  <2>4. QED
    BY <1>4, <2>2, <2>3 DEF EnableMouse
<1>5. QED
  BY <1>3, <1>4

\* So enable leaves the masks of the step.
LEMMA PreparedEnable ==
    ASSUME IInv, Prepared, EnableCascade \/ EnableMouse
    PROVE  Prepared'
<1>1. chips \in [{1, 2} -> ChipType]
  BY DEF IInv, Wiring
<1>2. /\ UNCHANGED <<machine, idt>> /\ pc \in {"enable2", "enable12"}
      /\ pc' \in {"enable2", "enable12", "run"} /\ k' \in {1, 2} /\ Begun'
  BY EnableIsOneLine
     DEF EnableCascade, EnableMouse, At, Begun, WrittenBack
<1>3. /\ chips[1].base = 32 /\ chips[2].base = 40
      /\ chips[1].imr = MaskAt(1) /\ chips[2].imr = MaskAt(2)
  BY <1>2 DEF Prepared
<1>4. /\ chips'[1].base = 32 /\ chips'[2].base = 40
      /\ chips'[1].imr = MaskAt(1)' /\ chips'[2].imr = MaskAt(2)'
  <2>1. CASE UNCHANGED <<chips, pc>>
    BY <1>2, <1>3, <2>1 DEF MaskAt
  <2>2. CASE pc = "enable2" /\ pc' = "enable12" /\ WrittenBack(1, 2)
    BY <1>3, <2>2 DEF MaskAt, WrittenBack
  <2>3. CASE pc = "enable12" /\ pc' = "run" /\ WrittenBack(2, 4)
    BY <1>3, <2>3 DEF MaskAt, WrittenBack
  <2>4. QED
    BY <2>1, <2>2, <2>3, EnableIsOneLine
<1>5. /\ pc' = "enable2" /\ k' = 2 => value' = Value(chips'[1].imr \ {2})
      /\ pc' = "enable12" /\ k' = 2 => value' = Value(chips'[2].imr \ {4})
  BY EnableIsOneLine DEF WrittenBack
<1>6. QED
  BY <1>2, <1>4, <1>5 DEF Prepared

\* SetGate is the last step before remap, which it finds at its first write.
LEMMA PreparedSetUp ==
    ASSUME IInv, Prepared, LoadIDT \/ SetGate
    PROVE  Prepared'
<1>1. /\ UNCHANGED <<machine, k, value, chips>> /\ k = 1
      /\ pc \in {"lidt", "gate"} /\ pc' \in {"gate", "remap"}
      /\ ~Begun /\ ~Begun'
  BY DEF LoadIDT, SetGate, At, IInv, Dialogue, Begun
<1>2. pc' = "remap" =>
          idt'[44] = SetIDTEntry(CreateIDTAttr(InterruptGate), HandlerAddress)
  <2>1. idt \in [Vectors -> {Empty} \union {idt[44]}] /\ 44 \in Vectors
    BY DEF IInv, Wiring, Vectors
  <2>2. QED
    BY <1>1, <2>1 DEF LoadIDT, SetGate
<1>3. QED
  BY <1>1, <1>2 DEF Prepared

\* The devices change no mask and no vectors.
LEMMA RequestsOnly ==
    ASSUME IInv, ReadMouse \/ Devices
    PROVE  /\ UNCHANGED <<machine, kernel, isr, ifl, table>>
           /\ \A c \in {1, 2} : /\ chips'[c].imr = chips[c].imr
                                /\ chips'[c].base = chips[c].base
                                /\ chips'[c].isr = chips[c].isr
                                /\ chips'[c].icw = chips[c].icw
           /\ ~machine.others => chips'[1] = chips[1]
<1>1. chips[1] \in ChipType /\ chips[2] \in ChipType
      /\ chips \in [{1, 2} -> ChipType]
  BY DEF IInv, Wiring
<1>2. \E irq \in {0, 1, 12} :
          /\ Raise(irq) \/ Lower(irq)
          /\ ~machine.others => irq = 12
  BY DEF ReadMouse, Devices
<1>3. PICK irq \in {0, 1, 12} : /\ Raise(irq) \/ Lower(irq)
                                /\ ~machine.others => irq = 12
  BY <1>2
<1>4. UNCHANGED <<machine, kernel, isr, ifl, table>>
  BY <1>3 DEF Raise, Lower
<1>5. \/ UNCHANGED chips
      \/ \E r : chips' = [chips EXCEPT ![ChipOf(irq)].irr = r]
  BY <1>3 DEF Raise, Lower
<1>6. irq = 12 => ChipOf(irq) = 2
  BY DEF ChipOf
<1>7. QED
  BY <1>1, <1>3, <1>4, <1>5, <1>6 DEF ChipType

\* Acknowledging changes no mask, no vectors and adds no request.
LEMMA AcknowledgesOnly ==
    ASSUME IInv, NEW l \in {0, 1, 2, 7}, Acknowledges(l)
    PROVE  /\ \A c \in {1, 2} : /\ chips'[c].imr = chips[c].imr
                                /\ chips'[c].base = chips[c].base
                                /\ chips'[c].icw = chips[c].icw
           /\ chips'[1].irr \subseteq chips[1].irr
<1>1. chips \in [{1, 2} -> ChipType]
  BY DEF IInv, Wiring
<1>2. \A c \in {1, 2} : \A n :
          /\ Acknowledged(chips[c], n).imr = chips[c].imr
          /\ Acknowledged(chips[c], n).base = chips[c].base
          /\ Acknowledged(chips[c], n).icw = chips[c].icw
          /\ Acknowledged(chips[c], n).irr \subseteq chips[c].irr
  BY <1>1 DEF ChipType, Acknowledged
<1>3. QED
  BY <1>1, <1>2 DEF Acknowledges

\* Once the mouse's line can get through both chips, both have the kernel's
\* vectors and its gate is the one behind them.
LEMMA MouseFindsHandler ==
    ASSUME IInv, Prepared, chips[1].icw = 0, chips[2].icw = 0,
           4 \notin chips[2].imr
    PROVE  Begun /\ chips[2].base = 40 /\ Finds(44)
<1>1. Begun
  BY DEF Prepared, Lines
<1>2. pc \notin {"lidt", "gate"} /\ (pc = "remap" => k > 2)
  BY <1>1 DEF Begun
<1>3. pc = "remap" => k > 4
  BY <1>2 DEF IInv, Dialogue, Awaited
<1>4. chips[2].base = 40
  BY <1>2, <1>3 DEF Prepared
<1>5. /\ idt[44] = SetIDTEntry(CreateIDTAttr(InterruptGate), HandlerAddress)
      /\ 44 \in Vectors
  BY <1>2 DEF Prepared, Vectors
<1>6. Target(idt[44]) = HandlerAddress /\ IsGate(idt[44])
  BY <1>5, TargetOfEntry DEF IsGate, CreateIDTAttr
<1>7. QED
  BY <1>1, <1>4, <1>5, <1>6 DEF Finds

\* The firmware's masks cover the mouse, and its vectors are not read.
LEMMA PreparedInit == Init => Prepared /\ Calm
<1> SUFFICES ASSUME Init PROVE Prepared /\ Calm
  OBVIOUS
<1>1. /\ machine \in MachineType /\ pc = "lidt" /\ isr = "idle"
      /\ ifl = machine.enabled
      /\ chips = <<Chip(machine.imr, 8), Chip(Lines, 112)>>
  BY InterruptsAssumption DEF Init
<1>2. chips[1].irr = {} /\ chips[2].imr = Lines
  BY <1>1 DEF Chip
<1>3. Prepared
  BY <1>1, <1>2 DEF Prepared
<1>4. Calm
  BY <1>1, <1>2 DEF Calm, Handled
<1>5. QED
  BY <1>3, <1>4

\* Every step keeps what the set-up has reached.
LEMMA PreparedStep ==
    ASSUME IInv, Prepared, [Next]_vars
    PROVE  Prepared'
<1>1. CASE UNCHANGED vars \/ Cli \/ Sti \/ Look
  <2>1. UNCHANGED <<machine, kernel, idt, chips>>
    BY <1>1 DEF vars, Cli, Sti, Look, table
  <2>2. QED
    BY <2>1, PreparedKept
<1>2. CASE ReadMouse \/ Devices
  BY <1>2, RequestsOnly, PreparedKept DEF table
<1>3. CASE Accept
  BY <1>3, AcceptIs, AcknowledgesOnly, PreparedKept DEF table
<1>4. CASE Handler
  <2>1. UNCHANGED <<machine, kernel, idt>>
    BY <1>4 DEF Handler, HandlerEoi1, HandlerEoi2, HandlerReturn, table
  <2>2. \A c \in {1, 2} : /\ chips'[c].imr = chips[c].imr
                          /\ chips'[c].base = chips[c].base
    BY <1>4, HandlerIs
  <2>3. QED
    BY <2>1, <2>2, PreparedKept
<1>5. QED
  BY <1>1, <1>2, <1>3, <1>4, PreparedSetUp, PreparedRemap, PreparedEnable
     DEF Next, Kernel, SetUp

\* The set-up lets no request in.
LEMMA SetUpIsCalm ==
    ASSUME IInv, Prepared, SetUp
    PROVE  /\ UNCHANGED <<machine, isr, ifl>> /\ isr = "idle"
           /\ pc # "run"
           /\ chips'[1].irr \subseteq chips[1].irr
<1>1. chips \in [{1, 2} -> ChipType]
  BY DEF IInv, Wiring
<1>2. CASE LoadIDT \/ SetGate
  BY <1>2 DEF LoadIDT, SetGate, At
<1>3. CASE RemapWrite
  <2>1. PICK c \in {1, 2} : Icw1To(c) \/ \E v \in 0 .. 255 : WordTo(c, v)
    BY <1>3, RemapWritesOne DEF IInv
  <2>2. CASE Icw1To(c)
    <3>1. Command(chips[c], ICW1).irr = {} /\ chips[c] \in ChipType
      BY <1>1, Icw1Write
    <3>2. chips'[1].irr \in {{}, chips[1].irr}
      BY <1>1, <2>2, <3>1 DEF Icw1To
    <3>3. QED
      BY <1>3, <3>2, RemapWritesOne DEF IInv
  <2>3. ASSUME NEW v \in 0 .. 255, WordTo(c, v)
        PROVE  chips'[1].irr = chips[1].irr
    BY <1>1, <2>3, DataWrite DEF WordTo
  <2>4. QED
    BY <1>3, <2>1, <2>2, <2>3, RemapWritesOne DEF IInv
<1>4. CASE EnableCascade \/ EnableMouse
  BY <1>4, EnableIsOneLine DEF EnableCascade, EnableMouse, At, WrittenBack
<1>5. QED
  BY <1>2, <1>3, <1>4 DEF SetUp

\* No step disturbs the calm; what needs it is the interrupt that the CPU
\* takes, which can only be the mouse's.
LEMMA CalmStep ==
    ASSUME IInv, Prepared, Calm, [Next]_vars
    PROVE  Calm'
<1>1. CASE UNCHANGED vars \/ Look
  BY <1>1 DEF vars, Look, kernel, Calm, Handled
<1>2. CASE Cli \/ Sti
  BY <1>2 DEF Cli, Sti, At, kernel, Calm, Handled
<1>3. CASE SetUp
  BY <1>3, SetUpIsCalm DEF Calm, Handled
<1>4. CASE ReadMouse \/ Devices
  BY <1>4, RequestsOnly DEF Calm, Handled, kernel
<1>5. CASE Handler
  <2>1. /\ UNCHANGED <<machine, pc>> /\ isr # "idle" /\ isr' # "dead"
        /\ chips'[1].irr = chips[1].irr
    BY <1>5, HandlerIs
       DEF Handler, HandlerEoi1, HandlerEoi2, HandlerReturn, kernel
  <2>2. QED
    BY <2>1 DEF Calm, Handled
<1>6. CASE Accept
  <2>1. PICK l \in {0, 1, 2, 7} :
            /\ Acknowledges(l)
            /\ l = 7 => machine.late
            /\ l \in {0, 1} => l \in chips[1].irr \ chips[1].imr
            /\ isr' = IF Finds(IF l = 2 THEN chips[2].base + 4
                               ELSE chips[1].base + l)
                      THEN "eoi1" ELSE "dead"
    BY <1>6, AcceptIs
  <2>2. UNCHANGED <<machine, pc>> /\ isr = "idle" /\ ifl
    BY <1>6, AcceptIs DEF kernel
  <2>3. chips'[1].irr \subseteq chips[1].irr
    BY <2>1, AcknowledgesOnly
  <2>4. ~machine.late /\ (~machine.enabled \/ ~machine.others) => l = 2
    <3>1. ~machine.others => l \notin {0, 1}
      BY <2>1 DEF Calm
    <3>2. ~machine.enabled => pc = "run"
      BY <2>2 DEF Calm
    <3>3. pc = "run" => chips[1].imr = Lines \ {2}
      BY DEF Prepared, MaskAt
    <3>4. ~machine.enabled => l \notin {0, 1}
      BY <2>1, <3>2, <3>3 DEF Lines
    <3>5. QED
      BY <2>1, <3>1, <3>4
  <2>5. l = 2 => isr' = "eoi1"
    <3>1. SUFFICES ASSUME l = 2 PROVE isr' = "eoi1"
      OBVIOUS
    <3>2. /\ chips[1].icw = 0 /\ chips[2].icw = 0 /\ 4 \notin chips[2].imr
      BY <2>1, <3>1 DEF Acknowledges
    <3>3. chips[2].base = 40 /\ Finds(44)
      BY <3>2, MouseFindsHandler
    <3>4. QED
      BY <2>1, <3>1, <3>3
  <2>6. QED
    BY <2>2, <2>3, <2>4, <2>5 DEF Calm, Handled
<1>7. QED
  BY <1>1, <1>2, <1>3, <1>4, <1>5, <1>6 DEF Next, Kernel

\* Every interrupt finds the handler of the mouse, unless the firmware hands
\* over with interrupts enabled while other devices are at work, or the CPU
\* sees requests late: by the time a mask is open, the gate is set, and by
\* the time the second chip passes the line on, it has the kernel's vectors.
THEOREM InterruptsHandled == Spec => []Handled
<1>1. Init => IInv /\ Prepared /\ Calm
  BY InitInv, PreparedInit
<1>2. IInv /\ Prepared /\ Calm /\ [Next]_vars => (IInv /\ Prepared /\ Calm)'
  BY NextInv, PreparedStep, CalmStep
<1>3. IInv /\ Prepared /\ Calm => Handled
  BY DEF Calm
<1>4. QED
  BY <1>1, <1>2, <1>3, PTL DEF Spec
-----------------------------------------------------------------------------
\* What PicView sees: the request and the service of the mouse's line, and
\* the masks on its way.
Asked == 4 \in chips[2].irr
Serving == {c \in {1, 2} : (IF c = 1 THEN 2 ELSE 4) \in chips[c].isr}
Masked == IF Begun
          THEN {irq \in {2, 12} : LineOf(irq) \in chips[ChipOf(irq)].imr}
          ELSE {12} \union ({2} \intersect machine.imr)
PicOf(asked, serving, masked, begun) ==
    [irr |-> asked, inService |-> serving, mask |-> masked, remapped |-> begun]

\* A chip that waits for no word has the kernel's vectors once remap's second
\* write is done.
LEMMA PicIs ==
    ASSUME IInv, Prepared
    PROVE  pic = PicOf(Asked, Serving, Masked, Begun)
<1> DEFINE moved == \A c \in {1, 2} :
                        \/ chips[c].icw # 0
                        \/ chips[c].base = IF c = 1 THEN 32 ELSE 40
<1>1. Begun => moved
  <2>1. SUFFICES ASSUME Begun, NEW c \in {1, 2}, chips[c].icw = 0
                 PROVE  chips[c].base = IF c = 1 THEN 32 ELSE 40
    OBVIOUS
  <2>2. pc \notin {"lidt", "gate"} /\ (pc = "remap" => k > 2)
    BY <2>1 DEF Begun
  <2>3. pc = "remap" => k > 2 + c
    BY <2>1, <2>2 DEF IInv, Dialogue, Awaited
  <2>4. QED
    BY <2>2, <2>3 DEF Prepared
<1>2. (Begun /\ moved) = Begun
  <2>1. Begun \in BOOLEAN
    BY DEF Begun
  <2>2. QED
    BY <1>1, <2>1, Zenon
<1>3. pic = PicOf(Asked, Serving, Masked, Begun /\ moved)
  BY Zenon DEF pic, PicOf, Asked, Serving, Masked
<1>4. QED
  BY <1>2, <1>3, Zenon

\* The service PicView sees is the handler's step, as long as it is entered
\* for the mouse only.
LEMMA ServingIs ==
    ASSUME IInv, isr # "dead"
    PROVE  Serving = IF isr = "eoi1" THEN {1, 2}
                     ELSE IF isr = "eoi2" THEN {2} ELSE {}
BY DEF IInv, Served, Serving

\* The masks PicView sees are those of the two lines, once remap has begun.
LEMMA MaskedIs ==
    ASSUME IInv, Prepared, Begun
    PROVE  Masked = IF pc = "remap" THEN IF k <= 9 THEN {} ELSE {2}
                    ELSE IF pc = "enable2" THEN {2, 12}
                    ELSE IF pc = "enable12" THEN {12} ELSE {}
<1>1. /\ ChipOf(2) = 1 /\ LineOf(2) = 2 /\ ChipOf(12) = 2 /\ LineOf(12) = 4
  BY DEF ChipOf, LineOf
<1>2. /\ pc \notin {"lidt", "gate"} /\ (pc = "remap" => k > 2)
      /\ pc \in {"remap", "enable2", "enable12", "run"}
      /\ pc = "remap" => k \in 1 .. 10
  BY DEF IInv, Dialogue, Prepared, Begun
<1>3. chips[1].imr = MaskAt(1) /\ chips[2].imr = MaskAt(2)
  BY <1>2 DEF Prepared
<1>4. Masked = {irq \in {2, 12} : \/ irq = 2 /\ 2 \in MaskAt(1)
                                  \/ irq = 12 /\ 4 \in MaskAt(2)}
  BY <1>1, <1>3 DEF Masked
<1>5. CASE pc = "remap"
  <2>1. MaskAt(1) = (IF k <= 9 THEN {} ELSE Lines) /\ MaskAt(2) = {}
    BY <1>2, <1>5 DEF MaskAt
  <2>2. QED
    BY <1>4, <1>5, <2>1 DEF Lines
<1>6. CASE pc # "remap"
  BY <1>2, <1>4, <1>6 DEF MaskAt, Lines
<1>7. QED
  BY <1>5, <1>6

\* The view, the service and the masks in the next state.
LEMMA PicIsNext ==
    (IInv /\ Prepared => pic = PicOf(Asked, Serving, Masked, Begun))'
<1>1. IInv /\ Prepared => pic = PicOf(Asked, Serving, Masked, Begun)
  BY PicIs
<1>2. QED
  BY <1>1, PTL

\* The service in the next state.
LEMMA ServingIsNext ==
    (IInv /\ isr # "dead" =>
         Serving = IF isr = "eoi1" THEN {1, 2}
                   ELSE IF isr = "eoi2" THEN {2} ELSE {})'
<1>1. IInv /\ isr # "dead" =>
          Serving = IF isr = "eoi1" THEN {1, 2}
                    ELSE IF isr = "eoi2" THEN {2} ELSE {}
  BY ServingIs
<1>2. QED
  BY <1>1, PTL

\* The masks in the next state.
LEMMA MaskedIsNext ==
    (IInv /\ Prepared /\ Begun =>
         Masked = IF pc = "remap" THEN IF k <= 9 THEN {} ELSE {2}
                  ELSE IF pc = "enable2" THEN {2, 12}
                  ELSE IF pc = "enable12" THEN {12} ELSE {})'
<1>1. IInv /\ Prepared /\ Begun =>
          Masked = IF pc = "remap" THEN IF k <= 9 THEN {} ELSE {2}
                   ELSE IF pc = "enable2" THEN {2, 12}
                   ELSE IF pc = "enable12" THEN {12} ELSE {}
  BY MaskedIs
<1>2. QED
  BY <1>1, PTL

\* One part of the view replaced.
LEMMA PartsOfPic ==
    ASSUME NEW a, NEW s, NEW m, NEW b, NEW x
    PROVE  /\ PicOf(a, s, m, b).irr = a /\ PicOf(a, s, m, b).inService = s
           /\ PicOf(a, s, m, b).mask = m /\ PicOf(a, s, m, b).remapped = b
           /\ [PicOf(a, s, m, b) EXCEPT !.irr = x] = PicOf(x, s, m, b)
           /\ [PicOf(a, s, m, b) EXCEPT !.inService = x] = PicOf(a, x, m, b)
           /\ [PicOf(a, s, m, b) EXCEPT !.mask = x] = PicOf(a, s, x, b)
BY DEF PicOf

\* Where the four parts PicView sees stay, so does the view.
LEMMA Unseen ==
    ASSUME pic = PicOf(Asked, Serving, Masked, Begun),
           pic' = PicOf(Asked, Serving, Masked, Begun)',
           Asked' = Asked, Serving' = Serving, Masked' = Masked,
           Begun' = Begun
    PROVE  pic' = pic
BY Zenon DEF PicOf

\* Steps that change neither a chip nor the progress of remap.
LEMMA SeesNothing ==
    ASSUME chips' = chips, machine' = machine, Begun' = Begun
    PROVE  /\ Asked' = Asked /\ Serving' = Serving /\ Masked' = Masked
           /\ Begun' = Begun
BY Zenon DEF Asked, Serving, Masked

\* The device's steps are requests and withdrawals, at the mouse's line.
LEMMA ViewDevices ==
    ASSUME IInv, ReadMouse \/ Devices,
           pic = PicOf(Asked, Serving, Masked, Begun),
           pic' = PicOf(Asked, Serving, Masked, Begun)'
    PROVE  View!Request \/ View!Forget
<1>1. Begun' = Begun /\ Serving' = Serving /\ Masked' = Masked
  <2>1. UNCHANGED <<machine, pc, k>>
    BY RequestsOnly DEF kernel
  <2>2. Begun' = Begun
    BY <2>1, Zenon DEF Begun
  <2>3. \A c \in {1, 2} : /\ chips'[c].isr = chips[c].isr
                          /\ chips'[c].imr = chips[c].imr
    BY RequestsOnly
  <2>4. Serving' = Serving
    BY <2>3 DEF Serving
  <2>5. \A irq \in {2, 12} : chips'[ChipOf(irq)].imr = chips[ChipOf(irq)].imr
    BY <2>3 DEF ChipOf
  <2>6. Masked' = Masked
    BY <2>1, <2>2, <2>5 DEF Masked
  <2>7. QED
    BY <2>2, <2>4, <2>6
<1>2. pic' = [pic EXCEPT !.irr = Asked']
  <2>1. pic' = PicOf(Asked', Serving, Masked, Begun)
    BY <1>1, Zenon DEF PicOf
  <2>2. QED
    BY <2>1, PartsOfPic
<1>3. CASE Asked' = TRUE
  <2>1. pic' = [pic EXCEPT !.irr = TRUE]
    BY <1>2, <1>3, Zenon
  <2>2. QED
    BY <2>1 DEF View!Request
<1>4. CASE Asked' = FALSE
  <2>1. pic' = [pic EXCEPT !.irr = FALSE]
    BY <1>2, <1>4, Zenon
  <2>2. QED
    BY <2>1 DEF View!Forget
<1>5. Asked' \in BOOLEAN
  BY DEF Asked
<1>6. QED
  BY <1>3, <1>4, <1>5

\* Until its second write remap is not seen; then it forgets everything, and
\* from there on it only masks lines.
LEMMA ViewRemap ==
    ASSUME IInv, Prepared, RemapWrite, IInv', Prepared'
    PROVE  View!Remap \/ View!Mask \/ pic' = pic
<1>1. /\ pc = "remap" /\ isr = "idle" /\ isr' = "idle" /\ k \in 1 .. 10
      /\ pc' = IF k = 10 THEN "enable2" ELSE "remap"
      /\ k' = IF k = 10 THEN 1 ELSE k + 1
      /\ UNCHANGED machine /\ chips \in [{1, 2} -> ChipType]
  BY RemapWritesOne DEF IInv, Wiring
<1>2. /\ pic = PicOf(Asked, Serving, Masked, Begun)
      /\ pic' = PicOf(Asked, Serving, Masked, Begun)'
  BY PicIs, PicIsNext
<1>3. Serving = {} /\ Serving' = {}
  BY <1>1, ServingIs, ServingIsNext
<1>4. (Begun <=> k > 2) /\ (Begun' <=> k > 1)
      /\ Begun \in BOOLEAN /\ Begun' \in BOOLEAN
  BY <1>1 DEF Begun
<1>5. chips'[2].irr = IF k = 2 THEN {} ELSE chips[2].irr
  <2>1. PICK c \in {1, 2} : Icw1To(c) \/ \E v \in 0 .. 255 : WordTo(c, v)
    BY RemapWritesOne DEF IInv
  <2>2. CASE Icw1To(c)
    <3>1. Command(chips[c], ICW1).irr = {}
      BY <1>1, Icw1Write
    <3>2. QED
      BY <1>1, <2>2, <3>1 DEF Icw1To
  <2>3. ASSUME NEW v \in 0 .. 255, WordTo(c, v)
        PROVE  chips'[2].irr = chips[2].irr /\ k # 2
    BY <1>1, <2>3, DataWrite DEF WordTo
  <2>4. QED
    BY <2>1, <2>2, <2>3
<1>6. CASE k = 1
  <2>1. /\ Begun' = Begun /\ Asked' = Asked
    BY <1>4, <1>5, <1>6 DEF Asked
  <2>2. Masked' = Masked
    BY <1>1, <1>4, <1>6 DEF Masked
  <2>3. QED
    BY <1>2, <1>3, <2>1, <2>2, Unseen
<1>7. CASE k = 2
  <2>1. Begun' = TRUE /\ Asked' = FALSE
    BY <1>4, <1>5, <1>7 DEF Asked
  <2>2. Masked' = {}
    BY <1>1, <1>7, <2>1, MaskedIsNext
  <2>3. pic' = PicOf(Asked', Serving', Masked', Begun')
    BY <1>2, Zenon DEF PicOf
  <2>4. View!Remap
    BY <1>3, <2>1, <2>2, <2>3, Zenon DEF View!Remap, PicOf
  <2>5. QED
    BY <2>4
<1>8. CASE k > 2
  <2>1. Begun' = Begun /\ Asked' = Asked /\ Begun
    <3>1. Begun /\ Begun' /\ chips'[2].irr = chips[2].irr
      BY <1>1, <1>4, <1>5, <1>8
    <3>2. Begun' = Begun
      BY <1>4, <3>1
    <3>3. Asked' = Asked
      BY <3>1 DEF Asked
    <3>4. QED
      BY <3>1, <3>2, <3>3
  <2>2. Masked \subseteq Masked' /\ Masked' \in SUBSET {2, 12}
    BY <1>1, <1>8, <2>1, MaskedIs, MaskedIsNext
  <2>3. pic' = PicOf(Asked, Serving, Masked', Begun)
    BY <1>2, <1>3, <2>1, Zenon DEF PicOf
  <2>4. pic' = [pic EXCEPT !.mask = Masked'] /\ pic.mask = Masked
    BY <1>2, <2>3, PartsOfPic
  <2>5. View!Mask
    BY <2>2, <2>4 DEF View!Mask
  <2>6. QED
    BY <2>5
<1>9. QED
  BY <1>1, <1>6, <1>7, <1>8

\* enable opens one line, of PICs that have been remapped.
LEMMA ViewEnable ==
    ASSUME IInv, Prepared, EnableCascade \/ EnableMouse, IInv', Prepared'
    PROVE  View!Unmask \/ pic' = pic
<1>1. /\ UNCHANGED machine /\ isr = "idle" /\ isr' = "idle"
      /\ pc \in {"enable2", "enable12"}
      /\ pc' \in {"enable2", "enable12", "run"}
  BY EnableIsOneLine DEF EnableCascade, EnableMouse, At
<1>2. /\ pic = PicOf(Asked, Serving, Masked, Begun)
      /\ pic' = PicOf(Asked, Serving, Masked, Begun)'
  BY PicIs, PicIsNext
<1>3. Begun = TRUE /\ Begun' = TRUE /\ Begun' = Begun
  BY <1>1 DEF Begun
<1>4. CASE UNCHANGED chips
  BY <1>1, <1>2, <1>3, <1>4, SeesNothing, Unseen
<1>5. ASSUME NEW l \in {2, 12}, Masked' = Masked \ {l}, Asked' = Asked,
             Serving' = Serving
      PROVE  View!Unmask
  <2>1. pic' = PicOf(Asked, Serving, Masked \ {l}, Begun)
    BY <1>2, <1>3, <1>5, Zenon DEF PicOf
  <2>2. /\ pic' = [pic EXCEPT !.mask = Masked \ {l}]
        /\ pic.mask = Masked /\ pic.remapped = Begun
    BY <1>2, <2>1, PartsOfPic
  <2>3. QED
    BY <1>3, <2>2 DEF View!Unmask
<1>6. Serving' = Serving
  BY <1>1, ServingIs, ServingIsNext
<1>7. CASE pc = "enable2" /\ pc' = "enable12" /\ WrittenBack(1, 2)
  <2>1. Masked' = Masked \ {2}
    BY <1>3, <1>7, MaskedIs, MaskedIsNext
  <2>2. Asked' = Asked
    BY <1>7 DEF Asked, WrittenBack
  <2>3. QED
    BY <1>5, <1>6, <2>1, <2>2
<1>8. CASE pc = "enable12" /\ pc' = "run" /\ WrittenBack(2, 4)
  <2>1. Masked' = Masked \ {12}
    BY <1>3, <1>8, MaskedIs, MaskedIsNext
  <2>2. Asked' = Asked
    BY <1>8 DEF Asked, WrittenBack
  <2>3. QED
    BY <1>5, <1>6, <2>1, <2>2
<1>9. QED
  BY <1>4, <1>7, <1>8, EnableIsOneLine

\* An interrupt of the mouse is accepted only with the kernel's vectors and
\* both lines open; the view shows no other.
LEMMA ViewAccept ==
    ASSUME IInv, Prepared, Accept, IInv', Prepared'
    PROVE  View!Accept \/ pic' = pic
<1>1. /\ UNCHANGED <<machine, pc, k>> /\ isr = "idle"
      /\ chips \in [{1, 2} -> ChipType]
  BY AcceptIs DEF kernel, IInv, Wiring
<1>2. /\ pic = PicOf(Asked, Serving, Masked, Begun)
      /\ pic' = PicOf(Asked, Serving, Masked, Begun)'
  BY PicIs, PicIsNext
<1>3. Begun' = Begun /\ Serving = {}
  BY <1>1, ServingIs DEF Begun
<1>4. chips[1].isr = {} /\ chips[2].isr = {}
  BY <1>1 DEF IInv, Served
<1>5. PICK l \in {0, 1, 2, 7} : Acknowledges(l)
  BY AcceptIs
<1>6. Masked' = Masked
  <2>1. \A irq \in {2, 12} : chips'[ChipOf(irq)].imr = chips[ChipOf(irq)].imr
    BY <1>5, AcknowledgesOnly DEF ChipOf
  <2>2. QED
    BY <1>1, <1>3, <2>1 DEF Masked
<1>7. CASE l # 2
  <2>1. chips'[2] = chips[2]
    BY <1>1, <1>5, <1>7 DEF Acknowledges
  <2>2. 2 \notin chips'[1].isr
    <3>1. Acknowledged(chips[1], l).isr = {l}
      BY <1>1, <1>4 DEF Acknowledged, ChipType
    <3>2. QED
      BY <1>1, <1>4, <1>5, <1>7, <3>1 DEF Acknowledges
  <2>3. Serving' = {}
    BY <1>4, <2>1, <2>2 DEF Serving
  <2>4. Asked' = Asked
    BY <2>1 DEF Asked
  <2>5. QED
    BY <1>2, <1>3, <1>6, <2>3, <2>4, Unseen
<1>8. CASE l = 2
  <2>1. /\ chips[1].icw = 0 /\ chips[2].icw = 0
        /\ 2 \notin chips[1].imr /\ 4 \in chips[2].irr /\ 4 \notin chips[2].imr
        /\ chips'[1] = Acknowledged(chips[1], 2)
        /\ chips'[2] = Acknowledged(chips[2], 4)
    BY <1>5, <1>8 DEF Acknowledges
  <2>2. Begun
    BY <2>1, MouseFindsHandler
  <2>3. Masked = {}
    BY <2>1, <2>2 DEF Masked, ChipOf, LineOf
  <2>4. Asked = TRUE /\ Asked' = FALSE /\ Serving' = {1, 2}
    <3>1. /\ 4 \notin chips'[2].irr /\ 4 \in chips'[2].isr
          /\ 2 \in chips'[1].isr
      BY <1>1, <2>1 DEF Acknowledged, ChipType
    <3>2. QED
      BY <2>1, <3>1 DEF Asked, Serving
  <2>5. pic' = PicOf(Asked', Serving', Masked, Begun)
    BY <1>2, <1>3, <1>6, Zenon DEF PicOf
  <2>6. /\ pic.irr = Asked /\ pic.inService = Serving /\ pic.mask = Masked
        /\ pic.remapped = Begun
    BY <1>2, PartsOfPic
  <2>7. pic' = [pic EXCEPT !.irr = FALSE, !.inService = {1, 2}]
    <3>1. [pic EXCEPT !.irr = Asked', !.inService = Serving']
              = [[pic EXCEPT !.irr = Asked'] EXCEPT !.inService = Serving']
      BY Zenon
    <3>2. [pic EXCEPT !.irr = Asked'] = PicOf(Asked', Serving, Masked, Begun)
      BY <1>2, PartsOfPic
    <3>3. [PicOf(Asked', Serving, Masked, Begun) EXCEPT !.inService = Serving']
              = PicOf(Asked', Serving', Masked, Begun)
      BY PartsOfPic
    <3>4. QED
      BY <2>4, <2>5, <3>1, <3>2, <3>3, Zenon
  <2>8. QED
    BY <1>3, <2>2, <2>3, <2>4, <2>6, <2>7 DEF View!Accept
<1>9. QED
  BY <1>7, <1>8

\* endOfInterrupt ends the service on the chip the CPU is wired to, then on
\* the other.
LEMMA ViewHandler ==
    ASSUME IInv, Prepared, Handler, IInv', Prepared'
    PROVE  View!EndFirst \/ View!EndSecond \/ pic' = pic
<1>1. UNCHANGED <<machine, pc, k>>
  BY HandlerIs DEF kernel
<1>2. /\ pic = PicOf(Asked, Serving, Masked, Begun)
      /\ pic' = PicOf(Asked, Serving, Masked, Begun)'
  BY PicIs, PicIsNext
<1>3. Begun' = Begun
  BY <1>1, Zenon DEF Begun
<1>4. Asked' = Asked
  BY HandlerIs DEF Asked
<1>5. Masked' = Masked
  <2>1. \A irq \in {2, 12} : chips'[ChipOf(irq)].imr = chips[ChipOf(irq)].imr
    BY HandlerIs DEF ChipOf
  <2>2. QED
    BY <1>1, <1>3, <2>1 DEF Masked
<1>6. pic' = PicOf(Asked, Serving', Masked, Begun)
  BY <1>2, <1>3, <1>4, <1>5, Zenon DEF PicOf
<1>7. pic' = [pic EXCEPT !.inService = Serving'] /\ pic.inService = Serving
  BY <1>2, <1>6, PartsOfPic
<1>8. CASE isr = "eoi1" /\ isr' = "eoi2"
  <2>1. Serving = {1, 2} /\ Serving' = {2}
    BY <1>8, ServingIs, ServingIsNext
  <2>2. QED
    BY <1>7, <2>1 DEF View!EndFirst
<1>9. CASE isr = "eoi2" /\ isr' = "iret"
  <2>1. Serving = {2} /\ Serving' = {}
    BY <1>9, ServingIs, ServingIsNext
  <2>2. QED
    BY <1>7, <2>1 DEF View!EndSecond
<1>10. CASE UNCHANGED chips
  BY <1>1, <1>2, <1>3, <1>10, SeesNothing, Unseen
<1>11. QED
  BY <1>8, <1>9, <1>10, HandlerIs

\* Every port access, every step of the handler and every move of the lines
\* is a step of PicView.
LEMMA ViewStep ==
    ASSUME IInv, Prepared, [Next]_vars, IInv', Prepared'
    PROVE  [View!Next]_pic
<1>1. /\ pic = PicOf(Asked, Serving, Masked, Begun)
      /\ pic' = PicOf(Asked, Serving, Masked, Begun)'
  BY PicIs, PicIsNext
<1>2. CASE UNCHANGED <<machine, chips, pc, k>>
  <2>1. Begun' = Begun
    BY <1>2, Zenon DEF Begun
  <2>2. QED
    BY <1>1, <1>2, <2>1, SeesNothing, Unseen
<1>3. CASE LoadIDT \/ SetGate
  <2>1. /\ UNCHANGED <<machine, chips>> /\ ~Begun /\ ~Begun'
        /\ Begun \in BOOLEAN /\ Begun' \in BOOLEAN
    BY <1>3 DEF LoadIDT, SetGate, At, IInv, Dialogue, Begun
  <2>2. Begun' = Begun
    BY <2>1
  <2>3. QED
    BY <1>1, <2>1, <2>2, SeesNothing, Unseen
<1>4. CASE UNCHANGED vars \/ Cli \/ Sti \/ Look
  BY <1>2, <1>4 DEF vars, Cli, Sti, Look, kernel
<1>5. CASE ReadMouse \/ Devices
  BY <1>1, <1>5, ViewDevices DEF View!Next
<1>6. CASE RemapWrite
  BY <1>6, ViewRemap DEF View!Next
<1>7. CASE EnableCascade \/ EnableMouse
  BY <1>7, ViewEnable DEF View!Next
<1>8. CASE Accept
  BY <1>8, ViewAccept DEF View!Next
<1>9. CASE Handler
  BY <1>9, ViewHandler DEF View!Next
<1>10. QED
  BY <1>3, <1>4, <1>5, <1>6, <1>7, <1>8, <1>9 DEF Next, Kernel, SetUp

\* The firmware's PICs have no request and do not let the mouse through.
LEMMA ViewInit == Init => View!Init
<1> SUFFICES ASSUME Init PROVE View!Init
  OBVIOUS
<1>1. pic = PicOf(Asked, Serving, Masked, Begun)
  BY InitInv, PreparedInit, PicIs
<1>2. /\ pc = "lidt" /\ machine \in MachineType
      /\ chips = <<Chip(machine.imr, 8), Chip(Lines, 112)>>
  BY InterruptsAssumption DEF Init
<1>3. Asked = FALSE /\ Begun = FALSE /\ Serving = {}
  BY <1>2 DEF Asked, Begun, Serving, Chip
<1>4. Masked \in {{12}, {2, 12}}
  BY <1>3 DEF Masked
<1>5. pic = [irr |-> FALSE, inService |-> {}, mask |-> Masked,
             remapped |-> FALSE]
  BY <1>1, <1>3, Zenon DEF PicOf
<1>6. QED
  BY <1>4, <1>5 DEF View!Init

\* The port accesses of remap, enable and endOfInterrupt, with interrupts
\* and the devices between any two, implement the PICs as PicView has them:
\* one remap, lines opened only afterwards, the mouse's interrupt accepted
\* only with the kernel's vectors, and its service ended chip after chip.
THEOREM PortsImplementPicView == Spec => ImplementsPicView
<1>1. IInv /\ Prepared /\ [Next]_vars => (IInv /\ Prepared)' /\ [View!Next]_pic
  BY NextInv, PreparedStep, ViewStep
<1>2. Init => IInv /\ Prepared /\ View!Init
  BY InitInv, PreparedInit, ViewInit
<1>3. QED
  BY <1>1, <1>2, PTL DEF Spec, ImplementsPicView, View!Spec
=============================================================================
