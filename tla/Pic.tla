-------------------------------- MODULE Pic --------------------------------
(***************************************************************************)
(* One 8259 interrupt controller as seen through its two ports.  The chip  *)
(* is outside the repository; it is modelled by what interrupt/pic.cpp     *)
(* writes to it and reads from it.  It is edge triggered, and an           *)
(* initialisation ends with the ICW4 that ICW1_ICW4 announces; until then  *)
(* the chip raises no interrupt.                                           *)
(***************************************************************************)
EXTENDS Integers, FiniteSetsExt

Lines == 0 .. 7

\* icw: the initialisation word the data port waits for, 0 if none.
ChipType == [imr : SUBSET Lines, irr : SUBSET Lines, isr : SUBSET Lines,
             base : 0 .. 255, icw : {0, 2, 3, 4}]

Chip(imr, base) ==
    [imr |-> imr, irr |-> {}, isr |-> {}, base |-> base, icw |-> 0]

\* A register of eight bits as the set of the bits that are one.
Weight == <<1, 2, 4, 8, 16, 32, 64, 128>>
Bits(v) == {l \in Lines : (v \div Weight[l + 1]) % 2 = 1}
Value(bits) == CHOOSE v \in 0 .. 255 : Bits(v) = bits

ICW1 == 17  \* ICW1_INIT | ICW1_ICW4
EOI == 32

\* outb to the command port.  ICW1 clears everything but the vectors; the EOI
\* ends the service with the highest priority.
Command(chip, v) ==
    CASE v = ICW1 -> [Chip({}, chip.base) EXCEPT !.icw = 2]
      [] v = EOI /\ chip.isr # {} -> [chip EXCEPT !.isr = @ \ {Min(@)}]
      [] OTHER -> chip

\* outb to the data port.
Data(chip, v) ==
    CASE chip.icw = 2 -> [chip EXCEPT !.base = v, !.icw = 3]
      [] chip.icw = 3 -> [chip EXCEPT !.icw = 4]
      [] chip.icw = 4 -> [chip EXCEPT !.icw = 0]
      [] OTHER        -> [chip EXCEPT !.imr = Bits(v)]

\* The requests the chip would pass on.
Pending(chip) ==
    {l \in chip.irr \ chip.imr : chip.icw = 0 /\ \A s \in chip.isr : l < s}

Acknowledged(chip, l) == [chip EXCEPT !.irr = @ \ {l}, !.isr = @ \union {l}]
=============================================================================
