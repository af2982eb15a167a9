-------------------------------- MODULE Idt --------------------------------
(***************************************************************************)
(* Interrupt descriptors (interrupt/interrupt.hpp and .cpp): how an        *)
(* address is spread over a descriptor, and how the CPU reads it back.     *)
(***************************************************************************)
EXTENDS Integers

CONSTANT Word  \* 2^16, the size of offsetLow and offsetMiddle

ASSUME IdtAssumption == Word \in Nat \ {0}

InterruptGate == 14  \* DescriptorType::kInterruptGate

\* CreateIDTAttr, whose present is true unless the caller says otherwise.
CreateIDTAttr(type) == [type |-> type, present |-> TRUE]

Descriptor(low, middle, high, attr) ==
    [low |-> low, middle |-> middle, high |-> high, attr |-> attr]

\* An entry of idt before it is set: all zero.
Empty == Descriptor(0, 0, 0, [type |-> 0, present |-> FALSE])

\* SetIDTEntry.
SetIDTEntry(attr, offset) ==
    Descriptor(offset % Word, (offset \div Word) % Word,
               offset \div (Word * Word), attr)

\* Where the CPU goes through the descriptor, if it can.
Target(d) == d.low + d.middle * Word + d.high * (Word * Word)
IsGate(d) == d.attr.present /\ d.attr.type = InterruptGate
=============================================================================
