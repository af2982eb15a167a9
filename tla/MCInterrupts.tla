---------------------------- MODULE MCInterrupts ----------------------------
(***************************************************************************)
(* Instance of Interrupts: every machine, with an address that has a digit *)
(* in each of the three parts of a descriptor.                             *)
(***************************************************************************)
EXTENDS Interrupts

AllMachines == [enabled : BOOLEAN, others : BOOLEAN, late : BOOLEAN,
                imr : {Lines, Lines \ {2}, Lines \ {0, 1, 2}}]
=============================================================================
