------------------------------ MODULE PicView ------------------------------
(***************************************************************************)
(* What the kernel relies on of the two cascaded 8259 PICs, as far as the  *)
(* mouse's IRQ 12 is concerned: the request latch, which chips have it in  *)
(* service, which of the lines 2 and 12 are masked and whether the vectors *)
(* have been moved to 0x20.  Interrupts implements it port access by port  *)
(* access, EventLoop with one action for each call.                        *)
(***************************************************************************)
VARIABLE pic

Init == pic \in [irr : {FALSE}, inService : {{}}, mask : {{12}, {2, 12}},
                 remapped : {FALSE}]

\* The line rises; it falls before the CPU has taken the interrupt.
Request == pic' = [pic EXCEPT !.irr = TRUE]
Forget == pic' = [pic EXCEPT !.irr = FALSE]

\* An initialisation forgets requests and masks and moves the vectors.
Remap == pic' = [irr |-> FALSE, inService |-> {}, mask |-> {}, remapped |-> TRUE]

\* Lines may be masked at any time, but only a remapped PIC is opened.
Mask == \E m \in SUBSET {2, 12} :
            pic.mask \subseteq m /\ pic' = [pic EXCEPT !.mask = m]
Unmask == pic.remapped /\ \E l \in {2, 12} : pic' = [pic EXCEPT !.mask = @ \ {l}]

\* The CPU takes the interrupt, with the new vector.
Accept ==
    /\ pic.irr /\ pic.inService = {} /\ pic.mask = {} /\ pic.remapped
    /\ pic' = [pic EXCEPT !.irr = FALSE, !.inService = {1, 2}]

\* The service ends first on the chip the CPU is wired to.
EndFirst == pic.inService = {1, 2} /\ pic' = [pic EXCEPT !.inService = {2}]
EndSecond == pic.inService = {2} /\ pic' = [pic EXCEPT !.inService = {}]

Next == Request \/ Forget \/ Remap \/ Mask \/ Unmask \/ Accept
        \/ EndFirst \/ EndSecond

Spec == Init /\ [][Next]_pic
=============================================================================
