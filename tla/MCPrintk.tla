------------------------------ MODULE MCPrintk ------------------------------
(***************************************************************************)
(* Instance of Printk: every kind of port, FIFOs of two bytes, a buffer    *)
(* that one text does not fit, and a console of three lines, of which a    *)
(* line of three characters makes lineBreak store past m_buf, as the lines *)
(* of the PCI devices do that kernelMain prints.                           *)
(***************************************************************************)
EXTENDS Printk

AllPorts == PortKinds

SomeTexts == {<<>>, <<"a", "newline", "b">>, <<"b", "a", "b", "a">>}

\* What such a store leaves: something in the cursor, or in the place of the
\* console.
Members == {[row |-> 9, column |-> 9, start |-> <<0, 0>>],
            [row |-> 0, column |-> 0, start |-> <<9, 9>>]}
=============================================================================
