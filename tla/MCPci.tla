------------------------------- MODULE MCPci -------------------------------
(***************************************************************************)
(* Instance of Pci: two buses of two devices with two functions, up to four *)
(* of them plugged in, and room for three.                                 *)
(***************************************************************************)
EXTENDS Pci

UpToFour == {m \in [Slots -> Kinds] :
                Cardinality({s \in Slots : m[s] # "none"}) <= 4}
=============================================================================
