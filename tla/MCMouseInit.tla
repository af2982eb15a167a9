---------------------------- MODULE MCMouseInit ----------------------------
(***************************************************************************)
(* Instances of MouseInit for TLC: two configurations, a byte left in the  *)
(* port or not and one left in the mouse, packets with and without a byte  *)
(* that looks like an answer, and a key that is released.                  *)
(***************************************************************************)
EXTENDS MouseInit

\* Everything off; or keyboard and mouse interrupt on, with translation.
TwoConfigs == {{}, {0, 1, 6}}
LeftInPort == {{2}, Ack}
LeftInMouse == {<<>>, <<Byte("left", EndOfReset)>>}

Still == {3}
Packets == {[n \in 1 .. 3 |-> Still], [n \in 1 .. 3 |-> IF n = 2 THEN Ack ELSE Still]}

\* A release of the left shift key, translated, and a byte whose bits turn the
\* keyboard and the mouse clock off where it is taken for the configuration.
Keys == {EndOfReset, {4, 5}}
=============================================================================
