--------------------------- MODULE MCArrayQueue ---------------------------
(***************************************************************************)
(* Instance of ArrayQueue for TLC: two messages and three slots, so that   *)
(* both positions wrap around at every fill level.                         *)
(***************************************************************************)
EXTENDS ArrayQueueSpec
=============================================================================
