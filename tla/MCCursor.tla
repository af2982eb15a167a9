------------------------------ MODULE MCCursor ------------------------------
(***************************************************************************)
(* Instance of Cursor: a small screen, a cursor of 2 or 3 columns and 2    *)
(* rows lit in an angle, and movements that cross the screen either way.   *)
(***************************************************************************)
EXTENDS Cursor

Arrow == {<<0, 0>>, <<1, 0>>, <<0, 1>>}
\* A negative coordinate and a y below the screen are clamped.
OnScreen == {<<0, 0>>, <<7, 3>>, <<12, 1>>, <<5, 8>>, <<-3, 2>>, <<2, 10>>}
NoTarget == {}
FarAndNear == {-ByteSize, -3, 0, 1, ByteSize - 1}
=============================================================================
