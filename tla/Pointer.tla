------------------------------ MODULE Pointer ------------------------------
(***************************************************************************)
(* What a user expects of the mouse cursor: one picture of a pointer on an *)
(* otherwise empty screen, which follows the movements the mouse reports   *)
(* and stops at the edges.                                                 *)
(***************************************************************************)
EXTENDS Integers

CONSTANTS Width, Height,   \* the screen
          Movements,       \* the movements the mouse may report
          Picture(_, _)    \* the pixels the pointer lights up at a position

VARIABLES at,              \* where the pointer is
          lit,             \* the pixels that are lit
          report           \* the last movement the mouse reported

Positions == (0 .. Width) \X (0 .. Height)
Clamp(n, limit) == IF n < 0 THEN 0 ELSE IF n > limit THEN limit ELSE n

Init == /\ at \in Positions /\ lit = Picture(at[1], at[2])
        /\ report = <<0, 0>>

Goto(x, y) == at' = <<x, y>> /\ lit' = Picture(x, y)

\* A movement to the right and upwards, in the mouse's coordinates.
Move(dx, dy) ==
    /\ report' = <<dx, dy>>
    /\ Goto(Clamp(at[1] + dx, Width), Clamp(at[2] - dy, Height))

Next == \/ \E dx, dy \in Movements : Move(dx, dy)
        \/ \E p \in Positions : Goto(p[1], p[2]) /\ UNCHANGED report

Spec == Init /\ [][Next]_<<at, lit, report>>
=============================================================================
