------------------------------- MODULE Cursor -------------------------------
(***************************************************************************)
(* MouseCursor (kernel/mouse/cursor.cpp) on a frame buffer, moved by the   *)
(* packets that MousePS2::process decodes.                                 *)
(***************************************************************************)
EXTENDS PixelWriter

CONSTANTS ByteSize,   \* number of values of a movement byte (256)
          Movements,  \* the movements the mouse reports
          InitX, InitY,
          Targets     \* the (x, y) moveAbsolute is called with

ASSUME CursorAssumption == /\ ByteSize \in Nat \ {0}
                           /\ Movements \subseteq -ByteSize .. ByteSize - 1
                           /\ InitX \in 0 .. Width /\ InitY \in 0 .. Height

VARIABLES x, y,       \* x_ and y_
          frame,      \* what each word of the frame buffer shows
          spilled,    \* a write has gone past the frame buffer
          report      \* the last movement the mouse reported, rightwards and
                      \* upwards (history)

vars == <<x, y, frame, spilled, report>>

\* Mutant: the sign bit of the packet is ignored.
SignExtendNever(sign, byte) == byte

\* (int)(0xFFFFFF00 | byte) when the packet's sign bit is set.
SignExtend(sign, byte) == IF sign THEN byte - ByteSize ELSE byte

\* The two ifs that keep a coordinate on the screen; the limit itself is
\* allowed and hides the cursor.
ClampTo(n, limit) == IF n < 0 THEN 0 ELSE IF n > limit THEN limit ELSE n

Paint(f, words, what) ==
    [w \in DOMAIN f |-> IF w \in words THEN what ELSE f[w]]

Init == /\ x = InitX /\ y = InitY
        /\ frame = Paint([w \in FrameBuffer |-> "empty"],
                         DrawImageRGBA(InitX, InitY), "cursor")
        /\ spilled = ~(DrawImageRGBA(InitX, InitY) \subseteq FrameBuffer)
        /\ report = <<0, 0>>

\* Mutant: the cursor is drawn at its new position without being erased.
RedrawOnly(nx, ny) ==
    LET drawn == DrawImageRGBA(nx, ny)
    IN  /\ x' = nx /\ y' = ny
        /\ frame' = Paint(frame, drawn, "cursor")
        /\ spilled' = (spilled \/ ~(drawn \subseteq FrameBuffer))

\* The body both moves share: erase at the old position with erasecolor,
\* draw at the new one.
Redraw(nx, ny) ==
    LET erased == DrawRectWithFill(x, y, ImageWidth, ImageHeight)
        drawn == DrawImageRGBA(nx, ny)
    IN  /\ x' = nx /\ y' = ny
        /\ frame' = Paint(Paint(frame, erased, "empty"), drawn, "cursor")
        /\ spilled' = (spilled \/ ~(erased \union drawn \subseteq FrameBuffer))

MoveRelative(dx, dy) ==
    Redraw(ClampTo(x + dx, Width), ClampTo(y + dy, Height))

\* The upper limit of x is tested with y.
MoveAbsolute(nx, ny) ==
    Redraw(IF ny > Width THEN Width ELSE IF nx < 0 THEN 0 ELSE nx,
           ClampTo(ny, Height))

\* MousePS2::process, from the decoded sign bits and movement bytes on: the
\* mouse counts upwards, the screen downwards.
Process(xSign, xMove, ySign, yMove) ==
    MoveRelative(SignExtend(xSign, xMove), -SignExtend(ySign, yMove))

\* The mouse sends a movement as a sign bit and the lower bits of its two's
\* complement.
Sign(d) == d < 0
LowBits(d) == d % ByteSize

Packet(dx, dy) == /\ report' = <<dx, dy>>
                  /\ Process(Sign(dx), LowBits(dx), Sign(dy), LowBits(dy))

Next == \/ \E dx, dy \in Movements : Packet(dx, dy)
        \/ \E t \in Targets : MoveAbsolute(t[1], t[2]) /\ UNCHANGED report

Spec == Init /\ [][Next]_vars
-----------------------------------------------------------------------------
\* No movement writes past the frame buffer: a cursor that sticks out is
\* clipped ("so that it does not stick out", pixelWriter.cpp:77).
NoSpill == ~spilled

\* There is exactly one cursor on the screen: what was drawn at the earlier
\* position is gone ("fill with erasecolor to remove the cursor",
\* cursor.cpp:39).
OneCursor == {p \in Screen : frame[WordOf(p)] = "cursor"} = Sprite(x, y)

\* Seen from the user, the cursor follows the mouse as Pointer says: every
\* packet moves it by the movement that was reported, at every edge and after
\* every clipped drawing, and leaves one picture of it.
User ==
    INSTANCE Pointer WITH Picture <- Sprite, at <- <<x, y>>,
                          lit <- {p \in Screen : frame[WordOf(p)] = "cursor"}
ImplementsPointer == User!Spec
=============================================================================
