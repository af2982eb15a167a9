---------------------------- MODULE PixelWriter ----------------------------
(***************************************************************************)
(* The drawing functions of kernel/graphics/pixelWriter.cpp: which words of *)
(* the frame buffer each call writes.                                      *)
(***************************************************************************)
EXTENDS Integers, Sequences

CONSTANTS Width, Height,      \* widthResolution and heightResolution
          PixelPerScanLine,   \* words from one line to the next
          ImageWidth, ImageHeight,
          Opaque,             \* the (dx, dy) of the image with a # 0
          RunawayBound        \* bound: passes of a loop whose limit is negative

ASSUME PixelWriterAssumption ==
    /\ Width \in Nat \ {0} /\ Height \in Nat \ {0}
    /\ PixelPerScanLine \in Nat /\ PixelPerScanLine >= Width
    /\ ImageWidth \in Nat \ {0} /\ ImageHeight \in Nat \ {0}
    /\ Opaque \subseteq (0 .. ImageWidth - 1) \X (0 .. ImageHeight - 1)
    /\ RunawayBound \in Nat /\ RunawayBound > PixelPerScanLine * Height

\* The words the firmware's frame buffer has.
FrameBuffer == 0 .. PixelPerScanLine * Height - 1

\* Mutant: lines are as far apart as they are high.
GetAddrSwapped(x, y) == Height * y + x

\* getAddr: lines are taken to be widthResolution words apart.
GetAddr(x, y) == Width * y + x

\* for (size_t d = 0; d < n; d++) with an int n: a negative n becomes a
\* number no memory is large enough for.
Steps(n) == 0 .. (IF n < 0 THEN RunawayBound ELSE n) - 1

\* Mutant: the clipped extent is one too long.
ClipLoose(at, extent, limit) ==
    IF at + extent >= limit THEN limit - at + 1 ELSE extent

\* How much of an extent from `at` is drawn on a screen of `limit`.
Clip(at, extent, limit) ==
    IF at + extent >= limit THEN limit - at ELSE extent

DrawPixel(x, y) == {GetAddr(x, y)}

DrawRectWithFill(x, y, width, height) ==
    {GetAddr(x, y + dy) + dx : dx \in Steps(Clip(x, width, Width)),
                               dy \in Steps(Clip(y, height, Height))}

\* The image is laid out by pixelPerScanLine, and clipped like a rectangle.
DrawImageRGBA(x, y) ==
    {PixelPerScanLine * (y + p[2]) + x + p[1] :
        p \in {q \in Steps(Clip(x, ImageWidth, Width))
                      \X Steps(Clip(y, ImageHeight, Height)) :
                  \/ q \in Opaque
                  \/ q[1] >= ImageWidth \/ q[2] >= ImageHeight}}

\* Mutant: the right line is drawn one pixel too far to the left.
BorderNarrow(x, y, width, height) ==
    LET horizontal == UNION {{GetAddr(x + dx, y), GetAddr(x + dx, y + height)} :
                                dx \in Steps(width)}
        vertical == UNION {{GetAddr(x, y + dy), GetAddr(x + width - 1, y + dy)} :
                                dy \in 0 .. height - 1}
    IN  horizontal \union vertical

\* The border as the two loops draw it.
Border(x, y, width, height) ==
    LET horizontal == UNION {{GetAddr(x + dx, y), GetAddr(x + dx, y + height)} :
                                dx \in Steps(width)}
        vertical == UNION {{GetAddr(x, y + dy), GetAddr(x + width, y + dy)} :
                                dy \in 0 .. height - 1}
    IN  horizontal \union vertical

\* drawRect of the RGB writer does not clip, that of the BGR writer does.
DrawRect(format, x, y, width, height) ==
    IF format = "RGB"
    THEN Border(x, y, width, height)
    ELSE Border(x, y, Clip(x, width, Width), Clip(y, height, Height))
-----------------------------------------------------------------------------
\* The display: the word that holds a pixel.
Screen == (0 .. Width - 1) \X (0 .. Height - 1)
WordOf(p) == PixelPerScanLine * p[2] + p[1]
Words(pixels) == {WordOf(p) : p \in pixels}

\* The pixels of a rectangle, of a border and of the image that are on the
\* screen.
Rectangle(x, y, width, height) ==
    {p \in Screen : x <= p[1] /\ p[1] < x + width
                 /\ y <= p[2] /\ p[2] < y + height}
Outline(x, y, width, height) ==
    {p \in Screen : \/ p[2] \in {y, y + height} /\ p[1] \in x .. x + width - 1
                    \/ p[1] \in {x, x + width} /\ p[2] \in y .. y + height - 1}
Sprite(x, y) == {p \in Screen : <<p[1] - x, p[2] - y>> \in Opaque}
=============================================================================
