---------------------------- MODULE PixelCalls ----------------------------
(***************************************************************************)
(* A client of PixelWriter: one call after another, of any function with   *)
(* any arguments, and what the last call has written. Its names keep clear *)
(* of those of Cursor, so that one module can speak of both.               *)
(***************************************************************************)
EXTENDS Font

CONSTANTS Rectangles,  \* (x, y, width, height) of the filled rectangles
          Frames,      \* the same of the borders
          Positions,   \* (x, y) of the pixels and images
          Writings     \* (x, y, text) of the texts

VARIABLES format,   \* the writer kernelMain constructs: "RGB" or "BGR"
          call,     \* the last call
          written   \* the words it wrote

callVars == <<format, call, written>>

NoCall == /\ format \in {"RGB", "BGR"}
          /\ call = [op |-> "none"] /\ written = {}

Pixel(x, y) ==
    /\ call' = [op |-> "drawPixel", x |-> x, y |-> y]
    /\ written' = DrawPixel(x, y)
    /\ UNCHANGED format

Fill(x, y, w, h) ==
    /\ call' = [op |-> "drawRectWithFill", x |-> x, y |-> y, w |-> w, h |-> h]
    /\ written' = DrawRectWithFill(x, y, w, h)
    /\ UNCHANGED format

Image(x, y) ==
    /\ call' = [op |-> "drawImageRGBA", x |-> x, y |-> y]
    /\ written' = DrawImageRGBA(x, y)
    /\ UNCHANGED format

Frame(x, y, w, h) ==
    /\ call' = [op |-> "drawRect", x |-> x, y |-> y, w |-> w, h |-> h]
    /\ written' = DrawRect(format, x, y, w, h)
    /\ UNCHANGED format

Text(x, y, s) ==
    /\ call' = [op |-> "writeString", x |-> x, y |-> y, s |-> s]
    /\ written' = WriteString(x, y, s)
    /\ UNCHANGED format

NextCall == \/ \E p \in Positions : Pixel(p[1], p[2])
            \/ \E p \in Positions : Image(p[1], p[2])
            \/ \E f \in Rectangles : Fill(f[1], f[2], f[3], f[4])
            \/ \E f \in Frames : Frame(f[1], f[2], f[3], f[4])
            \/ \E t \in Writings : Text(t[1], t[2], t[3])

CallSpec == NoCall /\ [][NextCall]_callVars
-----------------------------------------------------------------------------
\* The calls whose result the comments promise: rectangles, borders and images
\* may stick out at the right and the bottom; pixels, and texts, which nobody
\* clips, are on the screen.
CallsFit ==
    /\ Positions \subseteq Screen
    /\ \A r \in Rectangles : /\ r[1] \in 0 .. Width /\ r[2] \in 0 .. Height
                             /\ r[3] \in Nat /\ r[4] \in Nat
    /\ \A f \in Frames : /\ f[1] \in 0 .. Width /\ f[2] \in 0 .. Height
                         /\ f[3] \in 0 .. Width /\ f[4] \in Nat
    /\ \A t \in Writings : /\ t[1] \in Nat /\ t[2] \in Nat
                           /\ t[3] \in Seq(DOMAIN Glyph)
                           /\ t[1] + FontWidth * Len(t[3]) <= Width
                           /\ t[2] + FontHeight <= Height

\* Lines follow each other without a gap, and the mask has the highest of the
\* bits that genfont fills.
LayoutsAgree == PixelPerScanLine = Width /\ FontMaskBit = FontWidth - 1

\* Filling a rectangle and drawing an image change exactly their pixels that
\* are on the screen, also when they stick out at the right or the bottom
\* ("so that it does not stick out", pixelWriter.cpp:77). A text changes
\* exactly the pixels that were black when genfont drew its characters
\* (genfont.py:53, font.cpp:21).
ExactPixels ==
    /\ call.op = "drawRectWithFill" =>
           written = Words(Rectangle(call.x, call.y, call.w, call.h))
    /\ call.op = "drawImageRGBA" => written = Words(Sprite(call.x, call.y))
    /\ call.op = "writeString" => written = Words(Ink(call.x, call.y, call.s))

\* A border has every one of its pixels that are on the screen, and changes
\* none inside it ("only the border", pixelWriter.hpp:90), in both formats,
\* also when it touches an edge or sticks out, is clipped or, by the RGB
\* writer, not clipped and goes on in the next line of the screen.
BorderDrawn ==
    call.op = "drawRect" =>
        /\ Words(Outline(call.x, call.y, call.w, call.h)) \subseteq written
        /\ written \cap Words(Rectangle(call.x + 1, call.y + 1,
                                        call.w - 1, call.h - 1)) = {}

\* The BGR writer clips a border (pixelWriter.cpp:111-119). It does not keep
\* it on the screen by that, but whatever it changes beside the border's
\* visible pixels is in the one column or the one line just behind the screen,
\* however far the border was to stick out.
BorderAtEdge ==
    call.op = "drawRect" /\ format = "BGR" =>
        written \subseteq Words(Outline(call.x, call.y, call.w, call.h)
                               \union {<<Width, r>> : r \in 0 .. Height}
                               \union {<<c, Height>> : c \in 0 .. Width})
=============================================================================
