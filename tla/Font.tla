-------------------------------- MODULE Font --------------------------------
(***************************************************************************)
(* Text in pixels: the bitmap file that tools/genfont writes and that is    *)
(* linked into the kernel, and the functions of kernel/font/font.cpp that   *)
(* read it.                                                                *)
(***************************************************************************)
EXTENDS PixelWriter

CONSTANTS FontWidth, FontHeight,  \* FONT_WIDTH and FONT_HEIGHT
          FontMaskBit,            \* the bit of writeChar's 0x40, number 6
          Glyph                   \* of each character, its black (x, y)

\* A glyph's row fits into a byte, and a glyph into its place.
ASSUME FontAssumption ==
    /\ FontWidth \in 1 .. 8 /\ FontHeight \in Nat \ {0}
    /\ FontMaskBit \in Nat
    /\ \A c \in DOMAIN Glyph : /\ c \in Nat
                               /\ Glyph[c] \subseteq (0 .. FontWidth - 1)
                                                     \X (0 .. FontHeight - 1)

\* genfont writes a byte for each row of each character, the leftmost of its
\* FontWidth pixels in the highest of as many bits. A byte is the set of the
\* numbers of its bits.
FontFile ==
    LET Row(c, y) == {FontWidth - x - 1 : x \in {x \in 0 .. FontWidth - 1 :
                                                    <<x, y>> \in Glyph[c]}}
    IN  [i \in {FontHeight * c + y : c \in DOMAIN Glyph,
                                     y \in 0 .. FontHeight - 1} |->
            Row(i \div FontHeight, i % FontHeight)]

\* Mutant: the characters are as far apart as they are wide.
GetFontByWidth(c) == FontWidth * c

\* getFont: where the bitmap of a character begins. A char is signed, so that
\* the codes from 0x80 on begin before the file; the kernel prints none.
GetFont(c) == FontHeight * c

\* font_bitmap[dy] << dx has the mask's bit.
IsInk(c, dx, dy) ==
    FontMaskBit \in {b + dx : b \in FontFile[GetFont(c) + dy]}

WriteChar(x, y, c) ==
    UNION {DrawPixel(x + p[1], y + p[2]) :
        p \in {d \in (0 .. FontWidth - 1) \X (0 .. FontHeight - 1) :
                   IsInk(c, d[1], d[2])}}

WriteString(x, y, s) ==
    UNION {WriteChar(x + FontWidth * (i - 1), y, s[i]) : i \in DOMAIN s}
-----------------------------------------------------------------------------
\* The pixels of a text: its glyphs side by side.
Ink(x, y, s) ==
    UNION {{<<x + FontWidth * (i - 1) + g[1], y + g[2]>> : g \in Glyph[s[i]]} :
               i \in DOMAIN s}
=============================================================================
