---------------------------- MODULE DrawingProofs ---------------------------
(***************************************************************************)
(* Proofs about Cursor and PixelCalls, for every screen, image and pixel   *)
(* layout.                                                                 *)
(***************************************************************************)
EXTENDS Cursor, PixelCalls, TLAPS

\* moveAbsolute is asked for nothing that its swapped limit test lets
\* through: an x beyond the screen comes with a y beyond the screen's width.
TargetsClamped ==
    Targets \subseteq Int \X Int
    /\ \A t \in Targets : t[1] <= Width \/ t[2] > Width

\* The cursor's corner is on the screen or on its far edges.
Inside == x \in 0 .. Width /\ y \in 0 .. Height

\* A pixel shows the cursor where the image has been drawn, and only there.
Painted == /\ frame \in [FrameBuffer -> {"empty", "cursor"}]
           /\ OneCursor
-----------------------------------------------------------------------------
\* What is left of an extent ends at the limit at the latest.
LEMMA ClipFits ==
    ASSUME NEW limit \in Nat, NEW at \in 0 .. limit, NEW extent \in Nat
    PROVE  /\ Clip(at, extent, limit) \in 0 .. extent
           /\ at + Clip(at, extent, limit) <= limit
           /\ \A n \in 0 .. limit - 1 :
                  n - at \in 0 .. extent - 1
                      => n - at \in 0 .. Clip(at, extent, limit) - 1
           /\ Steps(Clip(at, extent, limit))
                  = 0 .. Clip(at, extent, limit) - 1
BY DEF Clip, Steps

\* Of an extent, clipped or not, what lies before the limit is drawn, and a
\* drawn end before the limit is the extent's.
LEMMA DrawnExtent ==
    ASSUME NEW limit \in Nat, NEW at \in 0 .. limit, NEW extent \in Nat,
           NEW drawn, drawn = extent \/ drawn = Clip(at, extent, limit)
    PROVE  /\ drawn \in 0 .. extent
           /\ Steps(drawn) = 0 .. drawn - 1
           /\ \A n \in 0 .. limit - 1 :
                  n - at \in 0 .. extent - 1 => n - at \in 0 .. drawn - 1
           /\ at + extent < limit => drawn = extent
           /\ at + extent >= limit => at + drawn >= limit
<1>1. CASE drawn = extent
  BY <1>1 DEF Steps
<1>2. CASE drawn = Clip(at, extent, limit)
  <2> DEFINE clipped == Clip(at, extent, limit)
  <2>1. /\ at + extent < limit => clipped = extent
        /\ at + extent >= limit => clipped = limit - at
    BY DEF Clip
  <2>2. /\ clipped \in 0 .. extent
        /\ Steps(clipped) = 0 .. clipped - 1
        /\ \A n \in 0 .. limit - 1 :
               n - at \in 0 .. extent - 1 => n - at \in 0 .. clipped - 1
    BY ClipFits
  <2>3. drawn = clipped
    BY <1>2
  <2> HIDE DEF clipped
  <2>4. QED
    BY <2>1, <2>2, <2>3
<1>3. QED
  BY <1>1, <1>2

\* Products grow with their factors.
LEMMA Monotone ==
    ASSUME NEW a \in Nat, NEW b \in Nat, NEW c \in Nat, b <= c
    PROVE  a * b <= a * c
<1>1. PICK d \in Nat : c = b + d
  <2>1. c - b \in Nat /\ c = b + (c - b)
    OBVIOUS
  <2>2. QED
    BY <2>1
<1>2. a * (b + d) = a * b + a * d /\ a * d \in Nat /\ a * b \in Nat
  OBVIOUS
<1>3. QED
  BY <1>1, <1>2

\* A line of a row that has room for the screen's width ends in the buffer.
LEMMA InBuffer ==
    ASSUME NEW pitch \in Width .. PixelPerScanLine,
           NEW row \in 0 .. Height - 1, NEW column \in 0 .. Width - 1
    PROVE  pitch * row + column \in FrameBuffer
<1>1. /\ Width \in Nat /\ Height \in Nat /\ Height - 1 \in Nat
      /\ PixelPerScanLine \in Nat /\ pitch \in Nat /\ row \in Nat
      /\ pitch <= PixelPerScanLine /\ column < pitch
  BY PixelWriterAssumption
<1>2. pitch * (row + 1) <= pitch * Height
  <2>1. row + 1 \in Nat /\ row + 1 <= Height
    BY <1>1
  <2>2. QED
    BY <1>1, <2>1, Monotone
<1>3. Height * pitch <= Height * PixelPerScanLine
  BY <1>1, Monotone
<1>4. /\ pitch * (row + 1) = pitch * row + pitch
      /\ Height * pitch = pitch * Height
      /\ Height * PixelPerScanLine = PixelPerScanLine * Height
      /\ pitch * row \in Nat /\ PixelPerScanLine * Height \in Nat
      /\ pitch * Height \in Nat
  BY <1>1
<1>5. pitch * row + column \in 0 .. PixelPerScanLine * Height - 1
  BY <1>1, <1>2, <1>3, <1>4
<1>6. QED
  BY <1>5 DEF FrameBuffer

\* A rectangle covers its pixels on the screen.
LEMMA RectanglePixels ==
    ASSUME NEW cx \in 0 .. Width, NEW cy \in 0 .. Height,
           NEW w \in Nat, NEW h \in Nat
    PROVE  DrawRectWithFill(cx, cy, w, h)
               = {Width * p[2] + p[1] : p \in Rectangle(cx, cy, w, h)}
<1> DEFINE cw == Clip(cx, w, Width)
           ch == Clip(cy, h, Height)
<1>1. Width \in Nat /\ Height \in Nat /\ w \in Nat /\ h \in Nat
  BY PixelWriterAssumption
<1>2. /\ Steps(cw) = 0 .. cw - 1 /\ cw \in 0 .. w /\ cx + cw <= Width
      /\ \A n \in 0 .. Width - 1 :
             n - cx \in 0 .. w - 1 => n - cx \in 0 .. cw - 1
  BY <1>1, ClipFits
<1>3. /\ Steps(ch) = 0 .. ch - 1 /\ ch \in 0 .. h /\ cy + ch <= Height
      /\ \A n \in 0 .. Height - 1 :
             n - cy \in 0 .. h - 1 => n - cy \in 0 .. ch - 1
  BY <1>1, ClipFits
<1> HIDE DEF cw, ch
<1>4. ASSUME NEW p \in Rectangle(cx, cy, w, h)
      PROVE  \E dx \in Steps(cw), dy \in Steps(ch) :
                 Width * p[2] + p[1] = GetAddr(cx, cy + dy) + dx
  <2>1. /\ p[1] \in 0 .. Width - 1 /\ p[2] \in 0 .. Height - 1
        /\ p[1] - cx \in 0 .. w - 1
        /\ p[2] - cy \in 0 .. h - 1
    BY <1>1 DEF Rectangle, Screen
  <2>2. p[1] - cx \in Steps(cw) /\ p[2] - cy \in Steps(ch)
    BY <1>1, <1>2, <1>3, <2>1
  <2>3. cy + (p[2] - cy) = p[2]
    BY <2>1
  <2>4. Width * p[2] \in Int
    BY <1>1, <2>1
  <2>5. Width * p[2] + p[1] = GetAddr(cx, cy + (p[2] - cy)) + (p[1] - cx)
    BY <2>1, <2>3, <2>4 DEF GetAddr
  <2>6. QED
    BY <2>2, <2>5
<1>5. ASSUME NEW dx \in Steps(cw), NEW dy \in Steps(ch)
      PROVE  /\ <<cx + dx, cy + dy>>
                    \in Rectangle(cx, cy, w, h)
             /\ GetAddr(cx, cy + dy) + dx
                    = Width * (cy + dy) + (cx + dx)
  <2>1. /\ dx \in 0 .. w - 1 /\ cx + dx \in 0 .. Width - 1
        /\ dy \in 0 .. h - 1 /\ cy + dy \in 0 .. Height - 1
    BY <1>1, <1>2, <1>3
  <2>2. Width * (cy + dy) \in Int
    BY <1>1, <2>1
  <2>3. GetAddr(cx, cy + dy) + dx = Width * (cy + dy) + (cx + dx)
    BY <2>1, <2>2 DEF GetAddr
  <2>4. <<cx + dx, cy + dy>>
            \in Rectangle(cx, cy, w, h)
    BY <1>1, <2>1 DEF Rectangle, Screen
  <2>5. QED
    BY <2>3, <2>4
<1>6. DrawRectWithFill(cx, cy, w, h)
          = {GetAddr(cx, cy + dy) + dx : dx \in Steps(cw), dy \in Steps(ch)}
  BY DEF DrawRectWithFill, cw, ch
<1>7. ASSUME NEW dx \in Steps(cw), NEW dy \in Steps(ch)
      PROVE  GetAddr(cx, cy + dy) + dx
                 \in {Width * p[2] + p[1] :
                        p \in Rectangle(cx, cy, w, h)}
  <2> DEFINE q == <<cx + dx, cy + dy>>
  <2>1. /\ q \in Rectangle(cx, cy, w, h)
        /\ GetAddr(cx, cy + dy) + dx = Width * q[2] + q[1]
    BY <1>5
  <2> HIDE DEF q
  <2>2. QED
    BY <2>1
<1>8. QED
  BY <1>4, <1>6, <1>7

\* Where the lines follow each other, those are the words that show it.
LEMMA RectangleWords ==
    ASSUME PixelPerScanLine = Width,
           NEW cx \in 0 .. Width, NEW cy \in 0 .. Height,
           NEW w \in Nat, NEW h \in Nat
    PROVE  DrawRectWithFill(cx, cy, w, h) = Words(Rectangle(cx, cy, w, h))
  BY RectanglePixels DEF Words, WordOf

\* The image covers the pixels of its opaque part.
LEMMA SpritePixels ==
    ASSUME NEW cx \in 0 .. Width, NEW cy \in 0 .. Height
    PROVE  DrawImageRGBA(cx, cy) = Words(Sprite(cx, cy))
<1> DEFINE cw == Clip(cx, ImageWidth, Width)
           ch == Clip(cy, ImageHeight, Height)
<1>1. /\ Width \in Nat /\ Height \in Nat /\ PixelPerScanLine \in Nat
      /\ ImageWidth \in Nat /\ ImageHeight \in Nat
      /\ Opaque \subseteq (0 .. ImageWidth - 1) \X (0 .. ImageHeight - 1)
  BY PixelWriterAssumption
<1>2. /\ Steps(cw) = 0 .. cw - 1 /\ cw \in 0 .. ImageWidth /\ cx + cw <= Width
      /\ \A n \in 0 .. Width - 1 :
             n - cx \in 0 .. ImageWidth - 1 => n - cx \in 0 .. cw - 1
  BY <1>1, ClipFits
<1>3. /\ Steps(ch) = 0 .. ch - 1 /\ ch \in 0 .. ImageHeight
      /\ cy + ch <= Height
      /\ \A n \in 0 .. Height - 1 :
             n - cy \in 0 .. ImageHeight - 1 => n - cy \in 0 .. ch - 1
  BY <1>1, ClipFits
<1> HIDE DEF cw, ch
<1> DEFINE inner == {p \in Steps(cw) \X Steps(ch) :
                        p \in Opaque \/ p[1] >= ImageWidth
                                     \/ p[2] >= ImageHeight}
           wordAt(p) == PixelPerScanLine * (cy + p[2]) + cx + p[1]
<1>4. DrawImageRGBA(cx, cy) = {wordAt(p) : p \in inner}
  BY DEF DrawImageRGBA, cw, ch
<1>5. ASSUME NEW p \in inner
      PROVE  \E q \in Sprite(cx, cy) : wordAt(p) = WordOf(q)
  <2>1. /\ p[1] \in 0 .. ImageWidth - 1 /\ cx + p[1] \in 0 .. Width - 1
        /\ p[2] \in 0 .. ImageHeight - 1 /\ cy + p[2] \in 0 .. Height - 1
        /\ p = <<p[1], p[2]>> /\ p \in Opaque
    <3>1. /\ p[1] \in Steps(cw) /\ p[2] \in Steps(ch)
          /\ p = <<p[1], p[2]>>
          /\ p \in Opaque \/ p[1] >= ImageWidth \/ p[2] >= ImageHeight
      OBVIOUS
    <3>2. /\ p[1] \in 0 .. ImageWidth - 1 /\ cx + p[1] \in 0 .. Width - 1
      BY <1>1, <1>2, <1>3, <3>1
    <3>3. /\ p[2] \in 0 .. ImageHeight - 1 /\ cy + p[2] \in 0 .. Height - 1
      BY <1>1, <1>2, <1>3, <3>1
    <3>4. p \in Opaque
      BY <1>1, <3>1, <3>2, <3>3
    <3>5. QED
      BY <3>1, <3>2, <3>3, <3>4
  <2>2. <<cx + p[1], cy + p[2]>> \in Sprite(cx, cy)
    <3>1. (cx + p[1]) - cx = p[1] /\ (cy + p[2]) - cy = p[2]
      BY <2>1
    <3>2. QED
      BY <2>1, <3>1 DEF Sprite, Screen
  <2>3. PixelPerScanLine * (cy + p[2]) \in Int
    BY <1>1, <2>1
  <2>4. wordAt(p) = WordOf(<<cx + p[1], cy + p[2]>>)
    BY <2>1, <2>3 DEF WordOf
  <2>5. QED
    BY <2>2, <2>4
<1>6. ASSUME NEW q \in Sprite(cx, cy)
      PROVE  \E p \in inner : wordAt(p) = WordOf(q)
  <2> DEFINE p == <<q[1] - cx, q[2] - cy>>
  <2>1. /\ q[1] \in 0 .. Width - 1 /\ q[2] \in 0 .. Height - 1
        /\ p \in Opaque /\ q[1] - cx \in 0 .. ImageWidth - 1
        /\ q[2] - cy \in 0 .. ImageHeight - 1
    BY <1>1 DEF Sprite, Screen
  <2>2. q[1] - cx \in Steps(cw) /\ q[2] - cy \in Steps(ch)
    BY <1>1, <1>2, <1>3, <2>1
  <2>3. p \in inner
    BY <2>1, <2>2
  <2>4. cy + (q[2] - cy) = q[2] /\ PixelPerScanLine * q[2] \in Int
    BY <1>1, <2>1
  <2>5. wordAt(p) = WordOf(q)
    BY <2>1, <2>4 DEF WordOf
  <2>6. QED
    BY <2>3, <2>5
<1>7. QED
  BY <1>4, <1>5, <1>6 DEF Words

\* Nothing that is drawn at a corner lies outside the frame buffer.
LEMMA DrawnInBuffer ==
    ASSUME NEW cx \in 0 .. Width, NEW cy \in 0 .. Height
    PROVE  /\ DrawRectWithFill(cx, cy, ImageWidth, ImageHeight)
                  \subseteq FrameBuffer
           /\ DrawImageRGBA(cx, cy) \subseteq FrameBuffer
<1>1. /\ Width \in Width .. PixelPerScanLine
      /\ PixelPerScanLine \in Width .. PixelPerScanLine
  BY PixelWriterAssumption
<1>2. \A p \in Screen : /\ Width * p[2] + p[1] \in FrameBuffer
                        /\ WordOf(p) \in FrameBuffer
  BY <1>1, InBuffer DEF Screen, WordOf
<1>3. /\ Rectangle(cx, cy, ImageWidth, ImageHeight) \subseteq Screen
      /\ Sprite(cx, cy) \subseteq Screen
  BY DEF Rectangle, Sprite
<1>4. ImageWidth \in Nat /\ ImageHeight \in Nat
  BY PixelWriterAssumption
<1>5. QED
  BY <1>2, <1>3, <1>4, RectanglePixels, SpritePixels DEF Words

\* Both moves redraw the cursor at a corner of the screen.
LEMMA EveryMoveRedraws ==
    ASSUME TargetsClamped, Inside, Next
    PROVE  \E nx \in 0 .. Width, ny \in 0 .. Height : Redraw(nx, ny)
<1>1. /\ Width \in Nat /\ Height \in Nat /\ ByteSize \in Nat \ {0}
      /\ Movements \subseteq Int
  BY PixelWriterAssumption, CursorAssumption
<1>2. ASSUME NEW n \in Int, NEW limit \in Nat
      PROVE  ClampTo(n, limit) \in 0 .. limit
  BY DEF ClampTo
<1>3. ASSUME NEW dx \in Movements, NEW dy \in Movements, Packet(dx, dy)
      PROVE  \E nx \in 0 .. Width, ny \in 0 .. Height : Redraw(nx, ny)
  <2> DEFINE right == SignExtend(Sign(dx), LowBits(dx))
             up == SignExtend(Sign(dy), LowBits(dy))
  <2>1. right \in Int /\ up \in Int
    BY <1>1 DEF SignExtend, Sign, LowBits
  <2>2. Redraw(ClampTo(x + right, Width), ClampTo(y + -up, Height))
    BY <1>3 DEF Packet, Process, MoveRelative
  <2> HIDE DEF right, up
  <2>3. x + right \in Int /\ y + -up \in Int
    BY <2>1 DEF Inside
  <2>4. /\ ClampTo(x + right, Width) \in 0 .. Width
        /\ ClampTo(y + -up, Height) \in 0 .. Height
    BY <1>1, <1>2, <2>3
  <2>5. QED
    BY <2>2, <2>4
<1>4. ASSUME NEW t \in Targets, MoveAbsolute(t[1], t[2])
      PROVE  \E nx \in 0 .. Width, ny \in 0 .. Height : Redraw(nx, ny)
  <2>1. /\ t[1] \in Int /\ t[2] \in Int
        /\ t[1] <= Width \/ t[2] > Width
    BY DEF TargetsClamped
  <2> DEFINE nx == IF t[2] > Width THEN Width
                   ELSE IF t[1] < 0 THEN 0 ELSE t[1]
  <2>2. nx \in 0 .. Width
    BY <1>1, <2>1
  <2>3. Redraw(nx, ClampTo(t[2], Height))
    BY <1>4 DEF MoveAbsolute
  <2> HIDE DEF nx
  <2>4. ClampTo(t[2], Height) \in 0 .. Height
    BY <1>1, <1>2, <2>1
  <2>5. QED
    BY <2>2, <2>3, <2>4
<1>5. QED
  BY <1>3, <1>4 DEF Next

\* No movement of the mouse and no clamped target draws outside the frame
\* buffer, whatever the distance of its lines.
THEOREM NothingSpills == ASSUME TargetsClamped PROVE Spec => []NoSpill
<1>1. Init => Inside /\ NoSpill
  BY CursorAssumption, DrawnInBuffer DEF Init, Inside, NoSpill
<1>2. Inside /\ NoSpill /\ [Next]_vars => (Inside /\ NoSpill)'
  <2> SUFFICES ASSUME Inside, NoSpill, [Next]_vars
               PROVE  (Inside /\ NoSpill)'
    OBVIOUS
  <2>1. CASE Next
    <3>1. PICK nx \in 0 .. Width, ny \in 0 .. Height : Redraw(nx, ny)
      BY <2>1, EveryMoveRedraws
    <3>2. /\ DrawRectWithFill(x, y, ImageWidth, ImageHeight)
                 \subseteq FrameBuffer
          /\ DrawImageRGBA(nx, ny) \subseteq FrameBuffer
      BY DrawnInBuffer DEF Inside
    <3>3. QED
      BY <3>1, <3>2 DEF Redraw, Inside, NoSpill
  <2>2. CASE UNCHANGED vars
    BY <2>2 DEF vars, Inside, NoSpill
  <2>3. QED
    BY <2>1, <2>2
<1>3. QED
  BY <1>1, <1>2, PTL DEF Spec
-----------------------------------------------------------------------------
\* Two pixels of the screen have different words.
LEMMA WordsDistinct ==
    ASSUME NEW p \in Screen, NEW q \in Screen, WordOf(p) = WordOf(q)
    PROVE  p = q
<1>1. /\ PixelPerScanLine \in Nat /\ Width <= PixelPerScanLine
      /\ Width \in Nat /\ Height \in Nat
      /\ p[1] \in 0 .. Width - 1 /\ q[1] \in 0 .. Width - 1
      /\ p[2] \in Nat /\ q[2] \in Nat /\ p = <<p[1], p[2]>>
      /\ q = <<q[1], q[2]>>
  BY PixelWriterAssumption DEF Screen
<1>2. ASSUME NEW b \in Nat, NEW d \in Nat, NEW a \in 0 .. Width - 1,
             NEW c \in 0 .. Width - 1, b < d
      PROVE  PixelPerScanLine * b + a # PixelPerScanLine * d + c
  <2>1. b + 1 \in Nat /\ b + 1 <= d
    BY <1>2
  <2>2. PixelPerScanLine * (b + 1) <= PixelPerScanLine * d
    BY <1>1, <2>1, Monotone
  <2>3. /\ PixelPerScanLine * (b + 1) = PixelPerScanLine * b + PixelPerScanLine
        /\ PixelPerScanLine * b \in Nat /\ PixelPerScanLine * d \in Nat
    BY <1>1
  <2>4. QED
    BY <1>1, <2>2, <2>3
<1>3. /\ PixelPerScanLine * p[2] + p[1] = PixelPerScanLine * q[2] + q[1]
      /\ PixelPerScanLine * p[2] \in Nat /\ PixelPerScanLine * q[2] \in Nat
  BY <1>1 DEF WordOf
<1>4. ~(p[2] < q[2])
  BY <1>1, <1>2, <1>3
<1>5. ~(q[2] < p[2])
  BY <1>1, <1>2, <1>3
<1>6. p[2] = q[2]
  BY <1>1, <1>4, <1>5
<1>7. p[1] = q[1]
  <2> DEFINE k == PixelPerScanLine * q[2]
  <2>1. k \in Nat /\ k + p[1] = k + q[1]
    BY <1>3, <1>6
  <2> HIDE DEF k
  <2>2. QED
    BY <1>1, <2>1
<1>8. QED
  BY <1>1, <1>6, <1>7, Zenon

\* The lower bits and the sign give the movement back.
LEMMA MovementDecoded ==
    ASSUME NEW d \in Movements
    PROVE  SignExtend(Sign(d), LowBits(d)) = d
<1>1. ByteSize \in Nat \ {0} /\ d \in -ByteSize .. ByteSize - 1
  BY CursorAssumption
<1>2. CASE d < 0
  <2>1. (d + ByteSize) % ByteSize = d + ByteSize
    BY <1>1, <1>2
  <2>2. d % ByteSize = d + ByteSize
    BY <1>1, <1>2
  <2>3. QED
    BY <1>1, <1>2, <2>2 DEF SignExtend, Sign, LowBits
<1>3. CASE d >= 0
  <2>1. d % ByteSize = d
    BY <1>1, <1>3
  <2>2. QED
    BY <1>1, <1>3, <2>1 DEF SignExtend, Sign, LowBits
<1>4. QED
  BY <1>1, <1>2, <1>3

\* Where the lines of the screen follow each other, a redraw leaves the one
\* cursor at the new corner.
LEMMA RedrawMoves ==
    ASSUME PixelPerScanLine = Width, Inside, Painted,
           NEW nx \in 0 .. Width, NEW ny \in 0 .. Height, Redraw(nx, ny)
    PROVE  Inside' /\ Painted'
<1> DEFINE erased == Rectangle(x, y, ImageWidth, ImageHeight)
           old == Words(erased)
           new == Words(Sprite(nx, ny))
<1>1. /\ x' = nx /\ y' = ny
      /\ frame' = Paint(Paint(frame, old, "empty"), new, "cursor")
  <2>1. DrawRectWithFill(x, y, ImageWidth, ImageHeight) = old
    BY PixelWriterAssumption, RectangleWords DEF Inside
  <2>2. DrawImageRGBA(nx, ny) = new
    BY SpritePixels
  <2>3. QED
    BY <2>1, <2>2 DEF Redraw
<1>2. /\ \A p \in Screen : WordOf(p) \in FrameBuffer
      /\ \A p \in Screen : WordOf(p) \in old <=> p \in erased
      /\ \A p \in Screen : WordOf(p) \in new <=> p \in Sprite(nx, ny)
  <2>1. erased \subseteq Screen /\ Sprite(nx, ny) \subseteq Screen
    BY DEF Rectangle, Sprite
  <2>2. PixelPerScanLine \in Width .. PixelPerScanLine
    BY PixelWriterAssumption
  <2>3. \A p \in Screen : WordOf(p) \in FrameBuffer
    BY <2>2, InBuffer DEF Screen, WordOf
  <2>4. \A p \in Screen : WordOf(p) \in old <=> p \in erased
    BY <2>1, WordsDistinct DEF Words
  <2>5. \A p \in Screen : WordOf(p) \in new <=> p \in Sprite(nx, ny)
    BY <2>1, WordsDistinct DEF Words
  <2>6. QED
    BY <2>3, <2>4, <2>5
<1>3. Sprite(x, y) \subseteq erased
  <2> SUFFICES ASSUME NEW p \in Sprite(x, y) PROVE p \in erased
    OBVIOUS
  <2>1. /\ p \in Screen /\ p[1] \in Int /\ p[2] \in Int
        /\ p[1] - x \in 0 .. ImageWidth - 1
        /\ p[2] - y \in 0 .. ImageHeight - 1
    BY PixelWriterAssumption DEF Sprite, Screen
  <2>2. QED
    BY <2>1, PixelWriterAssumption DEF Rectangle, Inside
<1> HIDE DEF erased, old, new
<1>4. /\ frame' \in [FrameBuffer -> {"empty", "cursor"}]
      /\ \A w \in FrameBuffer : frame'[w] = IF w \in new THEN "cursor"
                                            ELSE IF w \in old THEN "empty"
                                            ELSE frame[w]
  BY <1>1 DEF Paint, Painted
<1>5. \A p \in Screen : frame'[WordOf(p)] = "cursor" <=> p \in Sprite(nx, ny)
  <2> SUFFICES ASSUME NEW p \in Screen
               PROVE  frame'[WordOf(p)] = "cursor" <=> p \in Sprite(nx, ny)
    OBVIOUS
  <2>1. frame[WordOf(p)] = "cursor" => p \in erased
    BY <1>3 DEF Painted, OneCursor
  <2>2. QED
    BY <1>2, <1>4, <2>1
<1>6. Sprite(nx, ny) \subseteq Screen /\ Sprite(x, y)' = Sprite(nx, ny)
  BY <1>1 DEF Sprite
<1>7. OneCursor'
  BY <1>5, <1>6 DEF OneCursor, Screen, WordOf
<1>8. QED
  BY <1>1, <1>4, <1>7 DEF Inside, Painted, FrameBuffer

\* Where the lines of the screen follow each other, the cursor moves as
\* Pointer says: one picture of it, at the position the reported movements
\* have brought it to.
THEOREM MovesAsPointer ==
    ASSUME PixelPerScanLine = Width, TargetsClamped
    PROVE  Spec => ImplementsPointer
<1> DEFINE lit == {p \in Screen : frame[WordOf(p)] = "cursor"}
<1>1. Init => Inside /\ Painted
  <2> SUFFICES ASSUME Init PROVE Inside /\ Painted
    OBVIOUS
  <2>1. x \in 0 .. Width /\ y \in 0 .. Height /\ x = InitX /\ y = InitY
    BY CursorAssumption DEF Init
  <2>2. frame = [w \in FrameBuffer |-> IF w \in Words(Sprite(x, y))
                                       THEN "cursor" ELSE "empty"]
    BY <2>1, SpritePixels DEF Init, Paint
  <2>3. \A p \in Screen : WordOf(p) \in FrameBuffer
    <3>1. PixelPerScanLine \in Width .. PixelPerScanLine
      BY PixelWriterAssumption
    <3>2. QED
      BY <3>1, InBuffer DEF Screen, WordOf
  <2>4. Sprite(x, y) \subseteq Screen
    BY DEF Sprite
  <2>5. \A p \in Screen : WordOf(p) \in Words(Sprite(x, y))
                              <=> p \in Sprite(x, y)
    BY <2>4, WordsDistinct DEF Words
  <2>6. OneCursor
    BY <2>2, <2>3, <2>4, <2>5 DEF OneCursor
  <2>7. QED
    BY <2>1, <2>2, <2>6 DEF Inside, Painted
<1>2. Inside /\ Painted /\ [Next]_vars => (Inside /\ Painted)'
  <2> SUFFICES ASSUME Inside, Painted, [Next]_vars
               PROVE  (Inside /\ Painted)'
    OBVIOUS
  <2>1. CASE Next
    BY <2>1, EveryMoveRedraws, RedrawMoves
  <2>2. CASE UNCHANGED vars
    BY <2>2 DEF vars, Inside, Painted, OneCursor, Sprite
  <2>3. QED
    BY <2>1, <2>2
<1>3. Init => User!Init
  <2> SUFFICES ASSUME Init PROVE User!Init
    OBVIOUS
  <2>1. Inside /\ OneCursor
    BY <1>1 DEF Painted
  <2>2. QED
    BY <2>1 DEF Init, Inside, OneCursor, User!Init, User!Positions
<1>4. Inside /\ Painted /\ (Inside /\ Painted)' /\ [Next]_vars
          => [User!Next]_<<<<x, y>>, lit, report>>
  <2> SUFFICES ASSUME Inside, Painted, Inside', Painted', [Next]_vars
               PROVE  [User!Next]_<<<<x, y>>, lit, report>>
    OBVIOUS
  <2>1. lit' = Sprite(x', y')
    BY DEF Painted, OneCursor, Sprite
  <2>2. ASSUME NEW dx \in Movements, NEW dy \in Movements, Packet(dx, dy)
        PROVE  User!Next
    <3>1. /\ x' = ClampTo(x + dx, Width) /\ y' = ClampTo(y + -dy, Height)
          /\ report' = <<dx, dy>>
      BY <2>2, MovementDecoded DEF Packet, Process, MoveRelative, Redraw
    <3>2. y + -dy = y - dy
      BY CursorAssumption DEF Inside
    <3>3. User!Move(dx, dy)
      BY <2>1, <3>1, <3>2 DEF User!Move, User!Goto, User!Clamp, ClampTo
    <3>4. QED
      BY <3>3 DEF User!Next
  <2>3. ASSUME NEW t \in Targets, MoveAbsolute(t[1], t[2]), UNCHANGED report
        PROVE  User!Next
    <3> DEFINE q == <<x', y'>>
    <3>1. q \in User!Positions
      BY DEF Inside, User!Positions
    <3>2. User!Goto(q[1], q[2])
      BY <2>1 DEF User!Goto
    <3> HIDE DEF q
    <3>3. QED
      BY <2>3, <3>1, <3>2 DEF User!Next
  <2>4. CASE UNCHANGED vars
    BY <2>4 DEF vars
  <2>5. QED
    BY <2>2, <2>3, <2>4 DEF Next
<1>5. QED
  BY <1>1, <1>2, <1>3, <1>4, PTL DEF Spec, ImplementsPointer, User!Spec
-----------------------------------------------------------------------------
\* The row and the rest of a place in rows of h.
LEMMA RowOf ==
    ASSUME NEW h \in Nat \ {0}, NEW c \in Nat, NEW r \in 0 .. h - 1
    PROVE  (h * c + r) \div h = c /\ (h * c + r) % h = r
<1> DEFINE n == h * c + r
           q == n \div h
           m == n % h
<1>1. h * c \in Nat /\ n \in Nat
  OBVIOUS
<1>2. q \in Nat /\ m \in 0 .. h - 1 /\ n = h * q + m
  BY <1>1
<1>3. h * c + r = h * q + m
  BY <1>2
<1> HIDE DEF n, q, m
<1>4. ~(q > c)
  <2>1. ASSUME q > c PROVE FALSE
    <3>1. h * (c + 1) <= h * q
      BY <1>2, <2>1, Monotone
    <3>2. h * (c + 1) = h * c + h
      OBVIOUS
    <3>3. h * q \in Int
      BY <1>2
    <3>4. QED
      BY <1>1, <1>2, <1>3, <3>1, <3>2, <3>3
  <2>2. QED
    BY <2>1
<1>5. ~(c > q)
  <2>1. ASSUME c > q PROVE FALSE
    <3>1. h * (q + 1) <= h * c
      BY <1>2, <2>1, Monotone
    <3>2. h * (q + 1) = h * q + h
      BY <1>2
    <3>3. h * q \in Int
      BY <1>2
    <3>4. QED
      BY <1>1, <1>2, <1>3, <3>1, <3>2, <3>3
  <2>2. QED
    BY <2>1
<1>6. q = c
  BY <1>2, <1>4, <1>5
<1>7. m = r
  BY <1>1, <1>2, <1>3, <1>6
<1>8. QED
  BY <1>6, <1>7 DEF q, m, n

\* The bit that writeChar looks at is the pixel genfont packed.
LEMMA InkIsGlyph ==
    ASSUME FontMaskBit = FontWidth - 1, NEW c \in DOMAIN Glyph,
           NEW dx \in 0 .. FontWidth - 1, NEW dy \in 0 .. FontHeight - 1
    PROVE  IsInk(c, dx, dy) <=> <<dx, dy>> \in Glyph[c]
<1>1. /\ FontWidth \in Nat /\ FontHeight \in Nat \ {0} /\ c \in Nat
      /\ dy \in 0 .. FontHeight - 1
  BY FontAssumption
<1> DEFINE i == FontHeight * c + dy
           row == {FontWidth - col - 1 : col \in {col \in 0 .. FontWidth - 1 :
                                              <<col, dy>> \in Glyph[c]}}
<1>2. i \div FontHeight = c /\ i % FontHeight = dy
  BY <1>1, RowOf
<1>3. FontFile[i] = row
  <2>1. i \in {FontHeight * ch + line : ch \in DOMAIN Glyph,
                                        line \in 0 .. FontHeight - 1}
    BY <1>1
  <2> HIDE DEF i
  <2>2. QED
    BY <1>2, <2>1 DEF FontFile
<1>4. IsInk(c, dx, dy) <=> FontWidth - 1 \in {b + dx : b \in row}
  BY <1>3 DEF IsInk, GetFont, i
<1>5. FontWidth - 1 \in {b + dx : b \in row} <=> <<dx, dy>> \in Glyph[c]
  <2>1. ASSUME NEW b \in row, FontWidth - 1 = b + dx
        PROVE  <<dx, dy>> \in Glyph[c]
    <3>1. PICK k \in 0 .. FontWidth - 1 :
              <<k, dy>> \in Glyph[c] /\ b = FontWidth - k - 1
      OBVIOUS
    <3>2. k = dx
      BY <1>1, <2>1, <3>1
    <3>3. QED
      BY <3>1, <3>2
  <2>2. ASSUME <<dx, dy>> \in Glyph[c]
        PROVE  \E b \in row : FontWidth - 1 = b + dx
    <3>1. FontWidth - dx - 1 \in row
      BY <2>2
    <3>2. FontWidth - 1 = (FontWidth - dx - 1) + dx
      BY <1>1
    <3>3. QED
      BY <3>1, <3>2
  <2>3. QED
    BY <2>1, <2>2
<1>6. QED
  BY <1>4, <1>5

\* A pixel of the screen is drawn on the screen.
LEMMA PixelOnScreen ==
    ASSUME PixelPerScanLine = Width,
           NEW px \in 0 .. Width - 1, NEW py \in 0 .. Height - 1
    PROVE  /\ GetAddr(px, py) \in Words(Screen)
           /\ GetAddr(px, py) = WordOf(<<px, py>>)
<1>1. <<px, py>> \in Screen
  BY DEF Screen
<1>2. GetAddr(px, py) = WordOf(<<px, py>>)
  BY DEF GetAddr, WordOf
<1>3. QED
  BY <1>1, <1>2 DEF Words

\* A word of an earlier line is less than one of a later line.
LEMMA Before ==
    ASSUME NEW a \in Nat, NEW b \in Nat, a < b,
           NEW c \in 0 .. Width - 1, NEW d \in Nat
    PROVE  Width * a + c < Width * b + d
<1>1. Width \in Nat
  BY PixelWriterAssumption
<1>2. Width * (a + 1) <= Width * b
  <2>1. a + 1 \in Nat /\ a + 1 <= b
    OBVIOUS
  <2>2. QED
    BY <1>1, <2>1, Monotone
<1>3. /\ Width * (a + 1) = Width * a + Width
      /\ Width * a \in Nat /\ Width * b \in Nat
  BY <1>1
<1>4. QED
  BY <1>1, <1>2, <1>3

\* Words of different columns are different.
LEMMA ColumnsApart ==
    ASSUME NEW r \in Nat, NEW c \in 0 .. Width - 1,
           NEW b \in Nat, NEW d \in 0 .. Width - 1, c # d
    PROVE  Width * r + c # Width * b + d
<1>1. Width \in Nat /\ Width * r \in Nat /\ Width * b \in Nat
  BY PixelWriterAssumption
<1>2. CASE r < b
  <2>1. Width * r + c < Width * b + d
    BY <1>2, Before
  <2>2. QED
    BY <1>1, <2>1
<1>3. CASE b < r
  <2>1. Width * b + d < Width * r + c
    BY <1>3, Before
  <2>2. QED
    BY <1>1, <2>1
<1>4. CASE r = b
  <2> DEFINE k == Width * b
  <2>1. k \in Nat /\ Width * r = k
    BY <1>1, <1>4
  <2> HIDE DEF k
  <2>2. k + c # k + d
    BY <2>1
  <2>3. QED
    BY <1>4, <2>2 DEF k
<1>5. QED
  BY <1>2, <1>3, <1>4

\* Of a border as wide as the screen at most, both writers draw every pixel
\* that is on the screen, and none of its inside, wherever it is.
LEMMA BorderPixels ==
    ASSUME PixelPerScanLine = Width, NEW f,
           NEW px \in 0 .. Width, NEW py \in 0 .. Height,
           NEW w \in 0 .. Width, NEW h \in Nat
    PROVE  /\ Words(Outline(px, py, w, h)) \subseteq DrawRect(f, px, py, w, h)
           /\ DrawRect(f, px, py, w, h)
                  \cap Words(Rectangle(px + 1, py + 1, w - 1, h - 1)) = {}
<1> DEFINE cw == IF f = "RGB" THEN w ELSE Clip(px, w, Width)
           ch == IF f = "RGB" THEN h ELSE Clip(py, h, Height)
<1>1. Width \in Nat /\ Height \in Nat /\ w \in Nat /\ px \in Nat /\ py \in Nat
  BY PixelWriterAssumption
<1>2. DrawRect(f, px, py, w, h) = Border(px, py, cw, ch)
  BY DEF DrawRect
<1>drawn. /\ cw = w \/ cw = Clip(px, w, Width)
          /\ ch = h \/ ch = Clip(py, h, Height)
  OBVIOUS
<1> HIDE DEF cw, ch
<1>3. /\ cw \in 0 .. w /\ Steps(cw) = 0 .. cw - 1
      /\ \A n \in 0 .. Width - 1 :
             n - px \in 0 .. w - 1 => n - px \in 0 .. cw - 1
      /\ px + w < Width => cw = w
      /\ px + w >= Width => px + cw >= Width
  BY <1>1, <1>drawn, DrawnExtent
<1>4. /\ ch \in 0 .. h /\ Steps(ch) = 0 .. ch - 1
      /\ \A n \in 0 .. Height - 1 :
             n - py \in 0 .. h - 1 => n - py \in 0 .. ch - 1
      /\ py + h < Height => ch = h
      /\ py + h >= Height => py + ch >= Height
  BY <1>1, <1>drawn, DrawnExtent
<1> DEFINE border == Border(px, py, cw, ch)
<1>5. /\ \A dx \in 0 .. cw - 1 : /\ GetAddr(px + dx, py) \in border
                                 /\ GetAddr(px + dx, py + ch) \in border
      /\ \A dy \in 0 .. ch - 1 : /\ GetAddr(px, py + dy) \in border
                                 /\ GetAddr(px + cw, py + dy) \in border
      /\ \A v \in border :
             \/ \E dx \in 0 .. cw - 1 : \/ v = GetAddr(px + dx, py)
                                        \/ v = GetAddr(px + dx, py + ch)
             \/ \E dy \in 0 .. ch - 1 : \/ v = GetAddr(px, py + dy)
                                        \/ v = GetAddr(px + cw, py + dy)
  BY <1>3, <1>4 DEF Border
<1>6. ASSUME NEW q \in Outline(px, py, w, h)
      PROVE  WordOf(q) \in border
  <2>1. /\ q[1] \in 0 .. Width - 1 /\ q[2] \in 0 .. Height - 1
        /\ \/ q[2] \in {py, py + h} /\ q[1] \in px .. px + w - 1
           \/ q[1] \in {px, px + w} /\ q[2] \in py .. py + h - 1
    BY DEF Outline, Screen
  <2>2. WordOf(q) = GetAddr(q[1], q[2])
    BY DEF WordOf, GetAddr
  <2>3. CASE q[2] \in {py, py + h} /\ q[1] \in px .. px + w - 1
    <3>1. q[1] - px \in 0 .. cw - 1 /\ px + (q[1] - px) = q[1]
      BY <1>1, <1>3, <2>1, <2>3
    <3>2. q[2] = py \/ q[2] = py + ch
      BY <1>1, <1>4, <2>1, <2>3
    <3> HIDE DEF border
    <3>3. QED
      BY <1>5, <2>2, <3>1, <3>2
  <2>4. CASE q[1] \in {px, px + w} /\ q[2] \in py .. py + h - 1
    <3>1. q[2] - py \in 0 .. ch - 1 /\ py + (q[2] - py) = q[2]
      BY <1>1, <1>4, <2>1, <2>4
    <3>2. q[1] = px \/ q[1] = px + cw
      BY <1>1, <1>3, <2>1, <2>4
    <3> HIDE DEF border
    <3>3. QED
      BY <1>5, <2>2, <3>1, <3>2
  <2>5. QED
    BY <2>1, <2>3, <2>4
<1>7. ASSUME NEW q \in Rectangle(px + 1, py + 1, w - 1, h - 1), NEW v \in border
      PROVE  v # WordOf(q)
  <2>1. /\ q[1] \in px + 1 .. px + w - 1 /\ q[1] \in 0 .. Width - 1
        /\ q[2] \in py + 1 .. py + h - 1 /\ q[2] \in 0 .. Height - 1
        /\ q[1] \in Nat /\ q[2] \in Nat
    BY <1>1 DEF Rectangle, Screen
  <2>2. WordOf(q) = Width * q[2] + q[1] /\ Width * q[2] \in Nat
    BY <1>1, <2>1 DEF WordOf
  <2>3. ASSUME NEW dx \in 0 .. cw - 1, v = GetAddr(px + dx, py)
        PROVE  v # WordOf(q)
    <3>1. Width * (py + 1) <= Width * q[2]
      <4>1. py + 1 \in Nat /\ py + 1 <= q[2]
        BY <1>1, <2>1
      <4>2. QED
        BY <1>1, <2>1, <4>1, Monotone
    <3>2. Width * (py + 1) = Width * py + Width /\ Width * py \in Nat
      BY <1>1
    <3>3. v = Width * py + (px + dx)
      BY <2>3 DEF GetAddr
    <3>4. px + dx \in Nat /\ px + dx < Width + q[1]
      <4>1. dx \in Nat /\ dx < Width /\ Width \in Nat
        BY <1>1, <1>3, <2>3
      <4>2. px \in Nat /\ q[1] \in Nat /\ px < q[1]
        BY <1>1, <2>1
      <4>3. QED
        BY <4>1, <4>2
    <3>5. QED
      BY <1>1, <2>1, <2>2, <3>1, <3>2, <3>3, <3>4
  <2>4. ASSUME NEW dx \in 0 .. cw - 1, v = GetAddr(px + dx, py + ch)
        PROVE  v # WordOf(q)
    <3>1. q[2] < py + ch /\ py + ch \in Nat /\ px + dx \in Nat
      BY <1>1, <1>3, <1>4, <2>1
    <3>2. Width * q[2] + q[1] < Width * (py + ch) + (px + dx)
      BY <2>1, <3>1, Before
    <3>3. v = Width * (py + ch) + (px + dx)
      BY <2>4 DEF GetAddr
    <3>4. Width * (py + ch) \in Nat
      BY <1>1, <3>1
    <3>5. QED
      BY <2>1, <2>2, <3>1, <3>2, <3>3, <3>4
  <2>5. ASSUME NEW dy \in 0 .. ch - 1, v = GetAddr(px, py + dy)
        PROVE  v # WordOf(q)
    <3>1. px \in 0 .. Width - 1 /\ px # q[1] /\ py + dy \in Nat
      BY <1>1, <1>3, <1>4, <2>1
    <3>2. Width * (py + dy) + px # Width * q[2] + q[1]
      BY <2>1, <3>1, ColumnsApart
    <3>3. QED
      BY <2>2, <2>5, <3>2 DEF GetAddr
  <2>6. ASSUME NEW dy \in 0 .. ch - 1, v = GetAddr(px + cw, py + dy)
        PROVE  v # WordOf(q)
    <3>1. py + dy \in Nat /\ v = Width * (py + dy) + (px + cw)
      <4>1. py + dy \in Nat
        BY <1>1, <2>6
      <4>2. QED
        BY <2>6, <4>1 DEF GetAddr
    <3>2. CASE px + w < Width
      <4>1. px + cw \in 0 .. Width - 1 /\ px + cw # q[1]
        BY <1>1, <1>3, <1>4, <2>1, <3>2
      <4>2. QED
        BY <2>1, <2>2, <3>1, <4>1, ColumnsApart
    <3>3. CASE px + w >= Width
      <4> DEFINE c == px + cw - Width
      <4>1. c \in 0 .. Width - 1 /\ c # q[1] /\ py + dy + 1 \in Nat
        BY <1>1, <1>3, <1>4, <2>1, <3>1, <3>3
      <4>2. v = Width * (py + dy + 1) + c
        <5>1. /\ Width * (py + dy + 1) = Width * (py + dy) + Width
              /\ Width * (py + dy) \in Nat
          BY <1>1, <3>1
        <5>2. px + cw = Width + c /\ px + cw \in Int
          BY <1>1, <1>3, <1>4
        <5>3. QED
          BY <1>1, <3>1, <4>1, <5>1, <5>2
      <4> HIDE DEF c
      <4>3. QED
        BY <2>1, <2>2, <4>1, <4>2, ColumnsApart
    <3>4. QED
      BY <1>1, <3>2, <3>3
  <2> HIDE DEF border
  <2>7. QED
    BY <1>5, <2>3, <2>4, <2>5, <2>6
<1>8. QED
  BY <1>2, <1>6, <1>7 DEF Words

\* The BGR writer changes nothing but the visible part of the border and what
\* is just behind the screen.
LEMMA ClippedBorder ==
    ASSUME PixelPerScanLine = Width,
           NEW px \in 0 .. Width, NEW py \in 0 .. Height,
           NEW w \in Nat, NEW h \in Nat
    PROVE  DrawRect("BGR", px, py, w, h)
               \subseteq Words(Outline(px, py, w, h)
                              \union {<<Width, r>> : r \in 0 .. Height}
                              \union {<<c, Height>> : c \in 0 .. Width})
<1> DEFINE cw == Clip(px, w, Width)
           ch == Clip(py, h, Height)
           behind == {<<Width, r>> : r \in 0 .. Height}
                         \union {<<c, Height>> : c \in 0 .. Width}
<1>1. Width \in Nat /\ Height \in Nat
  BY PixelWriterAssumption
<1>2. /\ cw \in 0 .. w /\ Steps(cw) = 0 .. cw - 1 /\ px + cw <= Width
      /\ px + w < Width => cw = w
      /\ px + w >= Width => px + cw >= Width
  BY <1>1, ClipFits, DrawnExtent
<1>3. /\ ch \in 0 .. h /\ py + ch <= Height
      /\ py + h < Height => ch = h
      /\ py + h >= Height => py + ch >= Height
  BY <1>1, ClipFits, DrawnExtent
<1>4. DrawRect("BGR", px, py, w, h) = Border(px, py, cw, ch)
  BY DEF DrawRect
<1> HIDE DEF cw, ch
<1>5. ASSUME NEW a \in 0 .. Width, NEW b \in 0 .. Height,
             \/ a \in px .. px + cw - 1 /\ b \in {py, py + ch}
             \/ a \in {px, px + cw} /\ b \in py .. py + ch - 1
      PROVE  GetAddr(a, b) \in Words(Outline(px, py, w, h) \union behind)
  <2>1. GetAddr(a, b) = WordOf(<<a, b>>)
    BY DEF GetAddr, WordOf
  <2>2. CASE a = Width \/ b = Height
    <3>1. <<a, b>> \in behind
      BY <2>2
    <3> HIDE DEF behind
    <3>2. QED
      BY <2>1, <3>1 DEF Words
  <2>3. CASE a # Width /\ b # Height
    <3>1. a \in 0 .. Width - 1 /\ b \in 0 .. Height - 1
      BY <1>1, <2>3
    <3>2. \/ b \in {py, py + h} /\ a \in px .. px + w - 1
          \/ a \in {px, px + w} /\ b \in py .. py + h - 1
      <4>1. CASE a \in px .. px + cw - 1 /\ b \in {py, py + ch}
        BY <1>1, <1>2, <1>3, <3>1, <4>1
      <4>2. CASE a \in {px, px + cw} /\ b \in py .. py + ch - 1
        BY <1>1, <1>2, <1>3, <3>1, <4>2
      <4>3. QED
        BY <1>5, <4>1, <4>2
    <3>3. <<a, b>> \in Outline(px, py, w, h)
      BY <3>1, <3>2 DEF Outline, Screen
    <3>4. QED
      BY <2>1, <3>3 DEF Words
  <2>4. QED
    BY <2>2, <2>3
<1> HIDE DEF behind
<1>6. ASSUME NEW v \in Border(px, py, cw, ch)
      PROVE  v \in Words(Outline(px, py, w, h) \union behind)
  <2>1. \/ \E dx \in 0 .. cw - 1 : \/ v = GetAddr(px + dx, py)
                                  \/ v = GetAddr(px + dx, py + ch)
        \/ \E dy \in 0 .. ch - 1 : \/ v = GetAddr(px, py + dy)
                                  \/ v = GetAddr(px + cw, py + dy)
    BY <1>2, <1>6 DEF Border
  <2>2. ASSUME NEW dx \in 0 .. cw - 1
        PROVE  /\ GetAddr(px + dx, py)
                      \in Words(Outline(px, py, w, h) \union behind)
               /\ GetAddr(px + dx, py + ch)
                      \in Words(Outline(px, py, w, h) \union behind)
    <3>1. /\ px + dx \in 0 .. Width /\ px + dx \in px .. px + cw - 1
          /\ py + ch \in 0 .. Height
      BY <1>1, <1>2, <1>3
    <3>2. QED
      BY <1>5, <3>1
  <2>3. ASSUME NEW dy \in 0 .. ch - 1
        PROVE  /\ GetAddr(px, py + dy)
                      \in Words(Outline(px, py, w, h) \union behind)
               /\ GetAddr(px + cw, py + dy)
                      \in Words(Outline(px, py, w, h) \union behind)
    <3>1. /\ py + dy \in 0 .. Height /\ py + dy \in py .. py + ch - 1
          /\ px + cw \in 0 .. Width
      BY <1>1, <1>2, <1>3
    <3>2. QED
      BY <1>5, <3>1
  <2>4. QED
    BY <2>1, <2>2, <2>3
<1>7. Outline(px, py, w, h) \union behind
          = Outline(px, py, w, h)
                \union {<<Width, r>> : r \in 0 .. Height}
                \union {<<c, Height>> : c \in 0 .. Width}
  BY DEF behind
<1>8. QED
  BY <1>4, <1>6, <1>7

\* A character of a text that fits, in its place, is on the screen.
LEMMA TextFits ==
    ASSUME NEW px \in Nat, NEW py \in Nat,
           NEW n \in Nat, NEW i \in 1 .. n,
           px + FontWidth * n <= Width, py + FontHeight <= Height,
           NEW dx \in 0 .. FontWidth - 1, NEW dy \in 0 .. FontHeight - 1
    PROVE  /\ FontWidth * (i - 1) \in Nat
           /\ px + FontWidth * (i - 1) + dx \in 0 .. Width - 1
           /\ py + dy \in 0 .. Height - 1
<1>1. /\ Width \in Nat /\ Height \in Nat
      /\ FontWidth \in Nat /\ FontHeight \in Nat
  BY PixelWriterAssumption, FontAssumption
<1>2. FontWidth * (i - 1 + 1) <= FontWidth * n
  BY <1>1, Monotone
<1>3. /\ FontWidth * (i - 1 + 1) = FontWidth * (i - 1) + FontWidth
      /\ FontWidth * (i - 1) \in Nat /\ FontWidth * n \in Nat
  BY <1>1
<1>4. QED
  BY <1>1, <1>2, <1>3

\* A text changes the pixels of its glyphs, and no other.
LEMMA TextPixels ==
    ASSUME LayoutsAgree,
           NEW px \in Nat, NEW py \in Nat, NEW s \in Seq(DOMAIN Glyph),
           px + FontWidth * Len(s) <= Width, py + FontHeight <= Height
    PROVE  /\ WriteString(px, py, s) = Words(Ink(px, py, s))
           /\ Ink(px, py, s) \subseteq Screen
<1>1. /\ PixelPerScanLine = Width /\ FontMaskBit = FontWidth - 1
      /\ Len(s) \in Nat /\ DOMAIN s = 1 .. Len(s)
      /\ \A i \in 1 .. Len(s) : s[i] \in DOMAIN Glyph
      /\ \A c \in DOMAIN Glyph :
             Glyph[c] \subseteq (0 .. FontWidth - 1) \X (0 .. FontHeight - 1)
  BY FontAssumption DEF LayoutsAgree
<1> DEFINE left(i) == px + FontWidth * (i - 1)
           place(i, d) == <<left(i) + d[1], py + d[2]>>
<1>2. ASSUME NEW i \in 1 .. Len(s),
             NEW d \in (0 .. FontWidth - 1) \X (0 .. FontHeight - 1)
      PROVE  /\ DrawPixel(left(i) + d[1], py + d[2])
                    = {WordOf(place(i, d))}
             /\ place(i, d) \in Screen
             /\ IsInk(s[i], d[1], d[2]) <=> d \in Glyph[s[i]]
  <2>1. d[1] \in 0 .. FontWidth - 1 /\ d[2] \in 0 .. FontHeight - 1
        /\ d = <<d[1], d[2]>>
    OBVIOUS
  <2>2. left(i) + d[1] \in 0 .. Width - 1 /\ py + d[2] \in 0 .. Height - 1
    BY <1>1, <2>1, TextFits
  <2>3. IsInk(s[i], d[1], d[2]) <=> d \in Glyph[s[i]]
    BY <1>1, <2>1, InkIsGlyph
  <2> HIDE DEF left
  <2>4. /\ GetAddr(left(i) + d[1], py + d[2])
               = WordOf(<<left(i) + d[1], py + d[2]>>)
        /\ <<left(i) + d[1], py + d[2]>> \in Screen
    BY <1>1, <2>2, PixelOnScreen DEF Screen
  <2>5. QED
    BY <2>3, <2>4 DEF DrawPixel
<1> HIDE DEF left
<1>3. ASSUME NEW i \in 1 .. Len(s)
      PROVE  WriteChar(left(i), py, s[i])
                 = {WordOf(place(i, g)) : g \in Glyph[s[i]]}
  <2> DEFINE all == (0 .. FontWidth - 1) \X (0 .. FontHeight - 1)
             inked == {d \in all : IsInk(s[i], d[1], d[2])}
  <2>1. inked = Glyph[s[i]]
    BY <1>1, <1>2
  <2>2. WriteChar(left(i), py, s[i])
            = UNION {DrawPixel(left(i) + p[1], py + p[2]) : p \in inked}
    BY DEF WriteChar
  <2>3. \A p \in inked : DrawPixel(left(i) + p[1], py + p[2])
                             = {WordOf(place(i, p))}
    BY <1>2
  <2> HIDE DEF inked, place
  <2>4. ASSUME NEW w
        PROVE  w \in WriteChar(left(i), py, s[i])
                   <=> \E g \in inked : w = WordOf(place(i, g))
    <3>1. w \in WriteChar(left(i), py, s[i])
              <=> \E g \in inked :
                      w \in DrawPixel(left(i) + g[1], py + g[2])
      BY <2>2
    <3>2. QED
      BY <2>3, <3>1
  <2>5. WriteChar(left(i), py, s[i])
            = {WordOf(place(i, g)) : g \in inked}
    BY <2>4
  <2>6. QED
    BY <2>1, <2>5
<1>4. WriteString(px, py, s)
          = UNION {WriteChar(left(i), py, s[i]) : i \in 1 .. Len(s)}
  BY <1>1 DEF WriteString, left
<1>5. Ink(px, py, s)
          = UNION {{place(i, g) : g \in Glyph[s[i]]} : i \in 1 .. Len(s)}
  BY <1>1 DEF Ink, left
<1>6. Ink(px, py, s) \subseteq Screen
  BY <1>1, <1>2, <1>5
<1> HIDE DEF place
<1>7. WriteString(px, py, s) = Words(Ink(px, py, s))
  <2> DEFINE shown(w) == \E i \in 1 .. Len(s) : \E g \in Glyph[s[i]] :
                             w = WordOf(place(i, g))
  <2>1. ASSUME NEW w PROVE w \in WriteString(px, py, s) <=> shown(w)
    <3>1. w \in WriteString(px, py, s)
              <=> \E i \in 1 .. Len(s) :
                      w \in WriteChar(left(i), py, s[i])
      BY <1>4
    <3>2. QED
      BY <1>3, <3>1
  <2>2. ASSUME NEW w
        PROVE  w \in Words(Ink(px, py, s)) <=> shown(w)
    <3>1. w \in Words(Ink(px, py, s))
              <=> \E p \in Ink(px, py, s) : w = WordOf(p)
      BY DEF Words
    <3>2. ASSUME NEW p
          PROVE  p \in Ink(px, py, s)
                     <=> \E i \in 1 .. Len(s) : \E g \in Glyph[s[i]] :
                             p = place(i, g)
      BY <1>5
    <3>3. QED
      BY <3>1, <3>2
  <2> HIDE DEF shown
  <2>3. QED
    BY <2>1, <2>2
<1>8. QED
  BY <1>6, <1>7

\* What each call does, for the calls the comments promise something for.
LEMMA CallsKeep ==
    ASSUME LayoutsAgree, CallsFit, NextCall
    PROVE  ExactPixels' /\ BorderDrawn' /\ BorderAtEdge'
<1>1. /\ PixelPerScanLine = Width
      /\ Width \in Nat /\ Height \in Nat
  BY PixelWriterAssumption DEF LayoutsAgree
<1> USE DEF ExactPixels, BorderDrawn, BorderAtEdge
<1>2. ASSUME NEW p \in Positions, Pixel(p[1], p[2])
      PROVE  ExactPixels' /\ BorderDrawn' /\ BorderAtEdge'
  BY <1>2 DEF Pixel
<1>3. ASSUME NEW p \in Positions, Image(p[1], p[2])
      PROVE  ExactPixels' /\ BorderDrawn' /\ BorderAtEdge'
  <2>1. p[1] \in 0 .. Width /\ p[2] \in 0 .. Height
    BY <1>1 DEF CallsFit, Screen
  <2>2. /\ call' = [op |-> "drawImageRGBA", x |-> p[1], y |-> p[2]]
        /\ written' = DrawImageRGBA(p[1], p[2])
    BY <1>3 DEF Image
  <2>3. written' = Words(Sprite(p[1], p[2]))
    BY <1>1, <2>1, <2>2, SpritePixels
  <2>4. QED
    BY <2>2, <2>3
<1>4. ASSUME NEW f \in Rectangles, Fill(f[1], f[2], f[3], f[4])
      PROVE  ExactPixels' /\ BorderDrawn' /\ BorderAtEdge'
  <2>1. /\ f[1] \in 0 .. Width /\ f[2] \in 0 .. Height
        /\ f[3] \in Nat /\ f[4] \in Nat
    BY DEF CallsFit
  <2>2. /\ call' = [op |-> "drawRectWithFill",
                    x |-> f[1], y |-> f[2], w |-> f[3], h |-> f[4]]
        /\ written' = DrawRectWithFill(f[1], f[2], f[3], f[4])
    BY <1>4 DEF Fill
  <2>3. written' = Words(Rectangle(f[1], f[2], f[3], f[4]))
    BY <1>1, <2>1, <2>2, RectangleWords
  <2>4. QED
    BY <2>2, <2>3
<1>5. ASSUME NEW f \in Frames, Frame(f[1], f[2], f[3], f[4])
      PROVE  ExactPixels' /\ BorderDrawn' /\ BorderAtEdge'
  <2>1. /\ f[1] \in 0 .. Width /\ f[2] \in 0 .. Height
        /\ f[3] \in 0 .. Width /\ f[4] \in Nat
    BY DEF CallsFit
  <2>2. /\ call' = [op |-> "drawRect",
                    x |-> f[1], y |-> f[2], w |-> f[3], h |-> f[4]]
        /\ written' = DrawRect(format, f[1], f[2], f[3], f[4])
    BY <1>5 DEF Frame
  <2>3. /\ Words(Outline(f[1], f[2], f[3], f[4])) \subseteq written'
        /\ written' \cap Words(Rectangle(f[1] + 1, f[2] + 1,
                                         f[3] - 1, f[4] - 1)) = {}
    BY <1>1, <2>1, <2>2, BorderPixels
  <2>4. format' = "BGR" =>
            written' \subseteq Words(Outline(f[1], f[2], f[3], f[4])
                                    \union {<<Width, r>> : r \in 0 .. Height}
                                    \union {<<c, Height>> : c \in 0 .. Width})
    <3>1. format' = format
      BY <1>5 DEF Frame
    <3> DEFINE reach == Words(Outline(f[1], f[2], f[3], f[4])
                              \union {<<Width, r>> : r \in 0 .. Height}
                              \union {<<c, Height>> : c \in 0 .. Width})
    <3>2. DrawRect("BGR", f[1], f[2], f[3], f[4]) \subseteq reach
      <4>1. f[3] \in Nat
        BY <1>1, <2>1
      <4>2. QED
        BY <1>1, <2>1, <4>1, ClippedBorder
    <3> HIDE DEF reach
    <3>3. format' = "BGR" => written' \subseteq reach
      BY <2>2, <3>1, <3>2
    <3>4. QED
      BY <3>3 DEF reach
  <2>5. QED
    BY <2>2, <2>3, <2>4
<1>6. ASSUME NEW t \in Writings, Text(t[1], t[2], t[3])
      PROVE  ExactPixels' /\ BorderDrawn' /\ BorderAtEdge'
  <2>1. /\ t[1] \in Nat /\ t[2] \in Nat /\ t[3] \in Seq(DOMAIN Glyph)
        /\ t[1] + FontWidth * Len(t[3]) <= Width
        /\ t[2] + FontHeight <= Height
    BY DEF CallsFit
  <2>2. /\ call' = [op |-> "writeString", x |-> t[1], y |-> t[2], s |-> t[3]]
        /\ written' = WriteString(t[1], t[2], t[3])
    BY <1>6 DEF Text
  <2>3. written' = Words(Ink(t[1], t[2], t[3]))
    BY <2>1, <2>2, TextPixels
  <2>4. QED
    BY <2>2, <2>3
<1>7. QED
  BY <1>2, <1>3, <1>4, <1>5, <1>6 DEF NextCall

\* Rectangles, images and texts change exactly their pixels on the screen
\* (pixelWriter.cpp:77, genfont.py:53), whatever calls come before.
THEOREM PixelsAreExact ==
    ASSUME LayoutsAgree, CallsFit
    PROVE  CallSpec => []ExactPixels
<1>1. NoCall => ExactPixels
  BY DEF NoCall, ExactPixels
<1>2. ExactPixels /\ [NextCall]_callVars => ExactPixels'
  <2>1. CASE NextCall
    BY <2>1, CallsKeep
  <2>2. CASE UNCHANGED callVars
    BY <2>2 DEF callVars, ExactPixels
  <2>3. QED
    BY <2>1, <2>2
<1>3. QED
  BY <1>1, <1>2, PTL DEF CallSpec

\* A border no wider than the screen, which may begin anywhere on it and stick
\* out at the right and the bottom, has all its pixels that are on the screen
\* and leaves those inside it alone, in both formats (pixelWriter.hpp:90).
THEOREM BordersAreDrawn ==
    ASSUME LayoutsAgree, CallsFit
    PROVE  CallSpec => []BorderDrawn
<1>1. NoCall => BorderDrawn
  BY DEF NoCall, BorderDrawn
<1>2. BorderDrawn /\ [NextCall]_callVars => BorderDrawn'
  <2>1. CASE NextCall
    BY <2>1, CallsKeep
  <2>2. CASE UNCHANGED callVars
    BY <2>2 DEF callVars, BorderDrawn
  <2>3. QED
    BY <2>1, <2>2
<1>3. QED
  BY <1>1, <1>2, PTL DEF CallSpec

\* Whatever the BGR writer changes beside a border's visible pixels is just
\* behind the screen (pixelWriter.cpp:111-119).
THEOREM BordersEnd ==
    ASSUME LayoutsAgree, CallsFit
    PROVE  CallSpec => []BorderAtEdge
<1>1. NoCall => BorderAtEdge
  BY DEF NoCall, BorderAtEdge
<1>2. BorderAtEdge /\ [NextCall]_callVars => BorderAtEdge'
  <2>1. CASE NextCall
    BY <2>1, CallsKeep
  <2>2. CASE UNCHANGED callVars
    BY <2>2 DEF callVars, BorderAtEdge
  <2>3. QED
    BY <2>1, <2>2
<1>3. QED
  BY <1>1, <1>2, PTL DEF CallSpec
=============================================================================
