------------------------------ MODULE Console ------------------------------
(***************************************************************************)
(* Console (kernel/console/console.cpp), the screen side of printk.  As in *)
(* the code a "column" is a line of the screen and a "row" a place in it,  *)
(* and m_buf is one piece of memory: an index past the end of a line is in *)
(* the next one, and one past the end of m_buf in the members behind it:   *)
(* the cursor and the place of the console, or in what the linker put      *)
(* behind those.  What such a store leaves in the members is any of a set  *)
(* of values; what else it damages is not modelled.                        *)
(***************************************************************************)
EXTENDS Integers, SequencesExt

CONSTANTS ConsoleRow, ConsoleColumn,  \* s_consoleRow and s_consoleColumn
          Texts,                      \* what printk is called with
          Wild,                       \* what a store past m_buf may leave
                                      \* in the members behind it
          MaxLines                    \* bound: lines put

NewLine == "newline"
Nul == "nul"

\* What the constants are.
ConsoleConstants ==
    /\ ConsoleRow \in Nat /\ ConsoleColumn \in 2 .. ConsoleRow
    /\ \A t \in Texts : t \in Seq(Range(t)) /\ Nul \notin Range(t)
    /\ Wild \subseteq [row : Nat, column : Nat, start : Nat \X Nat]
    /\ MaxLines \in Nat

Stride == ConsoleRow + 1
Buffer == 1 .. ConsoleColumn * Stride

\* &m_buf[a][b]
Place(a, b) == a * Stride + b + 1

VARIABLES con,    \* m_buf, m_cursorRow, m_cursorColumn, m_startPosX and
                  \* m_startPosY in characters from where the console was
                  \* put, and whether a store has gone past m_buf (history)
          screen, \* the characters drawn: place, line, character
          lines,  \* every line put so far, up to the one being put (history)
          text,   \* what puts has been called with
          index   \* its next character there, 0 outside puts

vars == <<con, screen, lines, text, index>>

ConsoleInitial ==
    /\ con = [buf |-> [k \in Buffer |-> Nul], row |-> 0, column |-> 0,
              start |-> <<0, 0>>, damaged |-> FALSE]
    /\ screen = {} /\ lines = <<<<>>>>

Init == ConsoleInitial /\ text = <<>> /\ index = 0

\* m_buf[a][b] = ch: what it can make of the console.
Stored(c, a, b, ch) ==
    IF Place(a, b) \in Buffer
    THEN {[c EXCEPT !.buf[Place(a, b)] = ch]}
    ELSE {[c EXCEPT !.row = m.row, !.column = m.column, !.start = m.start,
                    !.damaged = TRUE] : m \in Wild \union {c}}

\* memcpy(m_buf, &m_buf[1], s_consoleRow * (s_consoleColumn - 1)), which the
\* library copies from the lowest byte up, and the memset of the last line.
Scrolled(buf) ==
    LET copied == ConsoleRow * (ConsoleColumn - 1)
    IN  SubSeq(buf, Stride + 1, Stride + copied)
        \o SubSeq(buf, copied + 1, (ConsoleColumn - 1) * Stride)
        \o [k \in 1 .. Stride |-> Nul]

\* writeString for every line but the last: up to the first Nul, wherever.
Redrawn(start, buf) ==
    UNION {LET from == Place(y, 0)
               end == Min({k \in Buffer : k >= from /\ buf[k] = Nul})
           IN  {<<start[1] + k - from, start[2] + y, buf[k]>> :
                k \in from .. end - 1} :
           y \in 0 .. ConsoleColumn - 2}

\* The rectangle that drawRectWithFill clears.
Cleared(start) ==
    {p \in screen : /\ p[1] - start[1] \in 0 .. ConsoleRow - 1
                    /\ p[2] - start[2] \in 0 .. ConsoleColumn - 1}

\* Mutant: the last line is not told from the others.
MoreLinesLoose(column) == column < ConsoleColumn

MoreLines(column) == column < ConsoleColumn - 1

\* Mutant: the screen is not cleared before the lines are drawn again.
ScrollUncleared(c) ==
    LET buf == Scrolled(c.buf)
    IN  /\ con' = [c EXCEPT !.buf = buf]
        /\ screen' = screen \union Redrawn(c.start, buf)

Scroll(c) ==
    LET buf == Scrolled(c.buf)
    IN  /\ con' = [c EXCEPT !.buf = buf]
        /\ screen' = (screen \ Cleared(c.start)) \union Redrawn(c.start, buf)

\* From here on the column counts that the store of the newline left.
EndLine(c) ==
    /\ IF MoreLines(c.column)
       THEN con' = [c EXCEPT !.column = @ + 1] /\ UNCHANGED screen
       ELSE Scroll(c)
    /\ lines' = Append(lines, <<>>)

\* Mutant: the next line starts where the last one ended.
LineBreakNoReturn ==
    \E stored \in Stored(con, con.row, con.column, NewLine) : EndLine(stored)

\* lineBreak: the newline is stored with the two indices exchanged.
LineBreak ==
    \E stored \in Stored(con, con.row, con.column, NewLine) :
        EndLine([stored EXCEPT !.row = 0])
-----------------------------------------------------------------------------
\* puts, character by character.

PutChar ==
    /\ index \in DOMAIN text /\ text[index] # NewLine
    /\ screen' = screen \union {<<con.start[1] + con.row,
                                  con.start[2] + con.column, text[index]>>}
    /\ \E stored \in Stored(con, con.column, con.row, text[index]) :
           con' = [stored EXCEPT !.row = @ + 1]
    /\ lines' = [lines EXCEPT ![Len(lines)] = Append(@, text[index])]
    /\ index' = index + 1 /\ UNCHANGED text

PutBreak ==
    /\ index \in DOMAIN text /\ text[index] = NewLine
    /\ LineBreak
    /\ index' = index + 1 /\ UNCHANGED text

\* puts ends the last line as well.
Return ==
    /\ index = Len(text) + 1
    /\ LineBreak
    /\ index' = 0 /\ text' = <<>>

\* Bound: the lines of another text, the last one included, are not too many.
Room(t) == Len(lines) + Cardinality({n \in DOMAIN t : t[n] = NewLine}) <= MaxLines

Call(t) ==
    /\ index = 0 /\ Room(t)
    /\ text' = t /\ index' = 1
    /\ UNCHANGED <<con, screen, lines>>

Next == PutChar \/ PutBreak \/ Return \/ \E t \in Texts : Call(t)

Spec == Init /\ [][Next]_vars
-----------------------------------------------------------------------------
\* The picture of some lines at the top of the screen.
Picture(ls) == UNION {{<<n - 1, l - 1, ls[l][n]>> : n \in DOMAIN ls[l]} :
                      l \in DOMAIN ls}

\* No character and no newline is stored past m_buf, also not by the
\* exchanged indices of console.cpp:30, as long as every line put so far has
\* fewer characters than the screen has lines.
WritesInBuffer ==
    (\A l \in DOMAIN lines : Len(lines[l]) < ConsoleColumn) => ~con.damaged

\* Until the first scroll the screen shows every character put, in its line,
\* if no store has gone past m_buf.
ScreenShowsText ==
    ~con.damaged /\ Len(lines) <= ConsoleColumn => screen = Picture(lines)

\* What puts writes next appears on empty ground, also after any number of
\* scrolls, which clear s_consoleRow characters of a line and no more: nothing
\* is drawn over an older character if no store has gone past m_buf.
CursorLineBlank ==
    ~con.damaged => \A p \in screen : p[2] = con.column => p[1] < con.row

\* After scrolling the screen shows the characters of the newest lines again
\* ("redraw", console.cpp:47, of a buffer "copied and moved to the top",
\* :39); a newline counts as blank.
RedrawShowsText ==
    Len(lines) > ConsoleColumn =>
        {p \in screen : p[3] # NewLine} =
            Picture(SubSeq(lines, Len(lines) - ConsoleColumn + 1, Len(lines)))
=============================================================================
