---------------------------- MODULE PrintkProofs ----------------------------
(***************************************************************************)
(* Proofs about Printk, for every kind of port, depth of the FIFOs, size   *)
(* of the console and of the buffer, and for every set of texts.           *)
(***************************************************************************)
EXTENDS Printk, SequenceTheorems, TLAPS

\* The fields of the UART; what its FIFOs hold does not matter here.
Uart(dlab, divisor, loop, tx, rx) ==
    [dlab |-> dlab, divisor |-> divisor, loop |-> loop, tx |-> tx, rx |-> rx]

\* The divisor after a write to a register.
Programmed(u, r, v) ==
    IF u.dlab /\ r \in {0, 1} THEN [u.divisor EXCEPT ![r + 1] = v] ELSE u.divisor

IsUart(u) == /\ u = Uart(u.dlab, u.divisor, u.loop, u.tx, u.rx)
             /\ u.dlab \in BOOLEAN /\ u.loop \in BOOLEAN

\* Nothing has reached the line, and nothing is on its way to it before
\* loopback mode is on: the divisor is written behind DLAB.
Untouched ==
    /\ pc = "setUp" =>
           /\ k \in 1 .. 9 /\ uart.tx = <<>>
           /\ k \in {3, 4} /\ port # "absent" => uart.dlab
    /\ (pc = "setUp" /\ k = 9) \/ pc \in {"selfTest", "normalMode"} =>
           port = "absent" \/ uart.loop
    /\ port = "absent" => uart.tx = <<>>
    /\ uart.loop \/ ~Ready => wire = <<>>

\* A garbling port never holds the test byte, and so never leaves loopback.
Garbled ==
    port = "garbling" /\ ~noise =>
        /\ (pc = "setUp" /\ k > 6) \/ pc = "selfTest" =>
               uart.rx \in Seq({Garbage})
        /\ pc # "normalMode"
        /\ Ready => uart.loop

IInv == IsUart(uart) /\ Untouched /\ Garbled
-----------------------------------------------------------------------------
\* The fields of a UART put together are the parts.
LEMMA UartFields ==
    ASSUME NEW a \in BOOLEAN, NEW b, NEW c \in BOOLEAN, NEW d, NEW e
    PROVE  /\ IsUart(Uart(a, b, c, d, e))
           /\ Uart(a, b, c, d, e).dlab = a /\ Uart(a, b, c, d, e).loop = c
           /\ Uart(a, b, c, d, e).divisor = b
           /\ Uart(a, b, c, d, e).tx = d /\ Uart(a, b, c, d, e).rx = e
BY DEF IsUart, Uart

\* A write to one of the six registers: only the third clears the FIFOs, only
\* the fourth changes DLAB, only the fifth the mode, and the first sends.
LEMMA RegisterWrite ==
    ASSUME NEW u, IsUart(u), NEW r \in 0 .. 5, NEW v
    PROVE  /\ IsUart(Written(u, r, v))
           /\ Written(u, r, v).loop = IF r = 4 THEN v = "0x1e" ELSE u.loop
           /\ Written(u, r, v).dlab = IF r = 3 THEN v = "0x80" ELSE u.dlab
           /\ Written(u, r, v).rx = IF r = 2 THEN <<>> ELSE u.rx
           /\ r # 0 \/ u.dlab =>
                  Written(u, r, v).tx = IF r = 2 THEN <<>> ELSE u.tx
           /\ r = 0 /\ ~u.dlab => Written(u, r, v).tx = Queued(u.tx, v)
           /\ Written(u, r, v).divisor = Programmed(u, r, v)
<1> DEFINE set(dlab, divisor, loop, tx, rx) ==
               Written(u, r, v) = Uart(dlab, divisor, loop, tx, rx)
           fields(dlab, divisor, loop, tx, rx) ==
               /\ IsUart(Written(u, r, v)) /\ Written(u, r, v).divisor = divisor
               /\ Written(u, r, v).dlab = dlab /\ Written(u, r, v).loop = loop
               /\ Written(u, r, v).tx = tx /\ Written(u, r, v).rx = rx
<1>1. /\ 0 # 1 /\ 0 # 2 /\ 0 # 3 /\ 0 # 4 /\ 1 # 2 /\ 1 # 3 /\ 1 # 4
      /\ 2 # 3 /\ 2 # 4 /\ 3 # 4 /\ 5 # 0 /\ 5 # 1 /\ 5 # 2 /\ 5 # 3 /\ 5 # 4
  OBVIOUS
<1>2. /\ u.dlab \in BOOLEAN /\ u.loop \in BOOLEAN
      /\ (v = "0x80") \in BOOLEAN /\ (v = "0x1e") \in BOOLEAN
  BY DEF IsUart
<1>3. u = Uart(u.dlab, u.divisor, u.loop, u.tx, u.rx)
  BY DEF IsUart
<1>4. ASSUME NEW a \in BOOLEAN, NEW b, NEW c \in BOOLEAN, NEW d, NEW e,
              set(a, b, c, d, e)
       PROVE  fields(a, b, c, d, e)
  BY <1>4, UartFields
<1> HIDE DEF set, fields
<1>5. CASE r = 0 /\ u.dlab
  <2>1. Written(u, r, v) = [u EXCEPT !.divisor[1] = v]
    BY <1>1, <1>5, Zenon DEF Written
  <2>2. set(u.dlab, [u.divisor EXCEPT ![1] = v], u.loop, u.tx, u.rx)
    BY <1>3, <2>1 DEF Uart, set
  <2>3. fields(u.dlab, [u.divisor EXCEPT ![1] = v], u.loop, u.tx, u.rx)
    BY <1>2, <2>2, <1>4, Zenon
  <2>4. Programmed(u, r, v) = [u.divisor EXCEPT ![1] = v]
    BY <1>5 DEF Programmed
  <2>5. QED
    BY <1>1, <1>5, <2>3, <2>4, Zenon DEF fields
<1>6. CASE r = 0 /\ ~u.dlab
  <2>1. Written(u, r, v) = [u EXCEPT !.tx = Queued(@, v)]
    BY <1>1, <1>6, Zenon DEF Written
  <2>2. set(u.dlab, u.divisor, u.loop, Queued(u.tx, v), u.rx)
    BY <1>3, <2>1 DEF Uart, set
  <2>3. fields(u.dlab, u.divisor, u.loop, Queued(u.tx, v), u.rx)
    BY <1>2, <2>2, <1>4, Zenon
  <2>4. Programmed(u, r, v) = u.divisor
    BY <1>6 DEF Programmed
  <2>5. QED
    BY <1>1, <1>6, <2>3, <2>4, Zenon DEF fields
<1>7. CASE r = 1 /\ u.dlab
  <2>1. Written(u, r, v) = [u EXCEPT !.divisor[2] = v]
    BY <1>1, <1>7, Zenon DEF Written
  <2>2. set(u.dlab, [u.divisor EXCEPT ![2] = v], u.loop, u.tx, u.rx)
    BY <1>3, <2>1 DEF Uart, set
  <2>3. fields(u.dlab, [u.divisor EXCEPT ![2] = v], u.loop, u.tx, u.rx)
    BY <1>2, <2>2, <1>4, Zenon
  <2>4. Programmed(u, r, v) = [u.divisor EXCEPT ![2] = v]
    BY <1>7 DEF Programmed
  <2>5. QED
    BY <1>1, <1>7, <2>3, <2>4, Zenon DEF fields
<1>8. CASE (r = 1 /\ ~u.dlab) \/ r = 5
  <2>1. Written(u, r, v) = u
    BY <1>1, <1>8, Zenon DEF Written
  <2>2. Programmed(u, r, v) = u.divisor
    BY <1>8 DEF Programmed
  <2>3. QED
    BY <1>8, <2>1, <2>2
<1>9. CASE r = 2
  <2>1. Written(u, r, v) = [u EXCEPT !.tx = <<>>, !.rx = <<>>]
    BY <1>1, <1>9, Zenon DEF Written
  <2>2. @ = [[u EXCEPT !.tx = <<>>] EXCEPT !.rx = <<>>]
    OBVIOUS
  <2>3. [u EXCEPT !.tx = <<>>] = Uart(u.dlab, u.divisor, u.loop, <<>>, u.rx)
    BY <1>3 DEF Uart
  <2>4. [Uart(u.dlab, u.divisor, u.loop, <<>>, u.rx) EXCEPT !.rx = <<>>]
            = Uart(u.dlab, u.divisor, u.loop, <<>>, <<>>)
    BY DEF Uart
  <2>5. set(u.dlab, u.divisor, u.loop, <<>>, <<>>)
    BY <2>1, <2>2, <2>3, <2>4, Zenon DEF set
  <2>6. fields(u.dlab, u.divisor, u.loop, <<>>, <<>>)
    BY <1>2, <2>5, <1>4, Zenon
  <2>7. Programmed(u, r, v) = u.divisor
    BY <1>9 DEF Programmed
  <2>8. QED
    BY <1>1, <1>9, <2>6, <2>7, Zenon DEF fields
<1>10. CASE r = 3
  <2>1. Written(u, r, v) = [u EXCEPT !.dlab = v = "0x80"]
    BY <1>1, <1>10, Zenon DEF Written
  <2>2. set(v = "0x80", u.divisor, u.loop, u.tx, u.rx)
    BY <1>3, <2>1 DEF Uart, set
  <2>3. fields((v = "0x80"), u.divisor, u.loop, u.tx, u.rx)
    BY <1>2, <2>2, <1>4, Zenon
  <2>4. Programmed(u, r, v) = u.divisor
    BY <1>10 DEF Programmed
  <2>5. QED
    BY <1>1, <1>10, <2>3, <2>4, Zenon DEF fields
<1>11. CASE r = 4
  <2>1. Written(u, r, v) = [u EXCEPT !.loop = v = "0x1e"]
    BY <1>1, <1>11, Zenon DEF Written
  <2>2. set(u.dlab, u.divisor, v = "0x1e", u.tx, u.rx)
    BY <1>3, <2>1 DEF Uart, set
  <2>3. fields(u.dlab, u.divisor, (v = "0x1e"), u.tx, u.rx)
    BY <1>2, <2>2, <1>4, Zenon
  <2>4. Programmed(u, r, v) = u.divisor
    BY <1>11 DEF Programmed
  <2>5. QED
    BY <1>1, <1>11, <2>3, <2>4, Zenon DEF fields
<1>12. QED
  BY <1>5, <1>6, <1>7, <1>8, <1>9, <1>10, <1>11

\* The port starts out of loopback mode with nothing to send.
LEMMA InitInv == Init => IInv
<1>1. SUFFICES ASSUME Init PROVE IInv
  OBVIOUS
<1>2. /\ pc = "setUp" /\ k = 1 /\ wire = <<>>
      /\ uart \in [dlab : {FALSE}, divisor : {<<"low", "high">>}, loop : {FALSE},
                   tx : {<<>>}, rx : {<<>>, <<TestByte>>, <<Garbage>>}]
  BY <1>1 DEF Init, SerialInitial
<1>3. IsUart(uart) /\ uart.tx = <<>> /\ ~uart.loop
  BY <1>2 DEF IsUart, Uart
<1>4. QED
  BY <1>2, <1>3 DEF IInv, Untouched, Garbled, Ready

\* The nine writes before the test.
LEMMA SetUpInv == ASSUME IInv, SetUp PROVE IInv'
<1> USE DEF IInv
<1>1. /\ pc = "setUp" /\ k \in 1 .. 9 /\ uart.tx = <<>> /\ wire = <<>>
      /\ port' = port /\ wire' = wire /\ Len(SetUpWrites) = 9
      /\ pc' = (IF k = 9 THEN "selfTest" ELSE "setUp")
      /\ k' = IF k = 9 THEN 1 ELSE k + 1
      /\ noise' = (noise /\ SetUpWrites[k][1] # 2)
  BY DEF SetUp, SetUpWrite, SetUpWrites, Untouched, Ready
<1>2. /\ SetUpWrites[1] = <<1, "0x00">> /\ SetUpWrites[2] = <<3, "0x80">>
      /\ SetUpWrites[3] = <<0, "0x01">> /\ SetUpWrites[4] = <<1, "0x00">>
      /\ SetUpWrites[5] = <<3, "0x03">> /\ SetUpWrites[6] = <<2, "0xc7">>
      /\ SetUpWrites[7] = <<4, "0x0b">> /\ SetUpWrites[8] = <<4, "0x1e">>
      /\ SetUpWrites[9] = <<0, TestByte>>
  BY DEF SetUpWrites
<1>3. CASE port = "absent"
  <2>1. uart' = uart
    BY <1>3 DEF SetUp, SetUpWrite, Outb
  <2>2. QED
    BY <1>1, <1>3, <2>1 DEF IsUart, Untouched, Garbled, Ready
<1>4. CASE port # "absent"
  <2> DEFINE r == SetUpWrites[k][1]
             v == SetUpWrites[k][2]
  <2>1. r \in 0 .. 5
    BY <1>1, <1>2
  <2>2. uart' = Written(uart, r, v)
    BY <1>4, Zenon DEF SetUp, SetUpWrite, Outb
  <2>3. /\ IsUart(uart')
        /\ uart'.loop = (IF r = 4 THEN v = "0x1e" ELSE uart.loop)
        /\ uart'.dlab = (IF r = 3 THEN v = "0x80" ELSE uart.dlab)
        /\ uart'.rx = (IF r = 2 THEN <<>> ELSE uart.rx)
        /\ r # 0 \/ uart.dlab => uart'.tx = IF r = 2 THEN <<>> ELSE uart.tx
    BY <2>1, <2>2, RegisterWrite
  <2>4. /\ r = 0 <=> k \in {3, 9}
        /\ k = 2 => r = 3 /\ v = "0x80"
        /\ k \in {3, 9} => r # 2 /\ r # 3 /\ r # 4
        /\ r = 2 <=> k = 6
        /\ k = 8 => r = 4 /\ v = "0x1e"
        /\ noise' = (noise /\ k # 6)
    BY <1>1, <1>2
  <2> HIDE DEF r, v
  <2>5. Untouched'
    <3>1. k < 9 => uart'.tx = <<>>
      BY <1>1, <1>4, <2>3, <2>4 DEF Untouched
    <3>2. k = 2 => uart'.dlab
      BY <2>3, <2>4, Zenon
    <3>3. k = 3 => uart'.dlab
      <4>1. k = 3 => uart'.dlab = uart.dlab
        BY <2>3, <2>4
      <4>2. QED
        BY <1>1, <1>4, <4>1 DEF Untouched
    <3>4. k = 8 => uart'.loop
      BY <2>3, <2>4, Zenon
    <3>5. k = 9 => uart'.loop
      <4>1. k = 9 => uart'.loop = uart.loop
        BY <2>3, <2>4
      <4>2. QED
        BY <1>1, <1>4, <4>1 DEF Untouched
    <3>6. QED
      BY <1>1, <1>4, <3>1, <3>2, <3>3, <3>4, <3>5 DEF Untouched, Ready
  <2>6. Garbled'
    <3>1. CASE k = 6
      BY <1>1, <2>3, <2>4, <3>1 DEF Garbled, Ready
    <3>2. CASE k # 6
      <4>1. uart'.rx = uart.rx /\ (~noise' => ~noise)
        BY <1>1, <2>3, <2>4, <3>2
      <4>2. QED
        BY <1>1, <3>2, <4>1 DEF Garbled, Ready
    <3>3. QED
      BY <3>1, <3>2
  <2>7. QED
    BY <2>3, <2>5, <2>6
<1>5. QED
  BY <1>3, <1>4

\* The echo of a garbling port never passes.
LEMMA TestInv == ASSUME IInv, Test PROVE IInv'
<1> USE DEF IInv
<1>1. /\ pc = "selfTest" /\ pc' = (IF TestPassed THEN "normalMode" ELSE "kernel")
      /\ port' = port /\ wire' = wire /\ noise' = noise
      /\ IsUart(uart') /\ uart'.loop = uart.loop /\ uart'.tx = uart.tx
  BY DEF Test, SelfTest, IsUart, Uart
<1>2. port = "garbling" /\ ~noise => ~TestPassed
  <2>1. SUFFICES ASSUME port = "garbling", ~noise
                 PROVE  Received # TestByte
    BY DEF TestPassed
  <2>2. uart.rx \in Seq({Garbage})
    BY <1>1, <2>1 DEF Garbled
  <2>3. uart.rx # <<>> => Head(uart.rx) = Garbage
    BY <2>2
  <2>4. QED
    BY <2>1, <2>3 DEF Received, TestByte, Garbage
<1>3. Untouched'
  BY <1>1 DEF Untouched, Ready
<1>4. Garbled'
  BY <1>1, <1>2 DEF Untouched, Garbled, Ready
<1>5. QED
  BY <1>1, <1>3, <1>4

\* Only a port that passed leaves loopback mode.
LEMMA NormalModeInv == ASSUME IInv, EnterNormalMode PROVE IInv'
<1> USE DEF IInv
<1>1. /\ pc = "normalMode" /\ pc' = "kernel"
      /\ port' = port /\ wire' = wire /\ noise' = noise /\ wire = <<>>
  BY DEF EnterNormalMode, NormalMode, Untouched, Ready
<1>2. IsUart(uart') /\ (port = "absent" => uart' = uart)
  BY RegisterWrite DEF EnterNormalMode, NormalMode, Outb
<1>3. QED
  BY <1>1, <1>2 DEF Untouched, Garbled, Ready

\* A character goes into the FIFO at most.
LEMMA PutStringInv == ASSUME IInv, PutString PROVE IInv'
<1> USE DEF IInv
<1>1. /\ pc = "serial" /\ pc' \in {"serial", "console"}
      /\ port' = port /\ wire' = wire /\ noise' = noise
  BY DEF PutString, SerialPutChar
<1>2. /\ IsUart(uart') /\ uart'.loop = uart.loop
      /\ port = "absent" => uart' = uart
  BY RegisterWrite DEF PutString, SerialPutChar, Outb
<1>3. QED
  BY <1>1, <1>2 DEF Untouched, Garbled, Ready

\* In loopback mode the byte comes back; otherwise the set-up is over.
LEMMA TransmitInv ==
    ASSUME IInv, Transmit, UNCHANGED <<pc, k>>
    PROVE  IInv'
<1> USE DEF IInv
<1>1. port' = port /\ noise' = noise /\ uart.tx # <<>>
  BY DEF Transmit
<1>2. IsUart(uart') /\ uart'.loop = uart.loop
  BY DEF Transmit, IsUart, Uart
<1>3. CASE uart.loop
  <2>1. wire' = wire
    BY <1>3 DEF Transmit
  <2>2. port = "garbling" => uart'.rx = Queued(uart.rx, Garbage)
    BY <1>3 DEF Transmit, IsUart, Uart
  <2>3. uart.rx \in Seq({Garbage}) => Queued(uart.rx, Garbage) \in Seq({Garbage})
    BY DEF Queued
  <2>4. Garbled'
    BY <1>1, <1>2, <2>2, <2>3 DEF Garbled, Ready
  <2>5. Untouched'
    BY <1>1, <1>2, <1>3, <2>1 DEF Untouched, Ready
  <2>6. QED
    BY <1>2, <2>4, <2>5
<1>4. CASE ~uart.loop
  <2>1. uart'.rx = uart.rx
    BY <1>4 DEF Transmit, IsUart, Uart
  <2>2. QED
    BY <1>1, <1>2, <1>4, <2>1 DEF Untouched, Garbled, Ready
<1>5. QED
  BY <1>3, <1>4

\* Loopback mode cuts the other end off.
LEMMA NoiseInv ==
    ASSUME IInv, Noise, ~Ready, UNCHANGED <<pc, k>>
    PROVE  IInv'
BY DEF IInv, Noise, IsUart, Uart, Untouched, Garbled, Ready

\* Every step of kernel and port keeps the invariant.
LEMMA NextInv == ASSUME IInv, [Next]_vars PROVE IInv'
<1>1. CASE UNCHANGED <<serial, pc, k>>
  BY <1>1 DEF serial, IInv, Untouched, Garbled, Ready
<1>2. ASSUME NEW t \in Texts, CallPrintk(t)
      PROVE  IInv'
  BY <1>2 DEF CallPrintk, serial, IInv, Untouched, Garbled, Ready
<1>3. CASE Puts
  BY <1>3 DEF Puts, serial, IInv, Untouched, Garbled, Ready
<1>4. CASE Driver
  BY <1>3, <1>4, SetUpInv, TestInv, NormalModeInv, PutStringInv DEF Driver
<1>5. CASE Device
  BY <1>5, TransmitInv, NoiseInv DEF Device
<1>6. QED
  BY <1>1, <1>2, <1>3, <1>4, <1>5 DEF Next, vars

\* A port that fails serialInit's test stays silent for ever, whatever printk
\* sends to it: nothing but a passed test takes it out of loopback mode.
THEOREM FailedStaysSilent == Spec => []FailedSilent
<1>1. IInv => FailedSilent
  BY DEF IInv, Untouched, Garbled, FailedSilent
<1>2. QED
  BY InitInv, NextInv, <1>1, PTL DEF Spec
-----------------------------------------------------------------------------
\* The console.

\* What the texts are made of.
Chars == UNION {Range(t) : t \in Texts}

\* The fields of the console; what m_buf holds does not matter here.
Cursor(m, row, column, start, damaged) ==
    [buf |-> m, row |-> row, column |-> column, start |-> start,
     damaged |-> damaged]

IsConsole(c) ==
    /\ c = Cursor(c.buf, c.row, c.column, c.start, c.damaged)
    /\ c.damaged \in BOOLEAN

\* The cursor is behind the last character put, and below and right of
\* everything drawn.
Placed ==
    /\ con.row = Len(lines[Len(lines)]) /\ con.start = <<0, 0>>
    /\ con.column = IF Len(lines) <= ConsoleColumn THEN Len(lines) - 1
                                                   ELSE ConsoleColumn - 1
    /\ \A p \in screen : /\ p[2] \in Int /\ p[2] <= con.column
                         /\ p[2] = con.column => p[1] \in Nat /\ p[1] < con.row

\* A store past m_buf ends all that is known of the cursor.
ScreenInv ==
    /\ IsConsole(con) /\ lines \in Seq(Seq(Chars)) /\ lines # <<>>
    /\ Con!WritesInBuffer
    /\ ~con.damaged => Placed /\ Con!ScreenShowsText

\* What the constants are, for the provers.
LEMMA ConsoleTypes ==
    /\ ConsoleRow \in Nat /\ ConsoleColumn \in Nat \ {0, 1}
    /\ ConsoleColumn <= ConsoleRow
    /\ BufSiz \in Nat \ {0} /\ Con!Stride = ConsoleRow + 1
    /\ \A t \in Texts : t \in Seq(Range(t))
BY PrintkAssumption DEF Con!ConsoleConstants, Con!Stride, Range, Con!Range

\* The fields of a console put together are the parts.
LEMMA CursorFields ==
    ASSUME NEW a, NEW b, NEW c, NEW s, NEW d \in BOOLEAN
    PROVE  /\ IsConsole(Cursor(a, b, c, s, d))
           /\ Cursor(a, b, c, s, d).buf = a /\ Cursor(a, b, c, s, d).row = b
           /\ Cursor(a, b, c, s, d).column = c
           /\ Cursor(a, b, c, s, d).start = s
           /\ Cursor(a, b, c, s, d).damaged = d
BY DEF IsConsole, Cursor

\* What a store makes of the console: it changes m_buf, or goes past it.
LEMMA StoredFields ==
    ASSUME NEW c, IsConsole(c), NEW a, NEW b, NEW ch,
           NEW x \in Con!Stored(c, a, b, ch)
    PROVE  \E m, r, n, s : \E o \in BOOLEAN :
               /\ x = Cursor(m, r, n, s, o)
               /\ \/ /\ Con!Place(a, b) \in Con!Buffer
                     /\ r = c.row /\ n = c.column /\ s = c.start /\ o = c.damaged
                  \/ Con!Place(a, b) \notin Con!Buffer /\ o
<1>1. CASE Con!Place(a, b) \in Con!Buffer
  <2>1. x = [c EXCEPT !.buf[Con!Place(a, b)] = ch]
    BY <1>1 DEF Con!Stored
  <2> DEFINE m == [c.buf EXCEPT ![Con!Place(a, b)] = ch]
  <2>2. [c EXCEPT !.buf[Con!Place(a, b)] = ch] = [c EXCEPT !.buf = m]
    OBVIOUS
  <2> HIDE DEF m
  <2>3. [c EXCEPT !.buf = m] = Cursor(m, c.row, c.column, c.start, c.damaged)
    BY DEF IsConsole, Cursor
  <2>4. c.damaged \in BOOLEAN
    BY DEF IsConsole
  <2>5. QED
    BY <1>1, <2>1, <2>2, <2>3, <2>4, Zenon
<1>2. CASE Con!Place(a, b) \notin Con!Buffer
  <2>1. PICK w : x = [c EXCEPT !.row = w.row, !.column = w.column,
                               !.start = w.start, !.damaged = TRUE]
    BY <1>2 DEF Con!Stored
  <2> DEFINE o == TRUE
  <2>2. c = Cursor(c.buf, c.row, c.column, c.start, c.damaged)
    BY DEF IsConsole
  <2>3. x = [c EXCEPT !.row = w.row, !.column = w.column,
                      !.start = w.start, !.damaged = o]
    BY <2>1
  <2> HIDE DEF o
  <2>4. x = Cursor(c.buf, w.row, w.column, w.start, o)
    BY <2>2, <2>3 DEF Cursor
  <2>5. o \in BOOLEAN /\ o
    BY DEF o
  <2>6. QED
    BY <1>2, <2>4, <2>5, Zenon
<1>3. QED
  BY <1>1, <1>2

\* What is in a picture.
LEMMA InPicture ==
    ASSUME NEW ls, NEW p
    PROVE  p \in Con!Picture(ls) <=>
               \E l \in DOMAIN ls : \E n \in DOMAIN ls[l] :
                   p = <<n - 1, l - 1, ls[l][n]>>
BY DEF Con!Picture

\* One more character of the last line.
Grown(ls, ch) == [ls EXCEPT ![Len(ls)] = Append(@, ch)]

\* It is drawn behind the others.
LEMMA PictureOfChar ==
    ASSUME NEW S, NEW ls \in Seq(Seq(S)), ls # <<>>, NEW ch \in S
    PROVE  /\ Grown(ls, ch) \in Seq(Seq(S)) /\ Len(Grown(ls, ch)) = Len(ls)
           /\ Grown(ls, ch)[Len(ls)] = Append(ls[Len(ls)], ch)
           /\ Con!Picture(Grown(ls, ch)) = Con!Picture(ls)
                  \union {<<Len(ls[Len(ls)]), Len(ls) - 1, ch>>}
<1> DEFINE last == ls[Len(ls)]
           more == Grown(ls, ch)
<1>1. Len(ls) \in DOMAIN ls /\ last \in Seq(S)
  OBVIOUS
<1>2. /\ more \in Seq(Seq(S)) /\ Len(more) = Len(ls) /\ DOMAIN more = DOMAIN ls
      /\ more[Len(ls)] = Append(last, ch)
      /\ \A l \in DOMAIN ls : l # Len(ls) => more[l] = ls[l]
  BY <1>1 DEF Grown
<1> HIDE DEF more
<1>3. /\ DOMAIN Append(last, ch) = DOMAIN last \union {Len(last) + 1}
      /\ Append(last, ch)[Len(last) + 1] = ch
      /\ \A n \in DOMAIN last : Append(last, ch)[n] = last[n]
      /\ Len(last) \in Nat
  BY <1>1
<1>4. ASSUME NEW p \in Con!Picture(more)
      PROVE  p \in Con!Picture(ls) \union {<<Len(last), Len(ls) - 1, ch>>}
  <2>1. PICK l \in DOMAIN more : \E n \in DOMAIN more[l] :
            p = <<n - 1, l - 1, more[l][n]>>
    BY <1>4 DEF Con!Picture
  <2>2. PICK n \in DOMAIN more[l] : p = <<n - 1, l - 1, more[l][n]>>
    BY <2>1
  <2>3. CASE l # Len(ls)
    BY <1>2, <2>2, <2>3, InPicture
  <2>4. CASE l = Len(ls) /\ n \in DOMAIN last
    BY <1>1, <1>2, <1>3, <2>2, <2>4, InPicture
  <2>5. CASE l = Len(ls) /\ n = Len(last) + 1
    BY <1>2, <1>3, <2>2, <2>5
  <2>6. QED
    BY <1>2, <1>3, <2>2, <2>3, <2>4, <2>5
<1>5. ASSUME NEW p \in Con!Picture(ls)
      PROVE  p \in Con!Picture(more)
  <2>1. PICK l \in DOMAIN ls : \E n \in DOMAIN ls[l] :
            p = <<n - 1, l - 1, ls[l][n]>>
    BY <1>5, InPicture
  <2>2. PICK n \in DOMAIN ls[l] : p = <<n - 1, l - 1, ls[l][n]>>
    BY <2>1
  <2>3. n \in DOMAIN more[l] /\ more[l][n] = ls[l][n]
    BY <1>2, <1>3, <2>2
  <2>4. QED
    BY <1>2, <2>2, <2>3, InPicture
<1>6. <<Len(last), Len(ls) - 1, ch>> \in Con!Picture(more)
  <2>1. /\ Len(last) + 1 \in DOMAIN more[Len(ls)] /\ Len(ls) \in DOMAIN more
        /\ more[Len(ls)][Len(last) + 1] = ch /\ (Len(last) + 1) - 1 = Len(last)
    BY <1>1, <1>2, <1>3
  <2>2. QED
    BY <2>1, InPicture
<1>7. QED
  BY <1>2, <1>4, <1>5, <1>6 DEF more

\* A new line is empty.
LEMMA PictureOfBreak ==
    ASSUME NEW S, NEW ls \in Seq(Seq(S))
    PROVE  Con!Picture(Append(ls, <<>>)) = Con!Picture(ls)
<1> DEFINE more == Append(ls, <<>>)
<1>1. /\ DOMAIN more = DOMAIN ls \union {Len(ls) + 1}
      /\ DOMAIN more[Len(ls) + 1] = {}
      /\ \A l \in DOMAIN ls : more[l] = ls[l]
  OBVIOUS
<1> HIDE DEF more
<1>2. ASSUME NEW p
      PROVE  p \in Con!Picture(more) <=> p \in Con!Picture(ls)
  <2>1. (\E l \in DOMAIN more : \E n \in DOMAIN more[l] :
             p = <<n - 1, l - 1, more[l][n]>>) <=>
        (\E l \in DOMAIN ls : \E n \in DOMAIN ls[l] :
             p = <<n - 1, l - 1, ls[l][n]>>)
    BY <1>1
  <2>2. QED
    BY <2>1, InPicture
<1>3. Con!Picture(more) = Con!Picture(ls)
  BY <1>2
<1>4. QED
  BY <1>3 DEF more

\* The lines drawn again are all above the last one.
LEMMA RedrawnAbove ==
    ASSUME NEW b, NEW p \in Con!Redrawn(<<0, 0>>, b)
    PROVE  p[2] \in Int /\ p[2] < ConsoleColumn - 1
<1> DEFINE from(y) == Con!Place(y, 0)
           end(y) == Con!Min({n \in Con!Buffer : n >= from(y) /\ b[n] = Con!Nul})
           line(y) == {<<0 + n - from(y), 0 + y, b[n]>> :
                       n \in from(y) .. end(y) - 1}
<1>1. p \in UNION {line(y) : y \in 0 .. ConsoleColumn - 2}
  BY DEF Con!Redrawn
<1>2. PICK y \in 0 .. ConsoleColumn - 2 : p \in line(y)
  BY <1>1
<1>3. \E n : p = <<0 + n - from(y), 0 + y, b[n]>>
  BY <1>2
<1> HIDE DEF from
<1>4. p[2] = 0 + y
  BY <1>3
<1>5. QED
  BY <1>4, ConsoleTypes

\* A place of m_buf.
LEMMA PlaceInBuffer ==
    ASSUME NEW a \in 0 .. ConsoleColumn - 1, NEW b \in 0 .. ConsoleRow
    PROVE  Con!Place(a, b) \in Con!Buffer
<1> DEFINE S == ConsoleRow + 1
           C == ConsoleColumn
<1>1. S \in Nat /\ C \in Nat /\ a \in Nat /\ b \in 0 .. S - 1 /\ a <= C - 1
  BY ConsoleTypes
<1> HIDE DEF S, C
<1>2. /\ a * S \in Nat /\ C * S \in Nat
      /\ a * S <= (C - 1) * S /\ (C - 1) * S = C * S - S
  BY <1>1
<1>3. a * S + b + 1 \in 1 .. C * S
  BY <1>1, <1>2
<1>4. QED
  BY <1>3, ConsoleTypes DEF Con!Place, Con!Buffer, S, C

\* And one behind it.
LEMMA PlacePastBuffer ==
    ASSUME NEW a \in Nat, a >= ConsoleColumn, NEW b \in Nat
    PROVE  Con!Place(a, b) \notin Con!Buffer
<1> DEFINE S == ConsoleRow + 1
           C == ConsoleColumn
<1>1. S \in Nat /\ C \in Nat /\ a >= C
  BY ConsoleTypes
<1> HIDE DEF S, C
<1>2. /\ a * S \in Nat /\ C * S \in Nat /\ a * S >= C * S
  BY <1>1
<1>3. a * S + b + 1 \notin 1 .. C * S
  BY <1>2
<1>4. QED
  BY <1>3, ConsoleTypes DEF Con!Place, Con!Buffer, S, C

\* If all lines are short after a step they were so before it.
LEMMA StillShort ==
    ASSUME NEW S, NEW ls \in Seq(Seq(S)), ls # <<>>, NEW ch \in S,
           NEW more \in {Grown(ls, ch), Append(ls, <<>>)},
           \A l \in DOMAIN more : Len(more[l]) < ConsoleColumn
    PROVE  \A l \in DOMAIN ls : Len(ls[l]) < ConsoleColumn
<1>1. CASE more = Append(ls, <<>>)
  <2>1. \A l \in DOMAIN ls : l \in DOMAIN more /\ more[l] = ls[l]
    BY <1>1
  <2>2. QED
    BY <2>1
<1>2. CASE more = Grown(ls, ch)
  <2>1. /\ DOMAIN more = DOMAIN ls /\ Len(ls) \in DOMAIN ls
        /\ \A l \in DOMAIN ls : l # Len(ls) => more[l] = ls[l]
        /\ more[Len(ls)] = Append(ls[Len(ls)], ch)
    BY <1>2 DEF Grown
  <2>2. ls[Len(ls)] \in Seq(S)
    BY <2>1
  <2>3. Len(ls[Len(ls)]) < ConsoleColumn
    BY <2>1, <2>2, ConsoleTypes
  <2>4. QED
    BY <2>1, <2>3
<1>3. QED
  BY <1>1, <1>2

\* One character further on.
LEMMA PutCharScreen ==
    ASSUME ScreenInv, buf \in Seq(Chars), Con!PutChar
    PROVE  ScreenInv'
<1> DEFINE ch == buf[k]
           n == Len(lines)
<1>1. /\ IsConsole(con) /\ lines \in Seq(Seq(Chars)) /\ lines # <<>>
      /\ n \in Nat \ {0} /\ ch \in Chars
  BY DEF ScreenInv, Con!PutChar
<1>2. /\ lines' = Grown(lines, ch)
      /\ lines' \in Seq(Seq(Chars)) /\ Len(lines') = n /\ lines' # <<>>
      /\ lines'[n] = Append(lines[n], ch)
      /\ Con!Picture(lines') =
             Con!Picture(lines) \union {<<Len(lines[n]), n - 1, ch>>}
  <2>1. lines' = Grown(lines, ch)
    BY Zenon DEF Con!PutChar, Grown
  <2>2. /\ Grown(lines, ch) \in Seq(Seq(Chars))
        /\ Len(Grown(lines, ch)) = Len(lines)
        /\ Grown(lines, ch)[Len(lines)] = Append(lines[Len(lines)], ch)
        /\ Con!Picture(Grown(lines, ch)) = Con!Picture(lines)
               \union {<<Len(lines[Len(lines)]), Len(lines) - 1, ch>>}
    <3>1. lines \in Seq(Seq(Chars)) /\ lines # <<>> /\ ch \in Chars
      BY <1>1
    <3> HIDE DEF ch
    <3>2. QED
      BY <3>1, PictureOfChar
  <2>3. lines' # <<>>
    BY <1>1, <2>1, <2>2
  <2>4. QED
    BY <2>1, <2>2, <2>3
<1>3. PICK x \in Con!Stored(con, con.column, con.row, ch) :
          con' = [x EXCEPT !.row = @ + 1]
  BY DEF Con!PutChar
<1> DEFINE inside == Con!Place(con.column, con.row) \in Con!Buffer
<1>4. PICK m, r, c, s : \E o \in BOOLEAN :
          /\ x = Cursor(m, r, c, s, o)
          /\ \/ /\ inside /\ r = con.row /\ c = con.column
                /\ s = con.start /\ o = con.damaged
             \/ ~inside /\ o
  BY <1>1, StoredFields
<1>5. PICK o \in BOOLEAN :
          /\ x = Cursor(m, r, c, s, o)
          /\ \/ /\ inside /\ r = con.row /\ c = con.column
                /\ s = con.start /\ o = con.damaged
             \/ ~inside /\ o
  BY <1>4
<1>6. con' = Cursor(m, r + 1, c, s, o)
  BY <1>3, <1>5 DEF Cursor
<1>7. /\ IsConsole(con') /\ con'.row = r + 1 /\ con'.column = c
      /\ con'.start = s /\ con'.damaged = o
  BY <1>6, CursorFields
<1> HIDE DEF ch, n, inside
<1>8. Con!WritesInBuffer'
  <2>1. SUFFICES ASSUME \A l \in DOMAIN lines' : Len(lines'[l]) < ConsoleColumn
                 PROVE  ~con'.damaged
    BY DEF Con!WritesInBuffer
  <2>2. \A l \in DOMAIN lines : Len(lines[l]) < ConsoleColumn
    BY <1>1, <1>2, <2>1, StillShort
  <2>3. ~con.damaged /\ Placed
    BY <2>2 DEF ScreenInv, Con!WritesInBuffer
  <2>4. con.row \in 0 .. ConsoleColumn - 1 /\ con.column \in 0 .. ConsoleColumn - 1
    <3>1. n \in DOMAIN lines /\ lines[n] \in Seq(Chars)
      BY <1>1 DEF n
    <3>2. Len(lines[n]) \in Nat /\ con.row = Len(lines[n])
      BY <2>3, <3>1 DEF Placed, n
    <3>3. QED
      BY <1>1, <2>2, <2>3, <3>1, <3>2, ConsoleTypes DEF Placed, n
  <2>5. inside
    BY <2>4, PlaceInBuffer, ConsoleTypes DEF inside
  <2>6. QED
    BY <1>5, <1>7, <2>3, <2>5
<1>9. ASSUME ~con'.damaged PROVE Placed' /\ Con!ScreenShowsText'
  <2>1. /\ ~con.damaged /\ inside /\ r = con.row /\ c = con.column
        /\ s = con.start
    BY <1>5, <1>7, <1>9
  <2>2. /\ con.row = Len(lines[n]) /\ con.row \in Nat /\ con.start = <<0, 0>>
        /\ con.column = IF n <= ConsoleColumn THEN n - 1 ELSE ConsoleColumn - 1
        /\ \A p \in screen :
               /\ p[2] \in Int /\ p[2] <= con.column
               /\ p[2] = con.column => p[1] \in Nat /\ p[1] < con.row
        /\ n <= ConsoleColumn => screen = Con!Picture(lines)
    <3>1. Placed /\ Con!ScreenShowsText
      BY <2>1 DEF ScreenInv
    <3>2. lines[n] \in Seq(Chars)
      BY <1>1 DEF n
    <3>3. QED
      BY <2>1, <3>1, <3>2 DEF Placed, Con!ScreenShowsText, n
  <2>3. con.column \in Nat
    BY <1>1, <2>2, ConsoleTypes
  <2>4. screen' = screen \union {<<con.row, con.column, ch>>}
    <3>1. 0 + con.row = con.row /\ 0 + con.column = con.column
      BY <2>2, <2>3
    <3>2. screen' = screen \union {<<con.start[1] + con.row,
                                    con.start[2] + con.column, ch>>}
      BY DEF Con!PutChar, ch
    <3>3. con.start[1] = 0 /\ con.start[2] = 0
      BY <2>2
    <3>4. QED
      BY <3>1, <3>2, <3>3
  <2>5. con'.row = Len(lines'[Len(lines')])
    <3>1. lines[n] \in Seq(Chars)
      BY <1>1 DEF n
    <3>2. QED
      BY <1>1, <1>2, <1>7, <2>1, <2>2, <3>1
  <2>6. ASSUME NEW p \in screen'
        PROVE  /\ p[2] \in Int /\ p[2] <= con'.column
               /\ p[2] = con'.column => p[1] \in Nat /\ p[1] < con'.row
    <3>1. CASE p \in screen
      <4>1. /\ p[2] \in Int /\ p[2] <= con.column
            /\ p[2] = con.column => p[1] \in Nat /\ p[1] < con.row
        BY <2>2, <3>1
      <4>2. QED
        BY <1>7, <2>1, <2>2, <4>1
    <3>2. CASE p = <<con.row, con.column, ch>>
      BY <1>7, <2>1, <2>2, <2>3, <3>2
    <3>3. QED
      BY <2>4, <2>6, <3>1, <3>2
  <2>7. Placed'
    BY <1>2, <1>7, <2>1, <2>2, <2>5, <2>6 DEF Placed
  <2>8. Con!ScreenShowsText'
    BY <1>2, <2>2, <2>4 DEF Con!ScreenShowsText
  <2>9. QED
    BY <2>7, <2>8
<1>10. QED
  BY <1>2, <1>7, <1>8, <1>9 DEF ScreenInv

\* One line further on.
LEMMA LineBreakScreen ==
    ASSUME ScreenInv, Con!LineBreak
    PROVE  ScreenInv'
<1> DEFINE n == Len(lines)
           inside == Con!Place(con.row, con.column) \in Con!Buffer
<1>1. /\ IsConsole(con) /\ lines \in Seq(Seq(Chars)) /\ lines # <<>>
      /\ n \in Nat \ {0}
  BY DEF ScreenInv
<1>2. PICK x \in Con!Stored(con, con.row, con.column, Con!NewLine) :
          Con!EndLine([x EXCEPT !.row = 0])
  BY DEF Con!LineBreak
<1>3. PICK m, r, c, s : \E o \in BOOLEAN :
          /\ x = Cursor(m, r, c, s, o)
          /\ \/ /\ inside /\ r = con.row /\ c = con.column
                /\ s = con.start /\ o = con.damaged
             \/ ~inside /\ o
  BY <1>1, StoredFields
<1>4. PICK o \in BOOLEAN :
          /\ x = Cursor(m, r, c, s, o)
          /\ \/ /\ inside /\ r = con.row /\ c = con.column
                /\ s = con.start /\ o = con.damaged
             \/ ~inside /\ o
  BY <1>3
<1> DEFINE z == Cursor(m, 0, c, s, o)
<1>5. Con!EndLine(z)
  <2>1. [x EXCEPT !.row = 0] = z
    BY <1>4 DEF Cursor
  <2>2. QED
    BY <1>2, <2>1, Zenon
<1>6. z.column = c /\ z.start = s
  BY CursorFields
<1>7. /\ lines' = Append(lines, <<>>)
      /\ Con!MoreLines(c) => con' = [z EXCEPT !.column = @ + 1] /\ screen' = screen
      /\ ~Con!MoreLines(c) => \E b :
             /\ con' = [z EXCEPT !.buf = b]
             /\ screen' = (screen \ Con!Cleared(s)) \union Con!Redrawn(s, b)
  BY <1>5, <1>6 DEF Con!EndLine, Con!Scroll
<1>8. /\ lines' \in Seq(Seq(Chars)) /\ lines' # <<>> /\ Len(lines') = n + 1
      /\ Len(lines'[n + 1]) = 0
      /\ Con!Picture(lines') = Con!Picture(lines)
  <2>1. <<>> \in Seq(Chars)
    OBVIOUS
  <2>2. Con!Picture(lines') = Con!Picture(lines)
    BY <1>1, <1>7, PictureOfBreak
  <2>3. QED
    BY <1>1, <1>7, <2>1, <2>2
<1>9. /\ IsConsole(con') /\ con'.row = 0 /\ con'.start = s /\ con'.damaged = o
      /\ con'.column = IF Con!MoreLines(c) THEN c + 1 ELSE c
  <2>1. CASE Con!MoreLines(c)
    <3>1. con' = Cursor(m, 0, c + 1, s, o)
      BY <1>7, <2>1 DEF Cursor
    <3>2. QED
      BY <2>1, <3>1, CursorFields
  <2>2. CASE ~Con!MoreLines(c)
    <3>1. PICK b : con' = [z EXCEPT !.buf = b]
      BY <1>7, <2>2
    <3>2. con' = Cursor(b, 0, c, s, o)
      BY <3>1 DEF Cursor
    <3>3. QED
      BY <2>2, <3>2, CursorFields
  <2>3. QED
    BY <2>1, <2>2
<1> HIDE DEF n, inside, z
<1>10. Con!WritesInBuffer'
  <2>1. SUFFICES ASSUME \A l \in DOMAIN lines' : Len(lines'[l]) < ConsoleColumn
                 PROVE  ~con'.damaged
    BY DEF Con!WritesInBuffer
  <2>2. \A l \in DOMAIN lines : Len(lines[l]) < ConsoleColumn
    <3>1. \A l \in DOMAIN lines : l \in DOMAIN lines' /\ lines'[l] = lines[l]
      BY <1>1, <1>7
    <3>2. QED
      BY <2>1, <3>1
  <2>3. ~con.damaged /\ Placed
    BY <2>2 DEF ScreenInv, Con!WritesInBuffer
  <2>4. con.row \in 0 .. ConsoleColumn - 1 /\ con.column \in 0 .. ConsoleColumn - 1
    <3>1. n \in DOMAIN lines /\ lines[n] \in Seq(Chars)
      BY <1>1 DEF n
    <3>2. Len(lines[n]) \in Nat /\ con.row = Len(lines[n])
      BY <2>3, <3>1 DEF Placed, n
    <3>3. QED
      BY <1>1, <2>2, <2>3, <3>1, <3>2, ConsoleTypes DEF Placed, n
  <2>5. inside
    <3>1. con.column \in 0 .. ConsoleRow
      BY <2>4, ConsoleTypes
    <3>2. QED
      BY <2>4, <3>1, PlaceInBuffer DEF inside
  <2>6. QED
    BY <1>4, <1>9, <2>3, <2>5
<1>11. ASSUME ~con'.damaged PROVE Placed' /\ Con!ScreenShowsText'
  <2>1. /\ ~con.damaged /\ inside /\ c = con.column /\ s = con.start
    BY <1>4, <1>9, <1>11
  <2>2. /\ con.row = Len(lines[n]) /\ con.row \in Nat /\ s = <<0, 0>>
        /\ c = IF n <= ConsoleColumn THEN n - 1 ELSE ConsoleColumn - 1
        /\ c \in Nat
        /\ \A p \in screen :
               /\ p[2] \in Int /\ p[2] <= c
               /\ p[2] = c => p[1] \in Nat /\ p[1] < con.row
        /\ n <= ConsoleColumn => screen = Con!Picture(lines)
    <3>1. Placed /\ Con!ScreenShowsText
      BY <2>1 DEF ScreenInv
    <3>2. lines[n] \in Seq(Chars)
      BY <1>1 DEF n
    <3>3. QED
      BY <1>1, <2>1, <3>1, <3>2, ConsoleTypes DEF Placed, Con!ScreenShowsText, n
  <2>3. con'.row = Len(lines'[Len(lines')])
    BY <1>8, <1>9
  <2>4. CASE Con!MoreLines(c)
    <3>1. n < ConsoleColumn /\ c = n - 1
      BY <1>1, <2>2, <2>4, ConsoleTypes DEF Con!MoreLines
    <3>2. \A p \in screen : p[2] \in Int /\ p[2] <= c
      BY <2>2
    <3>3. con'.column = n /\ screen' = screen
      BY <1>1, <1>7, <1>9, <2>4, <3>1
    <3>4. \A p \in screen' : p[2] \in Int /\ p[2] < con'.column
      BY <1>1, <3>1, <3>2, <3>3
    <3>5. Placed'
      <4>1. con'.column = IF Len(lines') <= ConsoleColumn THEN Len(lines') - 1
                                                         ELSE ConsoleColumn - 1
        BY <1>1, <1>8, <3>1, <3>3, ConsoleTypes
      <4>2. con'.start = <<0, 0>> /\ con'.column \in Int
        BY <1>1, <1>9, <2>2, <3>3
      <4>3. ASSUME NEW p \in screen'
            PROVE  p[2] \in Int /\ p[2] <= con'.column /\ p[2] # con'.column
        BY <3>4, <4>2
      <4>4. QED
        BY <2>3, <4>1, <4>2, <4>3 DEF Placed
    <3>6. Con!ScreenShowsText'
      BY <1>1, <1>8, <2>2, <3>1, <3>3, ConsoleTypes DEF Con!ScreenShowsText
    <3>7. QED
      BY <3>5, <3>6
  <2>5. CASE ~Con!MoreLines(c)
    <3>1. n >= ConsoleColumn /\ c = ConsoleColumn - 1
      BY <1>1, <2>2, <2>5, ConsoleTypes DEF Con!MoreLines
    <3>2. con.row < ConsoleColumn
      <4>1. con.row >= ConsoleColumn => ~inside
        BY <2>1, <2>2, PlacePastBuffer DEF inside
      <4>2. QED
        BY <2>1, <2>2, <4>1, ConsoleTypes
    <3>3. PICK b : screen' = (screen \ Con!Cleared(s)) \union Con!Redrawn(s, b)
      BY <1>7, <2>5
    <3>4. ASSUME NEW p \in screen'
          PROVE  p[2] \in Int /\ p[2] < con'.column
      <4>1. CASE p \in Con!Redrawn(s, b)
        BY <1>9, <2>2, <2>5, <3>1, <4>1, RedrawnAbove
      <4>2. CASE p \in screen \ Con!Cleared(s)
        <5>1. /\ p[2] \in Int /\ p[2] <= c
              /\ p[2] = c => p[1] \in Nat /\ p[1] < con.row
          BY <2>2, <4>2
        <5>2. ~(/\ p[1] - s[1] \in 0 .. ConsoleRow - 1
                /\ p[2] - s[2] \in 0 .. ConsoleColumn - 1)
          BY <4>2 DEF Con!Cleared
        <5>3. s[1] = 0 /\ s[2] = 0
          BY <2>2
        <5>4. p[2] # c
          BY <2>2, <3>1, <3>2, <5>1, <5>2, <5>3, ConsoleTypes
        <5>5. QED
          BY <1>9, <2>2, <2>5, <5>1, <5>4
      <4>3. QED
        BY <3>3, <3>4, <4>1, <4>2
    <3>5. Placed'
      <4>1. con'.column = IF Len(lines') <= ConsoleColumn THEN Len(lines') - 1
                                                         ELSE ConsoleColumn - 1
        BY <1>1, <1>8, <1>9, <2>5, <3>1, ConsoleTypes
      <4>2. con'.start = <<0, 0>> /\ con'.column \in Int
        BY <1>9, <2>2, <2>5
      <4>3. ASSUME NEW p \in screen'
            PROVE  p[2] \in Int /\ p[2] <= con'.column /\ p[2] # con'.column
        BY <3>4, <4>2
      <4>4. QED
        BY <2>3, <4>1, <4>2, <4>3 DEF Placed
    <3>6. Con!ScreenShowsText'
      BY <1>1, <1>8, <3>1, ConsoleTypes DEF Con!ScreenShowsText
    <3>7. QED
      BY <3>5, <3>6
  <2>6. QED
    BY <2>4, <2>5
<1>12. QED
  BY <1>8, <1>9, <1>10, <1>11 DEF ScreenInv

\* What printk's buffer can hold, and where the loops over it are.
TextInv ==
    /\ buf = <<>> \/ \E t \in Texts : buf = Formatted(t)
    /\ pc = "serial" => k \in 1 .. Len(buf) + 2
    /\ pc = "console" => k \in 1 .. Len(buf) + 1

\* A formatted text is made of characters of the text.
LEMMA FormattedText ==
    ASSUME NEW t \in Texts
    PROVE  Formatted(t) \in Seq(Chars)
<1>1. Range(t) \subseteq Chars
  BY DEF Chars
<1>2. t \in Seq(Chars)
  BY <1>1, ConsoleTypes
<1>3. (IF Len(t) < BufSiz THEN Len(t) ELSE BufSiz - 1) \in 0 .. Len(t)
  BY <1>2, ConsoleTypes
<1>4. QED
  BY <1>2, <1>3 DEF Formatted

\* And so is what the buffer holds.
LEMMA BufferText ==
    ASSUME TextInv
    PROVE  buf \in Seq(Chars) /\ Len(buf) \in Nat /\ Len(Line(buf)) = Len(buf) + 2
<1>1. buf \in Seq(Chars)
  <2>1. <<>> \in Seq(Chars)
    OBVIOUS
  <2>2. QED
    BY <2>1, FormattedText DEF TextInv
<1>2. <<"return", Con!NewLine>> \in Seq({"return", Con!NewLine})
  OBVIOUS
<1>3. buf \in Seq(Chars \union {"return", Con!NewLine})
  BY <1>1
<1>4. QED
  BY <1>1, <1>2, <1>3 DEF Line

\* The console has drawn nothing yet.
LEMMA InitScreen == Init => ScreenInv /\ TextInv
<1> DEFINE m == [n \in Con!Buffer |-> Con!Nul]
<1>1. SUFFICES ASSUME Init PROVE ScreenInv /\ TextInv
  OBVIOUS
<1>2. /\ con = Cursor(m, 0, 0, <<0, 0>>, FALSE) /\ screen = {}
      /\ lines = <<<<>>>> /\ pc = "setUp" /\ buf = <<>>
  BY <1>1 DEF Init, Con!ConsoleInitial, Cursor
<1>3. /\ IsConsole(con) /\ con.row = 0 /\ con.column = 0
      /\ con.start = <<0, 0>> /\ ~con.damaged
  <2> DEFINE o == FALSE
  <2>1. o \in BOOLEAN /\ ~o
    OBVIOUS
  <2>2. con = Cursor(m, 0, 0, <<0, 0>>, o)
    BY <1>2
  <2> HIDE DEF o, m
  <2>3. QED
    BY <2>1, <2>2, CursorFields
<1>4. <<>> \in Seq(Chars)
  OBVIOUS
<1>5. /\ lines \in Seq(Seq(Chars)) /\ Len(lines) = 1 /\ lines[1] = <<>>
      /\ lines # <<>>
  BY <1>2, <1>4
<1>6. Placed
  <2>1. con.row = Len(lines[Len(lines)])
    BY <1>3, <1>5
  <2>2. con.column = IF Len(lines) <= ConsoleColumn THEN Len(lines) - 1
                                                   ELSE ConsoleColumn - 1
    BY <1>3, <1>5, ConsoleTypes
  <2>3. QED
    BY <1>2, <1>3, <2>1, <2>2 DEF Placed
<1>7. Con!Picture(lines) = {}
  BY <1>2 DEF Con!Picture
<1>8. QED
  BY <1>2, <1>3, <1>5, <1>6, <1>7
  DEF ScreenInv, Con!ScreenShowsText, Con!WritesInBuffer, TextInv

\* printk's loops stay in its buffer.
LEMMA NextText == ASSUME TextInv, [Next]_vars PROVE TextInv'
<1>1. buf \in Seq(Chars) /\ Len(buf) \in Nat /\ Len(Line(buf)) = Len(buf) + 2
  BY BufferText
<1>2. CASE UNCHANGED <<buf, k, pc>>
  BY <1>2 DEF TextInv
<1>3. CASE SetUp \/ Test \/ EnterNormalMode
  BY <1>3 DEF SetUp, Test, EnterNormalMode, TextInv
<1>4. CASE PutString
  BY <1>1, <1>4 DEF PutString, TextInv
<1>5. CASE Puts
  <2>1. CASE Con!PutChar \/ Con!PutBreak
    <3>1. k \in 1 .. Len(buf) /\ k' = k + 1 /\ buf' = buf /\ pc' = "console"
      BY <1>1, <1>5, <2>1 DEF Puts, Con!PutChar, Con!PutBreak, Con!Return
    <3>2. QED
      BY <1>1, <3>1 DEF TextInv
  <2>2. CASE Con!Return
    <3>1. pc' = "kernel" /\ buf' = <<>>
      BY <1>1, <1>5, <2>2 DEF Puts, Con!PutChar, Con!PutBreak, Con!Return
    <3>2. QED
      BY <3>1 DEF TextInv
  <2>3. QED
    BY <1>5, <2>1, <2>2 DEF Puts
<1>6. ASSUME NEW t \in Texts, CallPrintk(t)
      PROVE  TextInv'
  <2>1. Formatted(t) \in Seq(Chars)
    BY FormattedText
  <2>2. buf' = Formatted(t) /\ pc' = "serial" /\ k' = 1
    BY <1>6 DEF CallPrintk
  <2>3. QED
    BY <2>1, <2>2 DEF TextInv
<1>7. CASE Device
  BY <1>2, <1>7 DEF Device
<1>8. QED
  BY <1>2, <1>3, <1>4, <1>5, <1>6, <1>7 DEF Next, Driver, vars

\* Only puts touches the console, character by character.
LEMMA ConsoleSteps ==
    ASSUME TextInv, [Next]_vars
    PROVE  UNCHANGED <<con, screen, lines>> \/ Con!PutChar \/ Con!LineBreak
<1>1. CASE UNCHANGED vars \/ Device
  BY <1>1 DEF vars, Device
<1>2. CASE SetUp \/ Test \/ EnterNormalMode \/ PutString
  BY <1>2 DEF SetUp, Test, EnterNormalMode, PutString
<1>3. CASE Puts
  BY <1>3 DEF Puts, Con!PutChar, Con!PutBreak, Con!Return
<1>4. CASE \E t \in Texts : CallPrintk(t)
  BY <1>4 DEF CallPrintk
<1>5. QED
  BY <1>1, <1>2, <1>3, <1>4 DEF Next, Driver

\* Whatever is printed, the cursor stays where Placed says, or a store has
\* gone past m_buf.
LEMMA NextScreen == ASSUME ScreenInv, TextInv, [Next]_vars PROVE ScreenInv'
<1>1. CASE UNCHANGED <<con, screen, lines>>
  BY <1>1 DEF ScreenInv, Placed, Con!ScreenShowsText, Con!WritesInBuffer
<1>2. CASE Con!PutChar
  BY <1>2, BufferText, PutCharScreen
<1>3. CASE Con!LineBreak
  BY <1>3, LineBreakScreen
<1>4. QED
  BY <1>1, <1>2, <1>3, ConsoleSteps

\* Until the console has scrolled for the first time the screen shows every
\* character that was put, in its line and place, whatever was printed, also
\* in the middle of a puts, as long as no store has gone past m_buf.
THEOREM ScreenIsTrue == Spec => []ScreenShowsText
<1>1. ScreenInv => ScreenShowsText
  BY DEF ScreenInv, ScreenShowsText, Con!ScreenShowsText
<1>2. QED
  BY InitScreen, NextText, NextScreen, <1>1, PTL DEF Spec

\* After any number of scrolls, and whatever m_buf holds, puts draws on empty
\* ground as long as no store has gone past m_buf: the code draws the lines
\* again without the last one, and what it clears is wide enough because a
\* line as long as that has already been stored past m_buf.
THEOREM LineIsBlank == Spec => []CursorLineBlank
<1>1. ScreenInv => CursorLineBlank
  BY DEF ScreenInv, Placed, CursorLineBlank, Con!CursorLineBlank
<1>2. QED
  BY InitScreen, NextText, NextScreen, <1>1, PTL DEF Spec

\* As long as every line put has fewer characters than the screen has lines,
\* the exchanged indices of lineBreak stay inside m_buf, as do all the others.
THEOREM StaysInBuffer == Spec => []WritesInBuffer
<1>1. ScreenInv => WritesInBuffer
  BY DEF ScreenInv, WritesInBuffer
<1>2. QED
  BY InitScreen, NextText, NextScreen, <1>1, PTL DEF Spec
-----------------------------------------------------------------------------
\* The line.

\* What goes over the line.
Bytes == Chars \union {"return", Con!NewLine, TestByte}

\* The divisor is written behind DLAB, which is off when the test begins.
RateSet ==
    port # "absent" =>
        /\ pc = "setUp" =>
               /\ k <= 2 => ~uart.dlab
               /\ k <= 3 => uart.divisor = <<"low", "high">>
               /\ k = 4 => uart.divisor = <<"0x01", "high">>
               /\ k \in 5 .. 9 => uart.divisor = Rate
               /\ k \in 6 .. 9 => ~uart.dlab
        /\ pc # "setUp" => uart.divisor = Rate /\ ~uart.dlab

\* If the other end is silent, the test byte and nothing else is on its way
\* through the port during the test; none of it is left when loopback mode ends.
Echoed ==
    /\ port \in {"emulated", "hardware"} /\ ~noise =>
           /\ pc = "setUp" /\ k \in 7 .. 9 => uart.rx = <<>>
           /\ pc = "selfTest" => \/ uart.tx = <<TestByte>> /\ uart.rx = <<>>
                                 \/ uart.tx = <<>> /\ uart.rx = <<TestByte>>
           /\ pc = "normalMode" => uart.tx = <<>>
    /\ port = "emulated" => /\ pc = "normalMode" => uart.tx = <<>>
                            /\ Ready /\ ~noise => ~uart.loop

\* What was sent, what is in the FIFO and what is left of the text.
Stream ==
    /\ said \in Seq(Bytes)
    /\ ~Ready => said = <<>>
    /\ Ready /\ Passed => /\ wire \in Seq(Bytes) /\ uart.tx \in Seq(Bytes)
                          /\ wire \o uart.tx \o Unsent = said

WireInv == RateSet /\ Echoed /\ Stream
\* An empty FIFO takes a byte.
LEMMA FirstQueued == ASSUME NEW b PROVE Queued(<<>>, b) = <<b>>
BY SerialAssumption DEF Queued

\* One byte moves from the text to the FIFO.
LEMMA SendOne ==
    ASSUME NEW S, NEW w \in Seq(S), NEW t \in Seq(S), NEW i \in 1 .. Len(t)
    PROVE  /\ w \o <<t[i]>> \o SubSeq(t, i + 1, Len(t))
                  = w \o <<>> \o SubSeq(t, i, Len(t))
           /\ i = Len(t) => w \o <<t[i]>> \o <<>> = w \o <<>> \o SubSeq(t, i, Len(t))
<1> DEFINE rest == SubSeq(t, i + 1, Len(t))
           all == SubSeq(t, i, Len(t))
           one == <<t[i]>>
<1>1. /\ t[i] \in S /\ Len(t) \in Nat /\ one \in Seq(S)
      /\ rest \in Seq(S) /\ all \in Seq(S)
  OBVIOUS
<1>2. one \o rest = all
  BY <1>1, SubSeqRecursiveFirst
<1>3. i = Len(t) => one = all
  OBVIOUS
<1> HIDE DEF one, rest, all
<1>4. (w \o one) \o rest = w \o (one \o rest)
  BY <1>1
<1>5. w \o <<>> = w /\ w \o one \in Seq(S)
  BY <1>1
<1>6. (w \o one) \o <<>> = w \o one
  BY <1>5
<1>7. QED
  BY <1>2, <1>3, <1>4, <1>5, <1>6, Zenon DEF one, rest, all

\* One byte moves from the FIFO to the line.
LEMMA PassOne ==
    ASSUME NEW S, NEW w \in Seq(S), NEW t \in Seq(S), t # <<>>
    PROVE  Append(w, Head(t)) \o Tail(t) = w \o t
OBVIOUS

\* What printk sends.
LEMMA LineBytes ==
    ASSUME NEW t \in Seq(Chars)
    PROVE  Line(t) \in Seq(Bytes) /\ Len(Line(t)) = Len(t) + 2
<1>1. t \in Seq(Bytes)
  BY SeqMonotonic DEF Bytes
<1>2. <<"return", Con!NewLine>> \in Seq(Bytes)
  BY DEF Bytes
<1>3. QED
  BY <1>1, <1>2 DEF Line

\* What is left of it.
LEMMA UnsentBytes == ASSUME TextInv PROVE Unsent \in Seq(Bytes)
<1>1. CASE pc = "serial"
  <2>1. Line(buf) \in Seq(Bytes) /\ k \in 1 .. Len(Line(buf))
    BY <1>1, BufferText, LineBytes DEF TextInv
  <2>2. SubSeq(Line(buf), k, Len(Line(buf))) \in Seq(Bytes)
    BY <2>1
  <2>3. QED
    BY <1>1, <2>2 DEF Unsent
<1>2. CASE pc # "serial"
  BY <1>2 DEF Unsent
<1>3. QED
  BY <1>1, <1>2

\* The firmware leaves some baud rate.
LEMMA InitWire == Init => WireInv
<1>1. SUFFICES ASSUME Init PROVE WireInv
  OBVIOUS
<1>2. /\ pc = "setUp" /\ k = 1 /\ said = <<>>
      /\ uart.divisor = <<"low", "high">> /\ ~uart.dlab
  BY <1>1 DEF Init, SerialInitial
<1>3. <<>> \in Seq(Bytes)
  OBVIOUS
<1>4. QED
  BY <1>2, <1>3 DEF WireInv, RateSet, Echoed, Stream, Ready

\* The nine writes before the test.
LEMMA SetUpWire == ASSUME IInv, WireInv, SetUp PROVE WireInv'
<1> USE DEF IInv, WireInv
<1>1. /\ pc = "setUp" /\ k \in 1 .. 9 /\ uart.tx = <<>> /\ said = <<>>
      /\ port' = port /\ said' = said /\ Len(SetUpWrites) = 9
      /\ pc' = (IF k = 9 THEN "selfTest" ELSE "setUp")
      /\ k' = IF k = 9 THEN 1 ELSE k + 1
      /\ noise' = (noise /\ SetUpWrites[k][1] # 2)
  BY DEF SetUp, SetUpWrite, SetUpWrites, Untouched, Stream, Ready
<1>2. /\ SetUpWrites[1] = <<1, "0x00">> /\ SetUpWrites[2] = <<3, "0x80">>
      /\ SetUpWrites[3] = <<0, "0x01">> /\ SetUpWrites[4] = <<1, "0x00">>
      /\ SetUpWrites[5] = <<3, "0x03">> /\ SetUpWrites[6] = <<2, "0xc7">>
      /\ SetUpWrites[7] = <<4, "0x0b">> /\ SetUpWrites[8] = <<4, "0x1e">>
      /\ SetUpWrites[9] = <<0, TestByte>>
  BY DEF SetUpWrites
<1>3. Stream'
  BY <1>1 DEF Stream, Ready
<1>4. CASE port = "absent"
  BY <1>1, <1>3, <1>4 DEF RateSet, Echoed, Ready
<1>5. CASE port # "absent"
  <2> DEFINE r == SetUpWrites[k][1]
             v == SetUpWrites[k][2]
  <2>1. r \in 0 .. 5
    BY <1>1, <1>2
  <2>2. uart' = Written(uart, r, v)
    BY <1>5, Zenon DEF SetUp, SetUpWrite, Outb
  <2>3. /\ uart'.dlab = (IF r = 3 THEN v = "0x80" ELSE uart.dlab)
        /\ uart'.rx = (IF r = 2 THEN <<>> ELSE uart.rx)
        /\ r = 0 /\ ~uart.dlab => uart'.tx = Queued(uart.tx, v)
        /\ uart'.divisor = Programmed(uart, r, v)
    BY <2>1, <2>2, RegisterWrite
  <2>4. /\ k \in {1, 4} => r = 1 /\ v = "0x00"
        /\ k = 2 => r = 3 /\ v = "0x80"
        /\ k = 3 => r = 0 /\ v = "0x01"
        /\ k = 5 => r = 3 /\ v = "0x03"
        /\ k = 6 => r = 2
        /\ k \in {7, 8} => r = 4
        /\ k = 9 => r = 0 /\ v = TestByte
        /\ r = 2 <=> k = 6
    BY <1>1, <1>2
  <2>8. noise' = (noise /\ r # 2)
    BY <1>1, Zenon
  <2> HIDE DEF r, v
  <2>5. RateSet'
    <3>1. k \in {1, 2} => uart'.divisor = <<"low", "high">>
      BY <1>1, <1>5, <2>3, <2>4 DEF RateSet, Programmed
    <3>6. k = 1 => ~uart'.dlab
      BY <1>1, <1>5, <2>3, <2>4 DEF RateSet
    <3>2. k = 3 => uart'.divisor = <<"0x01", "high">>
      BY <1>1, <1>5, <2>3, <2>4 DEF RateSet, Untouched, Programmed
    <3>3. k = 4 => uart'.divisor = Rate
      BY <1>1, <1>5, <2>3, <2>4 DEF RateSet, Untouched, Programmed, Rate
    <3>4. k \in 5 .. 9 => uart'.divisor = Rate /\ ~uart'.dlab
      <4>1. CASE k = 5
        BY <1>1, <1>5, <2>3, <2>4, <4>1 DEF RateSet, Programmed
      <4>2. CASE k \in 6 .. 9
        BY <1>1, <1>5, <2>3, <2>4, <4>2 DEF RateSet, Programmed
      <4>3. QED
        BY <4>1, <4>2
    <3>5. QED
      BY <1>1, <3>1, <3>2, <3>3, <3>4, <3>6 DEF RateSet
  <2>6. Echoed'
    <3>1. CASE k < 6
      BY <1>1, <3>1 DEF Echoed, Ready
    <3>2. CASE k = 6
      <4>1. uart'.rx = <<>>
        BY <2>3, <2>4, <3>2
      <4>2. QED
        BY <1>1, <3>2, <4>1 DEF Echoed, Ready
    <3>5. CASE k \in {7, 8}
      <4>1. r = 4
        BY <2>4, <3>5
      <4>2. uart'.rx = uart.rx /\ (~noise' => ~noise)
        BY <2>3, <2>4, <2>8, <3>5, <4>1
      <4>3. QED
        BY <1>1, <3>5, <4>2 DEF Echoed, Ready
    <3>3. CASE k = 9
      <4>1. uart'.tx = <<TestByte>>
        BY <1>1, <1>5, <2>3, <2>4, <3>3, FirstQueued DEF RateSet
      <4>2. uart'.rx = uart.rx /\ (~noise' => ~noise)
        BY <2>3, <2>4, <2>8, <3>3
      <4>3. QED
        BY <1>1, <3>3, <4>1, <4>2 DEF Echoed, Ready
    <3>4. QED
      BY <1>1, <3>1, <3>2, <3>3, <3>5
  <2>7. QED
    BY <1>3, <2>5, <2>6
<1>6. QED
  BY <1>4, <1>5

\* A sound port that answers in time passes, and nothing is left of the test.
LEMMA TestWire == ASSUME IInv, WireInv, Test PROVE WireInv'
<1> USE DEF IInv, WireInv
<1>1. /\ pc = "selfTest" /\ pc' = (IF TestPassed THEN "normalMode" ELSE "kernel")
      /\ port' = port /\ noise' = noise /\ said' = said
      /\ uart'.loop = uart.loop /\ uart'.tx = uart.tx
      /\ uart'.divisor = uart.divisor /\ uart'.dlab = uart.dlab
      /\ port = "emulated" /\ uart.loop => uart.tx = <<>>
  BY DEF Test, SelfTest, Settled, IsUart, Uart
<1>2. port = "absent" \/ uart.loop
  BY <1>1 DEF Untouched
<1>3. port = "emulated" => uart.tx = <<>>
  BY <1>1, <1>2
<1>4. port = "emulated" /\ ~noise => TestPassed
  <2>1. SUFFICES ASSUME port = "emulated", ~noise PROVE Received = TestByte
    BY DEF TestPassed
  <2>2. uart.tx = <<>> /\ <<TestByte>> # <<>>
    BY <1>3, <2>1
  <2>3. uart.rx = <<TestByte>>
    BY <1>1, <2>1, <2>2 DEF Echoed
  <2>4. QED
    BY <2>1, <2>3 DEF Received
<1>5. port = "hardware" /\ ~noise /\ TestPassed => uart.tx = <<>>
  BY <1>1 DEF Echoed, TestPassed, Received, TestByte
<1>6. Ready' => ~Passed'
  BY <1>1, <1>2, <1>4 DEF Ready, Passed
<1>7. RateSet'
  BY <1>1 DEF RateSet
<1>8. Echoed'
  BY <1>1, <1>3, <1>4, <1>5 DEF Echoed, Ready
<1>9. Stream'
  BY <1>1, <1>6 DEF Stream, Ready
<1>10. QED
  BY <1>7, <1>8, <1>9

\* printk finds the port empty.
LEMMA NormalModeWire == ASSUME IInv, WireInv, EnterNormalMode PROVE WireInv'
<1> USE DEF IInv, WireInv
<1>1. /\ pc = "normalMode" /\ pc' = "kernel" /\ said = <<>> /\ said' = said
      /\ port' = port /\ wire' = wire /\ noise' = noise /\ wire = <<>>
  BY DEF EnterNormalMode, NormalMode, Untouched, Stream, Ready
<1>2. CASE port = "absent"
  BY <1>1, <1>2 DEF RateSet, Echoed, Stream, Ready, Passed
<1>3. CASE port # "absent"
  <2> DEFINE v == "0x0f"
  <2>1. uart' = Written(uart, 4, v)
    BY <1>3, Zenon DEF EnterNormalMode, NormalMode, Outb
  <2>2. v # "0x1e"
    OBVIOUS
  <2> HIDE DEF v
  <2>3. /\ uart'.loop = (v = "0x1e") /\ uart'.dlab = uart.dlab
        /\ uart'.tx = uart.tx /\ uart'.divisor = Programmed(uart, 4, v)
    BY <2>1, RegisterWrite
  <2>9. ~uart'.loop
    BY <2>2, <2>3
  <2>8. uart'.divisor = uart.divisor
    BY <2>3 DEF Programmed
  <2>4. Passed' => uart'.tx = <<>>
    BY <1>1, <2>3, <2>9 DEF Passed, Echoed
  <2>5. wire' = <<>> /\ <<>> \in Seq(Bytes) /\ <<>> \o <<>> \o <<>> = <<>>
    BY <1>1
  <2>6. Stream'
    BY <1>1, <2>4, <2>5 DEF Stream, Unsent, Ready
  <2>7. QED
    BY <1>1, <1>3, <2>3, <2>6, <2>8, <2>9 DEF RateSet, Echoed, Ready
<1>4. QED
  BY <1>2, <1>3

\* A character goes from the text to the empty FIFO.
LEMMA PutStringWire ==
    ASSUME IInv, TextInv, WireInv, PutString
    PROVE  WireInv'
<1> USE DEF IInv, WireInv
<1> DEFINE t == Line(buf)
<1>1. /\ pc = "serial" /\ pc' = (IF k = Len(t) THEN "console" ELSE "serial")
      /\ k # Len(t) => k' = k + 1
      /\ buf' = buf /\ said' = said
      /\ port' = port /\ wire' = wire /\ noise' = noise
      /\ port = "absent" \/ uart.tx = <<>>
  BY DEF PutString, SerialPutChar, IsTransmitEmpty
<1>2. t \in Seq(Bytes) /\ k \in 1 .. Len(t)
  BY <1>1, BufferText, LineBytes DEF TextInv
<1>3. CASE port = "absent"
  BY <1>1, <1>3 DEF RateSet, Echoed, Stream, Ready, Passed
<1>4. CASE port # "absent"
  <2>1. uart' = Written(uart, 0, t[k])
    BY <1>4, Zenon DEF PutString, SerialPutChar, Outb
  <2>2. ~uart.dlab
    BY <1>1, <1>4 DEF RateSet
  <2>3. /\ uart'.loop = uart.loop /\ uart'.dlab = uart.dlab
        /\ uart'.tx = Queued(uart.tx, t[k])
        /\ uart'.divisor = Programmed(uart, 0, t[k])
    BY <2>1, <2>2, RegisterWrite
  <2>4. uart'.divisor = uart.divisor
    BY <2>2, <2>3 DEF Programmed
  <2>5. uart'.tx = <<t[k]>>
    BY <1>1, <1>4, <2>3, FirstQueued
  <2>6. Unsent = SubSeq(t, k, Len(t))
    BY <1>1 DEF Unsent
  <2>7. Unsent' = IF k = Len(t) THEN <<>> ELSE SubSeq(t, k + 1, Len(t))
    BY <1>1 DEF Unsent
  <2>8. Passed' = Passed
    BY <1>1, <2>3 DEF Passed
  <2>9. ASSUME Passed
        PROVE  /\ wire \in Seq(Bytes) /\ uart'.tx \in Seq(Bytes)
               /\ wire \o uart'.tx \o Unsent' = said
    <3>1. wire \in Seq(Bytes) /\ wire \o <<>> \o Unsent = said
      BY <1>1, <1>4, <2>9 DEF Stream, Ready
    <3>2. <<t[k]>> \in Seq(Bytes)
      BY <1>2
    <3> HIDE DEF t
    <3>3. wire \o <<t[k]>> \o Unsent' = wire \o <<>> \o SubSeq(t, k, Len(t))
      BY <1>2, <2>7, <3>1, SendOne
    <3>4. QED
      BY <2>5, <2>6, <3>1, <3>2, <3>3
  <2>10. Stream'
    BY <1>1, <2>8, <2>9 DEF Stream, Ready
  <2>11. QED
    BY <1>1, <2>3, <2>4, <2>10 DEF RateSet, Echoed, Ready
<1>5. QED
  BY <1>3, <1>4

\* A call adds a text.
LEMMA CallWire ==
    ASSUME WireInv, NEW t \in Texts, CallPrintk(t)
    PROVE  WireInv'
<1> USE DEF WireInv
<1>1. /\ pc = "kernel" /\ pc' = "serial" /\ k' = 1 /\ said' = said \o Line(buf')
      /\ uart' = uart /\ port' = port /\ wire' = wire /\ noise' = noise
  BY DEF CallPrintk, serial
<1>2. buf' \in Seq(Chars)
  BY FormattedText DEF CallPrintk
<1>3. Line(buf') \in Seq(Bytes)
  BY <1>2, LineBytes
<1>4. Unsent = <<>> /\ Unsent' = Line(buf')
  BY <1>1, <1>3, SubSeqFull DEF Unsent
<1>5. said \in Seq(Bytes)
  BY DEF Stream
<1>6. said' \in Seq(Bytes)
  BY <1>1, <1>3, <1>5
<1>7. Ready /\ Ready' /\ Passed' = Passed
  BY <1>1 DEF Ready, Passed
<1>8. ASSUME Passed
      PROVE  wire \o uart.tx \o Unsent' = said'
  <2>1. wire \in Seq(Bytes) /\ uart.tx \in Seq(Bytes) /\ wire \o uart.tx \o <<>> = said
    BY <1>4, <1>7, <1>8 DEF Stream
  <2>2. wire \o uart.tx \in Seq(Bytes)
    BY <2>1
  <2>3. wire \o uart.tx = said
    BY <2>1, <2>2, ConcatEmptySeq
  <2>4. QED
    BY <1>1, <1>4, <2>3
<1>9. Stream'
  BY <1>1, <1>6, <1>7, <1>8 DEF Stream
<1>10. QED
  BY <1>1, <1>9 DEF RateSet, Echoed, Ready

\* The byte comes back, or goes over the line.
LEMMA TransmitWire ==
    ASSUME IInv, TextInv, WireInv, Transmit, UNCHANGED <<pc, k, buf, said>>
    PROVE  WireInv'
<1> USE DEF IInv, WireInv
<1>1. /\ port' = port /\ noise' = noise /\ uart.tx # <<>>
      /\ uart'.loop = uart.loop /\ uart'.dlab = uart.dlab
      /\ uart'.divisor = uart.divisor /\ uart'.tx = Tail(uart.tx)
  BY DEF Transmit, IsUart, Uart
<1>2. RateSet'
  BY <1>1 DEF RateSet
<1>3. Echoed'
  <2>1. CASE pc = "selfTest" /\ port \in {"emulated", "hardware"} /\ ~noise
    <3>1. uart.loop /\ uart.tx = <<TestByte>> /\ uart.rx = <<>>
      BY <1>1, <2>1 DEF Untouched, Echoed
    <3>5. Head(uart.tx) = TestByte /\ port # "garbling"
      BY <2>1, <3>1
    <3>2. uart'.rx = Queued(uart.rx, TestByte)
      BY <3>1, <3>5 DEF Transmit, IsUart, Uart
    <3>3. uart'.tx = <<>> /\ uart'.rx = <<TestByte>>
      BY <1>1, <3>1, <3>2, FirstQueued
    <3>4. QED
      BY <1>1, <2>1, <3>3 DEF Echoed, Ready
  <2>2. CASE ~(pc = "selfTest" /\ port \in {"emulated", "hardware"} /\ ~noise)
    BY <1>1, <2>2 DEF Echoed, Untouched, Ready
  <2>3. QED
    BY <2>1, <2>2
<1>4. Stream'
  <2>1. Ready' = Ready /\ Passed' = Passed /\ Unsent' = Unsent
    BY <1>1 DEF Ready, Passed, Unsent
  <2>2. ASSUME Ready, Passed
        PROVE  /\ wire' \in Seq(Bytes) /\ uart'.tx \in Seq(Bytes)
               /\ wire' \o uart'.tx \o Unsent' = said'
    <3>1. /\ ~uart.loop /\ uart.divisor = Rate /\ port # "garbling"
      BY <2>2 DEF Passed, Echoed, RateSet, Ready
    <3>2. wire' = Append(wire, Head(uart.tx))
      BY <3>1 DEF Transmit
    <3>3. /\ wire \in Seq(Bytes) /\ uart.tx \in Seq(Bytes)
          /\ wire \o uart.tx \o Unsent = said
      BY <2>2 DEF Stream
    <3>4. Unsent \in Seq(Bytes)
      BY UnsentBytes
    <3>5. uart'.tx \in Seq(Bytes) /\ wire' \in Seq(Bytes)
      BY <1>1, <3>2, <3>3
    <3>6. Append(wire, Head(uart.tx)) \o Tail(uart.tx) \o Unsent
              = wire \o uart.tx \o Unsent
      <4>1. uart.tx # <<>>
        BY <1>1
      <4>2. Append(wire, Head(uart.tx)) \o Tail(uart.tx) = wire \o uart.tx
        BY <3>3, <4>1, PassOne
      <4>3. QED
        BY <4>2
    <3>7. QED
      BY <1>1, <2>1, <3>2, <3>3, <3>5, <3>6
  <2>3. QED
    BY <2>1, <2>2 DEF Stream
<1>5. QED
  BY <1>2, <1>3, <1>4

\* The other end speaks.
LEMMA NoiseWire ==
    ASSUME WireInv, Noise, ~Ready, UNCHANGED <<pc, k, buf, said>>
    PROVE  WireInv'
<1>1. /\ port' = port /\ noise' = TRUE /\ uart'.tx = uart.tx
      /\ uart'.divisor = uart.divisor /\ uart'.dlab = uart.dlab
  BY DEF Noise, IsUart, Uart
<1>2. QED
  BY <1>1 DEF WireInv, RateSet, Echoed, Stream, Ready

\* Nothing of a text is lost in any step.
LEMMA NextWire == ASSUME IInv, TextInv, WireInv, [Next]_vars PROVE WireInv'
<1>1. CASE UNCHANGED vars
  BY <1>1 DEF vars, serial, WireInv, RateSet, Echoed, Stream, Ready, Passed, Unsent
<1>2. CASE SetUp \/ Test \/ EnterNormalMode \/ PutString
  BY <1>2, SetUpWire, TestWire, NormalModeWire, PutStringWire
<1>3. CASE Puts
  <2>1. /\ pc = "console" /\ pc' \in {"console", "kernel"}
        /\ UNCHANGED <<port, uart, wire, noise, said>>
    BY <1>3 DEF Puts, serial
  <2>2. Unsent = <<>> /\ Unsent' = <<>>
    BY <2>1 DEF Unsent
  <2>3. QED
    BY <2>1, <2>2 DEF WireInv, RateSet, Echoed, Stream, Ready, Passed
<1>4. CASE \E t \in Texts : CallPrintk(t)
  BY <1>4, CallWire
<1>5. CASE Device
  BY <1>5, TransmitWire, NoiseWire DEF Device
<1>6. QED
  BY <1>1, <1>2, <1>3, <1>4, <1>5 DEF Next, Driver

\* A port that passed its test carries every byte of every text in order:
\* polling the transmitter keeps the FIFO from overflowing, and of the test
\* nothing reaches the line, for every depth of the FIFOs and every text.
THEOREM NothingIsLost == Spec => []WireShowsText
<1>1. WireInv => WireShowsText
  BY DEF WireInv, Stream, WireShowsText
<1>2. QED
  BY InitInv, NextInv, InitScreen, NextText, InitWire, NextWire, <1>1, PTL DEF Spec
=============================================================================
