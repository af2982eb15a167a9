------------------------------- MODULE Serial -------------------------------
(***************************************************************************)
(* The serial port driver (kernel/serial/serial.cpp) and the 16550 UART it *)
(* programs.  The UART is outside the repository; it is modelled by what   *)
(* the driver writes to it and reads from it.                              *)
(***************************************************************************)
EXTENDS Integers, SequencesExt

CONSTANTS Fifo,   \* depth of the UART's FIFOs (16 in a 16550)
          Ports   \* the kinds of port, see PortKinds

\* emulated: in loopback mode a byte is back before the next instruction, on
\* the line it takes time; hardware: both take time; garbling: it transmits,
\* and echoes, the wrong byte; stuck: it never transmits; absent: every read
\* gives 0xff.
PortKinds == {"emulated", "hardware", "garbling", "stuck", "absent"}

ASSUME SerialAssumption == Fifo \in Nat \ {0} /\ Ports \subseteq PortKinds

VARIABLES port,  \* the kind of the port, which never changes
          uart,  \* its registers and FIFOs
          wire,  \* every byte it has put on the line
          noise  \* did the other end send after the FIFOs were cleared

TestByte == "0xae"
Garbage == "garbage"

serial == <<port, uart, wire, noise>>

\* The firmware may leave a received byte behind, and some baud rate.
SerialInitial ==
    /\ port \in Ports
    /\ uart \in [dlab : {FALSE}, divisor : {<<"low", "high">>}, loop : {FALSE},
                 tx : {<<>>}, rx : {<<>>, <<TestByte>>, <<Garbage>>}]
    /\ wire = <<>> /\ noise = FALSE

\* A byte goes into a FIFO, or is lost when that is full.
Queued(fifo, b) == IF Len(fifo) < Fifo THEN Append(fifo, b) ELSE fifo

\* outb(port + r, v).
Written(u, r, v) ==
    CASE r = 0 /\ u.dlab  -> [u EXCEPT !.divisor[1] = v]
      [] r = 1 /\ u.dlab  -> [u EXCEPT !.divisor[2] = v]
      [] r = 0 /\ ~u.dlab -> [u EXCEPT !.tx = Queued(@, v)]
      [] r = 2            -> [u EXCEPT !.tx = <<>>, !.rx = <<>>]
      [] r = 3            -> [u EXCEPT !.dlab = v = "0x80"]
      [] r = 4            -> [u EXCEPT !.loop = v = "0x1e"]
      [] OTHER            -> u

Outb(r, v) == uart' = IF port = "absent" THEN uart ELSE Written(uart, r, v)

\* inb(port + 0); nothing received reads as zero.
Received == IF port = "absent" THEN "0xff"
            ELSE IF uart.rx = <<>> THEN "0x00" ELSE Head(uart.rx)

\* The CPU executes its next instruction after an emulated echo.
Settled == port = "emulated" /\ uart.loop => uart.tx = <<>>
-----------------------------------------------------------------------------
\* serialInit: nine writes, the test, and the tenth write.

\* Mutant: the FIFOs are enabled but not cleared.
SetUpWritesUncleared ==
    <<<<1, "0x00">>, <<3, "0x80">>, <<0, "0x01">>, <<1, "0x00">>, <<3, "0x03">>,
      <<5, "0xc1">>, <<4, "0x0b">>, <<4, "0x1e">>, <<0, TestByte>>>>

SetUpWrites ==
    <<<<1, "0x00">>, <<3, "0x80">>, <<0, "0x01">>, <<1, "0x00">>, <<3, "0x03">>,
      <<2, "0xc7">>, <<4, "0x0b">>, <<4, "0x1e">>, <<0, TestByte>>>>

SetUpWrite(k) ==
    /\ Settled /\ Outb(SetUpWrites[k][1], SetUpWrites[k][2])
    /\ noise' = (noise /\ SetUpWrites[k][1] # 2)
    /\ UNCHANGED <<port, wire>>

\* Mutant: the echo is read but not compared.
TestPassedAlways == TRUE

TestPassed == Received = TestByte

\* The echo is read at once: data ready is not waited for.
SelfTest ==
    /\ Settled
    /\ uart' = IF port = "absent" \/ uart.rx = <<>> THEN uart
               ELSE [uart EXCEPT !.rx = Tail(@)]
    /\ UNCHANGED <<port, wire, noise>>

NormalMode == Settled /\ Outb(4, "0x0f") /\ UNCHANGED <<port, wire, noise>>

\* Mutant: the character is written without looking at the line status.
IsTransmitEmptyIgnored == TRUE

\* Mutant: the test of the bit is the wrong way round.
IsTransmitEmptyInverted == port # "absent" /\ uart.tx # <<>>

IsTransmitEmpty == port = "absent" \/ uart.tx = <<>>

\* serialPutChar: the loop is the wait for its condition.
SerialPutChar(ch) ==
    /\ Settled /\ IsTransmitEmpty /\ Outb(0, ch)
    /\ UNCHANGED <<port, wire, noise>>
-----------------------------------------------------------------------------
\* The UART and the other end of the line.

\* In loopback mode the byte comes back and the line stays silent.  The other
\* end reads 115200 baud.
Rate == <<"0x01", "0x00">>

Transmit ==
    /\ port # "stuck" /\ uart.tx # <<>>
    /\ LET b == IF port = "garbling" \/ (~uart.loop /\ uart.divisor # Rate)
                THEN Garbage ELSE Head(uart.tx)
       IN  IF uart.loop
           THEN /\ uart' = [uart EXCEPT !.tx = Tail(@), !.rx = Queued(@, b)]
                /\ UNCHANGED wire
           ELSE /\ uart' = [uart EXCEPT !.tx = Tail(@)]
                /\ wire' = Append(wire, b)
    /\ UNCHANGED <<port, noise>>

\* The other end sends a byte, any byte; loopback mode cuts it off.
Noise ==
    /\ port \notin {"stuck", "absent"} /\ ~uart.loop /\ ~noise
    /\ \E b \in {TestByte, Garbage} : uart' = [uart EXCEPT !.rx = Queued(@, b)]
    /\ noise' = TRUE
    /\ UNCHANGED <<port, wire>>
=============================================================================
