------------------------------- MODULE Printk -------------------------------
(***************************************************************************)
(* The kernel's output: serialInit at the start of kernelMain, then printk *)
(* (kernel/main.cpp), which sends every text to the serial port, polling,  *)
(* and then to the console.  Composes Serial and Console.                  *)
(***************************************************************************)
EXTENDS Serial

CONSTANTS ConsoleRow, ConsoleColumn, Texts, Wild, MaxLines,  \* see Console
          BufSiz                                             \* BUF_SIZ


VARIABLES con, screen, lines,  \* see Console
          pc,    \* what kernelMain or printk does next
          k,     \* the next write of serialInit, or character of the line
          buf,   \* printk's buffer
          said   \* every byte that printk has to send (history)

vars == <<serial, con, screen, lines, pc, k, buf, said>>

Con == INSTANCE Console WITH text <- buf, index <- k

ASSUME PrintkAssumption == BufSiz \in Nat \ {0} /\ Con!ConsoleConstants

Init == /\ SerialInitial /\ Con!ConsoleInitial
        /\ pc = "setUp" /\ k = 1 /\ buf = <<>> /\ said = <<>>
-----------------------------------------------------------------------------
SetUp ==
    /\ pc = "setUp" /\ SetUpWrite(k)
    /\ IF k = Len(SetUpWrites) THEN pc' = "selfTest" /\ k' = 1
                               ELSE k' = k + 1 /\ UNCHANGED pc
    /\ UNCHANGED <<con, screen, lines, buf, said>>

\* kernelMain does nothing about a failed test: Halt is commented out.
Test ==
    /\ pc = "selfTest" /\ SelfTest
    /\ pc' = IF TestPassed THEN "normalMode" ELSE "kernel"
    /\ UNCHANGED <<con, screen, lines, k, buf, said>>

EnterNormalMode ==
    /\ pc = "normalMode" /\ NormalMode /\ pc' = "kernel"
    /\ UNCHANGED <<con, screen, lines, k, buf, said>>

\* vsnprintf keeps BUF_SIZ - 1 characters.
Formatted(t) == SubSeq(t, 1, IF Len(t) < BufSiz THEN Len(t) ELSE BufSiz - 1)

\* The two serialPutString: the buffer, then CR and LF.
Line(t) == t \o <<"return", Con!NewLine>>

CallPrintk(t) ==
    /\ pc = "kernel" /\ pc' = "serial" /\ k' = 1
    /\ buf' = Formatted(t) /\ Con!Room(buf')
    /\ said' = said \o Line(buf')
    /\ UNCHANGED <<serial, con, screen, lines>>

PutString ==
    /\ pc = "serial" /\ SerialPutChar(Line(buf)[k])
    /\ IF k = Len(Line(buf)) THEN pc' = "console" /\ k' = 1
                             ELSE k' = k + 1 /\ UNCHANGED pc
    /\ UNCHANGED <<con, screen, lines, buf, said>>

Puts ==
    /\ pc = "console"
    /\ \/ (Con!PutChar \/ Con!PutBreak) /\ UNCHANGED pc
       \/ Con!Return /\ pc' = "kernel"
    /\ UNCHANGED <<serial, said>>

Driver == SetUp \/ Test \/ EnterNormalMode \/ PutString \/ Puts

Ready == pc \notin {"setUp", "selfTest", "normalMode"}

\* What the other end sends later is never read: nothing calls serialGetChar.
Device == /\ Transmit \/ (~Ready /\ Noise)
          /\ UNCHANGED <<con, screen, lines, pc, k, buf, said>>

Next == Driver \/ (\E t \in Texts : CallPrintk(t)) \/ Device

Spec == Init /\ [][Next]_vars

\* The CPU goes on with serialInit and printk and the transmitter drains; nothing
\* says that the kernel prints again or that the other end sends.
FairSpec ==
    /\ Spec
    /\ WF_vars(Driver)
    /\ WF_vars(Transmit /\ UNCHANGED <<con, screen, lines, pc, k, buf, said>>)
-----------------------------------------------------------------------------
\* The line carries every byte of every text, with CR and LF after it, in the
\* order of the calls: together with the FIFO and the rest of the text being
\* sent that is all of it, nothing is lost and no set-up byte gets out.  So it
\* is if the port's echo comes in time ("if serial is not faulty set it in
\* normal operation mode", serial.cpp:22), unless the other end spoke between
\* FIFO reset and test, and if a sound port passed its test although it takes
\* time.
Passed == \/ port = "emulated" /\ (noise => ~uart.loop)
          \/ port = "hardware" /\ ~noise /\ ~uart.loop

Unsent ==
    IF pc = "serial" THEN SubSeq(Line(buf), k, Len(Line(buf))) ELSE <<>>

WireShowsText == Ready /\ Passed => wire \o uart.tx \o Unsent = said

\* A port that fails its test stays silent, whatever printk sends to it: a
\* garbling one, and a sound one that was not given the time to answer.  (A
\* byte from the other end that equals the test byte can let it pass.)
FailedSilent ==
    ~noise /\ (port = "garbling" \/ uart.loop) => wire = <<>>

\* serialInit and every printk end whatever the port is, as long as its
\* transmitter drains or there is none: a failed test, which kernelMain
\* ignores, does not make a later printk wait for ever.
PastThePort ==
    port # "stuck" => (pc # "kernel" ~> pc = "kernel")

\* See Console.
WritesInBuffer == Con!WritesInBuffer
ScreenShowsText == Con!ScreenShowsText
CursorLineBlank == Con!CursorLineBlank
=============================================================================
