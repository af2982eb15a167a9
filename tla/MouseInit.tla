----------------------------- MODULE MouseInit -----------------------------
(***************************************************************************)
(* MousePS2::reset and MousePS2::setSampleRate: the polled dialogue of the *)
(* CPU with the 8042 controller and, behind it, the mouse, which kernelMain *)
(* runs before it enables interrupts.  The code is a straight line of port *)
(* operations, so it is modelled as the sequence Program of operations and *)
(* one action per kind of operation.                                       *)
(***************************************************************************)
EXTENDS Naturals, Sequences, FiniteSets, SequencesExt

CONSTANTS Configs,     \* controller configurations the firmware may leave
          Leftover,    \* bytes it may leave in the data port, read or not
          Unread,      \* what the mouse may still have to send from before
          Movements,   \* the three bytes of a packet, as the user may cause them
          KeyBytes,    \* what the keyboard may send
          MaxPackets, MaxKeys  \* bounds: packets and key bytes

\* A byte is the set of the numbers of its bits.  The mouse acknowledges with
\* FA and ends a reset with AA and its ID, 00.
Values == SUBSET (0 .. 7)
Ack == {1, 3, 4, 5, 6, 7}
EndOfReset == {1, 3, 5, 7}
MouseId == {}

\* Where a byte in the output buffer comes from: the kernel cannot tell.
Byte(from, value) == [from |-> from, value |-> value]
MouseSent == [from : {"answer", "move", "left"}, value : Values]

\* Bit 7 of the configuration is reserved and 0.
ASSUME MouseInitAssumption ==
    /\ Configs \subseteq SUBSET (0 .. 6) /\ Leftover \subseteq Values
    /\ Unread \subseteq Seq(MouseSent) /\ Movements \subseteq [1 .. 3 -> Values]
    /\ KeyBytes \subseteq Values /\ MaxPackets \in Nat /\ MaxKeys \in Nat

VARIABLES emulated,    \* an emulator: controller and mouse react before the
                       \*   CPU's next port access
          pc,          \* index in Program of the next operation
          statusByte,  \* the local variable of reset
          input,       \* the 8042 input buffer; full is the IBF flag
          route,       \* where the next data byte goes
          wire,        \* the byte the controller is sending to the mouse, or "none"
          reply,       \* the controller's report, <<>> or <<configuration>>
          config,      \* the controller's configuration
          ob,          \* the 8042 output buffer; full is the OBF flag
          out,         \* bytes the mouse has ready for the controller
          streaming,   \* the mouse reports movements
          accepted,    \* bytes the mouse has accepted from the kernel
          packets, keys,  \* packets and key bytes sent so far
          config0,     \* the configuration the firmware left
          disturbed    \* history: a byte has been sent that is no answer but
                       \*   looks like the one the kernel is to wait for next

controller == <<input, route, wire, reply, config, ob>>
device == <<out, streaming, accepted, packets, keys, disturbed>>
machine == <<emulated, config0>>
vars == <<pc, statusByte, controller, device, machine>>
-----------------------------------------------------------------------------
\* The operations of mouse.cpp.

WaitToWrite == <<[op |-> "waitToWrite", arg |-> "none"]>>
WaitToRead == <<[op |-> "waitToRead", arg |-> "none"]>>
OutCommand(c) == <<[op |-> "outCommand", arg |-> c]>>
OutData(d) == <<[op |-> "outData", arg |-> d]>>
ReadUntil(b) == <<[op |-> "readUntil", arg |-> b]>>
ReadStatusByte == <<[op |-> "readStatusByte", arg |-> "none"]>>

\* Mutant: the byte is sent without the prefix that routes it to the mouse.
SendToMouseUnrouted(d) == WaitToWrite \o OutData(d)

SendToMouse(d) ==
    WaitToWrite \o OutCommand("D4") \o WaitToWrite \o OutData(d)

Reset ==
    SendToMouse("FF") \o ReadUntil("AA")
    \o WaitToWrite \o OutCommand("20") \o WaitToRead \o ReadStatusByte
    \o WaitToWrite \o OutCommand("60") \o WaitToWrite \o OutData("statusByte")
    \o SendToMouse("F4") \o WaitToWrite \o ReadUntil("FA")

\* Mutant: each byte is sent after its wait instead of before it.
SetSampleRateWaitFirst ==
    WaitToWrite \o ReadUntil("FA") \o SendToMouse("F3")
    \o WaitToWrite \o ReadUntil("FA") \o SendToMouse("40")

\* Mutant: nobody waits for the answer to the sample rate itself.
SetSampleRateNoWait ==
    SendToMouse("F3") \o WaitToWrite \o ReadUntil("FA") \o SendToMouse("40")

SetSampleRate ==
    SendToMouse("F3") \o WaitToWrite \o ReadUntil("FA")
    \o SendToMouse("40") \o WaitToWrite \o ReadUntil("FA")

Program == Reset \o SetSampleRate
Done == Len(Program) + 1

\* What a wait for the byte of that name waits for, and what the program at p
\* waits for next.
Expected(name) == IF name = "AA" THEN EndOfReset ELSE Ack
ExpectedNext(p) == Expected(IF p <= Len(SendToMouse("FF")) + 1 THEN "AA" ELSE "FA")
-----------------------------------------------------------------------------
\* The firmware may leave bytes that nobody has read: reset drains nothing.
Init ==
    /\ emulated \in BOOLEAN
    /\ pc = 1 /\ statusByte = {}
    /\ input = [full |-> FALSE, command |-> FALSE, byte |-> "none"]
    /\ route = "keyboard" /\ wire = "none" /\ reply = <<>>
    /\ config0 \in Configs /\ config = config0
    /\ \E b \in Leftover, f \in BOOLEAN : ob = [full |-> f, byte |-> Byte("left", b)]
    /\ out \in Unread /\ streaming \in BOOLEAN
    /\ accepted = <<>> /\ packets = 0 /\ keys = 0
    /\ disturbed = \/ ob.byte.value = EndOfReset
                   \/ \E k \in DOMAIN out : out[k].value = EndOfReset

\* The controller or the mouse has something to do at once.
CanReact ==
    \/ input.full \/ wire # "none"
    \/ ~ob.full /\ (reply # <<>> \/ (out # <<>> /\ 5 \notin config))

\* The next operation of the program is o, and it may access a port.
At(o) ==
    /\ pc < Done /\ Program[pc].op = o
    /\ emulated => ~CanReact

\* waitToWrite and waitToRead leave their loops when the flag allows it.
WaitWrite ==
    /\ At("waitToWrite") /\ ~input.full /\ pc' = pc + 1
    /\ UNCHANGED <<statusByte, controller, device, machine>>

WaitRead ==
    /\ At("waitToRead") /\ ob.full /\ pc' = pc + 1
    /\ UNCHANGED <<statusByte, controller, device, machine>>

\* outb to port 0x64 and to port 0x60.
WriteCommand ==
    /\ At("outCommand") /\ pc' = pc + 1
    /\ input' = [full |-> TRUE, command |-> TRUE, byte |-> Program[pc].arg]
    /\ UNCHANGED <<statusByte, route, wire, reply, config, ob, device, machine>>

WriteData ==
    /\ At("outData") /\ pc' = pc + 1
    /\ input' = [full |-> TRUE, command |-> FALSE, byte |-> Program[pc].arg]
    /\ UNCHANGED <<statusByte, route, wire, reply, config, ob, device, machine>>

\* Mutant: any byte ends the loop.
ReadAny ==
    /\ At("readUntil") /\ ob' = [ob EXCEPT !.full = FALSE] /\ pc' = pc + 1
    /\ UNCHANGED <<statusByte, input, route, wire, reply, config, device, machine>>

\* One turn of while (inb(IO_REGISTER) != b): the port is read whether or
\* not a byte is there, and then returns the last one again.
ReadTurn ==
    /\ At("readUntil")
    /\ ob' = [ob EXCEPT !.full = FALSE]
    /\ pc' = IF ob.byte.value = Expected(Program[pc].arg) THEN pc + 1 ELSE pc
    /\ UNCHANGED <<statusByte, input, route, wire, reply, config, device, machine>>

\* Mutant: the bit of the mouse clock is not cleared.
ReadStatusClockOff ==
    /\ At("readStatusByte") /\ pc' = pc + 1
    /\ ob' = [ob EXCEPT !.full = FALSE]
    /\ statusByte' = ob.byte.value \union {1}
    /\ UNCHANGED <<input, route, wire, reply, config, device, machine>>

\* statusByte |= 0b10; statusByte &= ~(1 << 5).
ReadStatus ==
    /\ At("readStatusByte") /\ pc' = pc + 1
    /\ ob' = [ob EXCEPT !.full = FALSE]
    /\ statusByte' = (ob.byte.value \union {1}) \ {5}
    /\ UNCHANGED <<input, route, wire, reply, config, device, machine>>

Kernel == \/ WaitWrite \/ WaitRead \/ WriteCommand \/ WriteData
          \/ ReadTurn \/ ReadStatus
-----------------------------------------------------------------------------
\* The controller executes what is in its input buffer, unless it is busy
\* sending a byte to the mouse.

Ready == input.full /\ wire = "none"

TakeCommand ==
    /\ Ready /\ input.command
    /\ input' = [input EXCEPT !.full = FALSE]
    /\ route' = CASE input.byte = "D4" -> "mouse"
                  [] input.byte = "60" -> "config"
                  [] OTHER -> "keyboard"
    /\ reply' = IF input.byte = "20" THEN <<config>> ELSE reply
    /\ UNCHANGED <<pc, statusByte, wire, config, ob, device, machine>>

TakeConfig ==
    /\ Ready /\ ~input.command /\ route = "config"
    /\ input' = [input EXCEPT !.full = FALSE] /\ route' = "keyboard"
    /\ config' = statusByte
    /\ UNCHANGED <<pc, statusByte, wire, reply, ob, device, machine>>

\* The input buffer is free again as soon as the transmission begins.
TakeForMouse ==
    /\ Ready /\ ~input.command /\ route = "mouse"
    /\ input' = [input EXCEPT !.full = FALSE] /\ route' = "keyboard"
    /\ wire' = input.byte
    /\ UNCHANGED <<pc, statusByte, reply, config, ob, device, machine>>

\* The mouse answers each byte; a reset ends streaming and discards what it
\* had to send.
MouseAccept ==
    /\ wire # "none" /\ wire' = "none"
    /\ accepted' = Append(accepted, wire)
    /\ out' = IF wire = "FF"
              THEN <<Byte("answer", Ack), Byte("answer", EndOfReset),
                     Byte("answer", MouseId)>>
              ELSE Append(out, Byte("answer", Ack))
    /\ streaming' = (wire = "F4" \/ (streaming /\ wire # "FF"))
    /\ UNCHANGED <<pc, statusByte, input, route, reply, config, ob, packets,
                   keys, disturbed, machine>>

\* The report and the mouse's bytes reach the output buffer when it is empty,
\* those of the mouse while its clock runs.
GiveReply ==
    /\ reply # <<>> /\ ~ob.full
    /\ reply' = <<>> /\ ob' = [full |-> TRUE, byte |-> Byte("reply", reply[1])]
    /\ UNCHANGED <<pc, statusByte, input, route, wire, config, device, machine>>

GiveMouseByte ==
    /\ ~ob.full /\ out # <<>> /\ 5 \notin config
    /\ ob' = [full |-> TRUE, byte |-> Head(out)] /\ out' = Tail(out)
    /\ UNCHANGED <<pc, statusByte, input, route, wire, reply, config, streaming,
                   accepted, packets, keys, disturbed, machine>>

Controller == \/ TakeCommand \/ TakeConfig \/ TakeForMouse
              \/ MouseAccept \/ GiveReply \/ GiveMouseByte
-----------------------------------------------------------------------------
\* The user moves the mouse, with any bytes in the packet.
MouseMove ==
    /\ streaming /\ packets < MaxPackets /\ packets' = packets + 1
    /\ \E m \in Movements :
           /\ out' = out \o <<Byte("move", m[1]), Byte("move", m[2]),
                              Byte("move", m[3])>>
           /\ disturbed' = (disturbed \/ ExpectedNext(pc) \in {m[1], m[2], m[3]})
    /\ UNCHANGED <<pc, statusByte, controller, streaming, accepted, keys, machine>>

\* A key is pressed or released: the keyboard shares the output buffer, which
\* reset and setSampleRate read without asking whose byte it is.
Key ==
    /\ ~ob.full /\ 4 \notin config /\ keys < MaxKeys /\ keys' = keys + 1
    /\ \E b \in KeyBytes :
           /\ ob' = [full |-> TRUE, byte |-> Byte("key", b)]
           /\ disturbed' = (disturbed \/ ExpectedNext(pc) = b)
    /\ UNCHANGED <<pc, statusByte, input, route, wire, reply, config, out,
                   streaming, accepted, packets, machine>>

Next == Kernel \/ Controller \/ MouseMove \/ Key

Spec == Init /\ [][Next]_vars

\* CPU, controller and mouse make progress; the user need not.
FairSpec == Spec /\ WF_vars(Kernel) /\ WF_vars(Controller)
-----------------------------------------------------------------------------
\* The bytes for the mouse whose answer the program has waited for at p.
Confirmed(p) ==
    LET waits == {k \in 1 .. p - 1 : Program[k].op = "readUntil"}
    IN  SubSeq(<<"FF", "F4", "F3", "40">>, 1, Cardinality(waits))

\* On an emulator, behind each wait for an answer the mouse has accepted the
\* byte the answer is for ("wait ACK", mouse.cpp:99, 110 and 117; "wait recv
\* 0xaa", mouse.cpp:74), whatever the user does.
AnswersAreReal == emulated => IsPrefix(Confirmed(pc), accepted)

\* On real hardware too, reset returns with a mouse that has been reset and
\* told to stream, whatever was left unread before and whatever keys and
\* movements came meanwhile, unless one looked like the answer waited for.
ResetIsReal ==
    ~disturbed /\ pc > Len(Reset) => IsPrefix(<<"FF", "F4">>, accepted)

\* When reset returns, the mouse's interrupt is on and its clock runs
\* (mouse.cpp:85-86), whichever byte was read for the configuration: its own
\* report, the mouse's ID or a key.
MouseEnabled == pc > Len(Reset) => 1 \in config /\ 5 \notin config

\* What the mouse has on its way to the kernel.
Pending == (IF ob.full /\ ob.byte.from \notin {"key", "reply"}
            THEN <<ob.byte>> ELSE <<>>) \o out

\* On an emulator, when interrupts are about to be enabled, whatever the mouse
\* still has on its way to the kernel is movement, a whole number of packets,
\* unless a byte looked like the answer waited for: no answer is left over for
\* MousePS2::process to take for the start of a packet.
AlignedStart ==
    emulated /\ ~disturbed /\ pc = Done =>
        /\ \A k \in DOMAIN Pending : Pending[k].from = "move"
        /\ Len(Pending) % 3 = 0

\* The dialogue comes to an end, whatever was left and whatever the user does.
Finishes == <>(pc = Done)
=============================================================================
