---------------------------- MODULE MCEventLoop ----------------------------
(***************************************************************************)
(* Instances of EventLoop for TLC.  Two slots are enough for pushes to meet *)
(* a full queue: one packet raises up to three interrupts and a call of    *)
(* process takes one message.                                              *)
(***************************************************************************)
EXTENDS EventLoop

\* An emulator that behaves as well as it can.
Emulator == [prompt |-> TRUE, latency |-> FALSE, quiet |-> TRUE]

\* Hardware with a slow controller and late interrupts.
Slow == [prompt |-> FALSE, latency |-> TRUE, quiet |-> TRUE]

\* A machine whose user moves the mouse before the kernel is ready.
Hasty == [prompt |-> TRUE, latency |-> TRUE, quiet |-> FALSE]

AllMachines == {Emulator, Slow, Hasty}
Emulators == {Emulator}
=============================================================================
