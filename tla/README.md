# hotaruOS in TLA+

hotaruOS is a UEFI boot loader (`bootloader/main.c`) and a small x86-64 kernel
(`kernel/`) that sets up a PS/2 mouse, prints on a text console, scans the PCI
bus and then moves a mouse cursor from an interrupt-driven event loop. It runs
on one CPU and has no tests. This directory holds models of it, the TLC
configurations that check them and the theorems TLAPS proves about them.
Paths below are relative to the repository's root.

## Inventory

| Component | State | Operations | Hard because | Correct when |
|---|---|---|---|---|
| Message queue, `kernel/utils/queue.hpp` | `data_`, `readPos_`, `writePos_`, `count_` | `push`, `pop`, `get`, `count` | wrap-around, full and empty | it is a bounded FIFO |
| Event loop, handler, `kernel/main.cpp` 86-92 and 177-230 | queue, interrupt flag, IDT | `cli`/`sti`/`hlt`, get, pop, dispatch; push and end of interrupt | the handler runs between any two instructions | no message is taken that is not there, no wakeup is lost |
| `MousePS2::process`, `kernel/mouse/mouse.cpp` 8-42 | registers, the controller's one-byte buffer | status read, three data reads, discard loop | keyboard and mouse share the buffer; the controller is not synchronised with the CPU | each move comes from one packet; no device blocks the other |
| Mouse set-up, `mouse.cpp` 44-123 | the local `statusByte`, the controller's configuration | `reset`, `setSampleRate` | polled dialogue with two devices of unknown speed; keyboard, mouse and controller answer in the same register | each awaited answer is the right one |
| PICs, `kernel/interrupt/pic.cpp` | masks, request and service bits, vectors | `remap`, `enable`, `endOfInterrupt` (`disable`, `disableAll`: no callers) | order with respect to IDT and interrupt flag; a line may rise between two port accesses | no interrupt without a handler; every service ends |
| Interrupt descriptors, `interrupt.cpp` | `idt` | `SetIDTEntry`, `CreateIDTAttr` | an address in three parts of different widths | the gate is there first and leads to the handler |
| Drawing, `kernel/graphics/pixelWriter.cpp` | the frame buffer | pixel, border, filled rectangle, image; two formats | clipping, signed/unsigned, line length | exactly the visible pixels change |
| Cursor, `kernel/mouse/cursor.cpp` | `x_`, `y_` | `moveRelative`, `moveAbsolute` | erase and draw must agree at every edge | one picture of it, where the user put it |
| Console, `kernel/console/console.cpp` | `m_buf`, `m_cursorRow`, `m_cursorColumn` | `puts`, `lineBreak` | a long history before it scrolls | the newest lines are shown; stores stay inside |
| PCI scan, `kernel/pci/` and `main.cpp` 140-168 | `m_devices`, `m_deviceCount` | `scanAllBus`, `makeAddress`, search | array limit, address fields | complete or reported |
| Boot loader, `bootloader/main.c` | memory map key, pool buffer, pages, kernel image | `UefiMain`, `CalcLoadAddressRange` | the key is stale after nearly every call; retry; page rounding | a kernel that starts is complete and alone |
| Font, `kernel/font/font.cpp`, `tools/genfont` | the bitmap file | `getFont`, `writeChar`, `writeString`; the packing | the layout is agreed between two programs | the pixels genfont saw are the pixels drawn |
| Serial port, `kernel/serial/serial.cpp` | UART registers and FIFOs | `serialInit`, `serialPutChar`, `serialPutString` (input: no callers) | the echo is read at once; the failed test is ignored; the wait has no timeout | a sound port carries every text, a failed one stays silent |
| `printk`, `kernel/main.cpp` 65-77 | its buffer | format, serial port, console | cut at `BUF_SIZ`; two outputs one after the other | both show the same text |
| I/O APIC, `kernel/interrupt/ioapic.cpp` | redirection table | `init`, `addRedirectionTable` | | never called |

How they interact: the boot loader passes a `frameBufferConfig` to `kernelMain`
and is gone. `kernelMain` calls the components one after the other; `printk`
calls the serial port and the console from all of them. After the set-up the
only concurrency is between the event loop, the interrupt handler and the
devices: they share `mainQueue`, the interrupt flag, the PICs and the output
buffer of the 8042 controller. There are no timeouts. What outlives a restart is
the file `\memmap`, which the boot loader writes and nothing reads, and what the
devices still hold when the firmware hands over.

## Modules

| Module | What it is |
|---|---|
| `BoundedFifo` | abstract: what a queue promises |
| `ArrayQueue` | the members of the queue class as operators on a record, used by every module that owns a queue |
| `ArrayQueueSpec`, `MCArrayQueue` | the queue driven by a caller; implements `BoundedFifo` |
| `ArrayQueueProofs` | lemmas about the operators; theorems of `ArrayQueueSpec` |
| `EventLoop`, `MCEventLoop` | interrupt set-up, event loop, handler, `process`, 8042, PICs, interrupt flag |
| `EventLoopProofs` | theorems of `EventLoop` |
| `PicView` | abstract: the PICs as far as IRQ 12 is concerned |
| `Pic`, `Idt` | one 8259 behind its two ports; a descriptor |
| `Interrupts`, `MCInterrupts` | two PICs, the table, the set-up and the lines, one port access at a time; implements `PicView`, as `EventLoop` does |
| `InterruptsProofs` | theorems of `Interrupts` |
| `MouseInit`, `MCMouseInit` | `reset` and `setSampleRate` against controller, mouse and keyboard |
| `MouseInitProofs` | theorems of `MouseInit` |
| `PixelWriter` | the drawing functions as sets of frame buffer words |
| `Font` | the bitmap file and the text functions on `PixelWriter` |
| `PixelCalls`, `MCPixelCalls` | any sequence of drawing calls and texts |
| `Pointer` | abstract: what a user expects of a pointer |
| `Cursor`, `MCCursor` | the cursor on `PixelWriter`, fed with packets; implements `Pointer` |
| `DrawingProofs` | theorems of `Cursor` and `PixelCalls` |
| `Console`, `MCConsole` | the text console |
| `Serial` | the serial port's driver and its UART |
| `Printk`, `MCPrintk` | `serialInit`, then `printk` on `Serial` and `Console` |
| `PrintkProofs` | theorems of `Printk`, the serial port and the console |
| `Pci`, `MCPci` | bus scan and controller search |
| `PciProofs` | theorems of `Pci` |
| `Bootloader`, `MCBootloader` | `UefiMain` under a firmware |
| `BootloaderProofs` | theorems of `Bootloader` |

Each operator and action names the code it stands for; operators whose comment
begins with "Mutant" are variants with a plausible bug and are used by no
specification: they record which change of the code each property notices.

### EventLoop

`pc` is the next step of `kernelMain` and `isr` that of the handler. A step is
an instruction that somebody else can observe: a port access, an access to the
queue, or a change of the interrupt flag. `sti; hlt` is one step, because the
CPU holds interrupts back for one instruction after `sti`. `pop` is two steps
(test and load of `count_`, then the store), because after a `hlt` it runs with
interrupts enabled. A compiler that uses one read-modify-write instruction for
the decrement has fewer behaviours than the model. `get` returns the only
message type there is. The handler runs with interrupts disabled (it is behind
an interrupt gate). It pushes, and sends the two end-of-interrupt commands in
the code's order.

The devices are external and modelled from what the code relies on. The 8042
has one output byte; a byte of the mouse raises IRQ 12, and the PIC latches the
edge. Reading the byte drops the line, and a PIC that has not passed a request
on may forget it. A data port read without a new byte returns the last one.
Movement bytes are numbered in the order they were sent, so a move records
which bytes it was computed from. The variable `hw` is the machine the kernel
runs on, chosen at the start from the constant `Machines`:

- `hw.prompt`: the next byte is there before the CPU reads a port again, as in an
  emulator (the repository runs under QEMU, `script/qemu_run.sh`). Without it
  the controller takes any time.
- `hw.latency`: a raised interrupt may arrive some instructions late.
- `hw.quiet`: nobody touches mouse or keyboard before `remap()` has run.

A property that holds on some machines only says so.

`isr = "dead"` is the kernel after an interrupt without a gate. In `EventLoop` it
comes from one source: on a machine with `hw.latency` the CPU may already have
seen the request that reading the byte takes back, and the PIC then answers with
its line 7, vector 0x27. The liveness properties allow for it; the safety
properties hold before and after.

### Interrupts

`EventLoop` has one action for each call of the PIC driver. `Interrupts` has one
for each port access, with the ten words of `remap` and the read-modify-write of
`enable`, on two chips with mask, request and service registers, a vector base
and the state of an initialisation. The lines 0, 1 and 12 rise and fall between
any two accesses. The CPU finds the handler through the descriptor that
`SetIDTEntry` packed. `machine` is what the kernel gets from the firmware and the
hardware: the interrupt flag, the mask of the first PIC, whether timer and
keyboard are at work (`others`) and whether the CPU looks at the PIC with a delay
(`late`). The loop is reduced to `cli`, `sti` and the read of the data port.

Both modules implement `PicView`, the part of the PICs the mouse depends on:
`Interrupts` with a mapping from the registers of the two chips, `EventLoop`
directly. So what `EventLoop` takes for one step of the PICs is one as far as the
mouse's interrupt can tell, although `remap` is ten writes.

### MouseInit

The code is a straight line of port operations, so it is a sequence, `Program`,
built from the functions of `mouse.cpp`, and one action for each kind of
operation. Printing is left out. A byte is the set of the numbers of its bits,
with a note of where it comes from, which the kernel cannot see. Devices are of any
speed unless `emulated` is chosen at the start: then they react before the CPU's
next port access. In both cases a byte waits until the output buffer is empty, so
the controller's report waits behind the mouse's ID, which `reset` leaves there.

`reset` drains nothing, so the start is any: a byte in the data port, read or not
(`Leftover`), bytes in the mouse (`Unread`), a mouse that streams or not. From then on
the user may move the mouse, with any bytes in the packet (`Movements`), and press or
release keys (`KeyBytes`), whose bytes come to the same port; the waits read it
without looking at the AUX bit. The history variable `disturbed` says that one of
these bytes looked like the one the program was to wait for next. It is the
hypothesis of the properties that are false otherwise: a byte `AA` of the firmware
or of the keyboard (the release of the left shift key) lets `reset` go on before the
mouse has accepted the reset, and a movement byte `FA` ends a wait for an ACK.

### Drawing and cursor

A drawing function is the set of words it writes. `Font` builds the
bitmap file as genfont packs it and reads it with `writeChar`'s index, shift and
mask, a byte being the set of the numbers of its bits; the glyphs themselves are a
constant. The loops compare a `size_t`
counter with an `int`; a negative limit is a number of passes that no frame
buffer is large enough for (`RunawayBound`). `Cursor` keeps what each word of the
frame buffer shows and whether a write has left it. The mouse encodes a movement
as sign bit and low byte; the code decodes it. The history variable `report` is
the movement before the encoding, so that the refinement of `Pointer` says the
cursor moved by it.

### Console, Printk, Pci, Bootloader

`Console` has `m_buf` as flat memory, because the code indexes past its lines. A
store past its end leaves any of the values `Wild` in the members behind it, the
cursor and the console's place, or leaves them alone if it goes further; `damaged`
records it. What the linker puts behind the console is not modelled, so nothing is
claimed of the rest of the kernel after such a store. Scrolling clears the
`s_consoleRow` columns the code clears, from where the place says.
One step is one character of `puts`. The overlapping `memcpy` copies from the
lowest byte up, which is what newlib's does. `Printk` drives it: `serialInit`
write by write, then any sequence of calls of `printk`, character by character
on the serial port (each a wait for the transmitter and a write) and then on the
console. `said` and `lines` are histories of what each of the two was to show.
The UART's transmitter works between any two steps. A port is
emulated (the loopback echo is there before the next instruction, as in QEMU),
hardware (it takes time), garbling, stuck (it never transmits) or absent (every
read gives 0xff). The other end of the line may send until the test is over;
nothing reads what it sends later. A character is a model value. `Pci` makes one step for each slot
and for each device of the search; a device is what the search can tell of it.
`Bootloader` has a step for every call of the firmware. Of the firmware's memory
map it keeps the number of descriptors and whether the loader's key is the
newest; every call may change both, and so may a timer. `timersStop` says whether
the first, refused `ExitBootServices` already stops the timers, as EDK2's does. Where the code ignores the failure of a call and goes on
through a pointer the call did not set, the step leads to `lost`. A failed `Write`
sets nothing and the loader goes on: the line is missing or torn. `file` is
`\memmap` in lines; it may hold those of an earlier start (`OldLengths`), which are
written over one by one and never removed. A line takes the place of a whole
old one; how their bytes overlap is left out.

## Runs

| Run | Shows |
|---|---|
| `MCArrayQueue.cfg` | type, agreement of the counters, refinement of `BoundedFifo` |
| `EventLoop.cfg` | on every machine: types, no interrupt before its handler, no get or pop of an empty queue. If the set-up is quiet: no lost wakeup and every mouse byte is read, also with a slow controller, late interrupts, a keyboard and a full queue. With prompt interrupts: the counters agree. On an emulator without a key pressed: moves come from whole packets in order, and every movement is shown in the end |
| `MouseInit.cfg` | whatever was left and whatever the user does: the dialogue ends with the mouse's interrupt on and its clock running and, on an emulator, with every awaited byte accepted by the mouse. If no byte looked like an answer: `reset` waits for the reset and the enable byte at any speed, and on an emulator no answer is left over for `process` |
| `Interrupts.cfg` | no interrupt without its handler unless late or, with interrupts enabled by the firmware, from another device; every service ends on both PICs; every mouse request is answered; refinement of `PicView` |
| `PixelCallsPacked.cfg` | exact pixels of rectangles, images and texts; borders at and over the edges are drawn as far as they are visible, nothing inside them, and what the BGR writer draws too far is just behind the screen |
| `CursorPacked.cfg` | no write outside, refinement of `Pointer` |
| `Printk.cfg` | a sound port in time is set up and carries every text in order; a failed port stays silent; every `printk` ends on any port whose transmitter drains. No store past `m_buf` while all lines are shorter than the screen is high; the text and the blank line of the cursor until a store goes past it, with a line that is too long among the texts |
| `PciScan.cfg` | the scan is complete or says so; the search's choice |
| `Bootloader.cfg` | a kernel that starts is complete, in its own pages, entered at `e_entry`, and the firmware is gone; one retry is enough if the timers stop; `\memmap`, new or old, begins with the whole map if no write failed |

Three more runs show where the code does not do what a comment beside it says.
They are listed with the quoted comment as findings in `PROJECT.json`:

| Run | Disagreement |
|---|---|
| `EventLoopKeyboard.cfg` | a key pressed while the loop sleeps is never discarded and blocks the mouse (`mouse.cpp:18`) |
| `CursorStride.cfg` | `getAddr` uses the width where lines are longer, so erasing leaves a trail (`cursor.cpp:39`) |
| `ConsoleScroll.cfg` | exchanged indices damage a line (`console.cpp:39`, `:47`) |

The models have further behaviours of this kind. They are the reason for the
hypotheses of the properties above; dropping the hypothesis, or choosing other
constants, makes TLC show them:

- on a controller that needs time between two bytes a move is computed from one
  byte read three times (`PromptPacketsIntact` without `hw.prompt`;
  `mouse.cpp:26`);
- a late request that is gone when the CPU acknowledges it goes to vector 0x27,
  and with interrupts enabled on entry the timer interrupts between the last
  initialisation word and the mask: neither has a gate (`Handled` without its
  hypothesis; `main.cpp:185`);
- a sound serial port that needs time for the echo is taken for faulty and stays
  in loopback mode (`WireShowsText` for `hardware`; `serial.cpp:17`), and one that
  never drains stops the kernel in its first `printk` (`PastThePort` for
  `stuck`; `serial.cpp:36`), since `kernelMain` ignores the result
  (`main.cpp:100`);
- a mouse byte that comes before `remap()` loses its interrupt, and the loop
  sleeps on it for ever (`NoLostWakeup` without `hw.quiet`; `main.cpp:185`);
- with a slow mouse the second wait of `setSampleRate` is ended by the first ACK
  (`AnswersAreReal` without `emulated`; `mouse.cpp:119`);
- the mouse's ID, which `reset` leaves unread, is what waits in the output buffer when
  the controller reports its configuration, on an emulator too (`mouse.cpp:84`; the
  comment at `:78` promises the controller's byte). The configuration written back has
  the mouse's bits right (`MouseEnabled`), and the keyboard's interrupt and translation
  are off;
- a movement byte `FA` behind the enable byte ends a wait for an ACK, and the ACK is
  left over for `process` (`AlignedStart` without `~disturbed`, on an emulator too;
  `mouse.cpp:112`);
- a border that is clipped at an edge is drawn one place behind the screen
  (`BorderAtEdge` without the places behind it; `pixelWriter.cpp:112`, where `:111`
  says it does not stick out), and one of the RGB writer, which does not clip, anywhere;
- a line of 60 characters, for which `m_buf` has room, has its newline stored behind
  it: the listing of the PCI devices (`main.cpp:147`, 69 characters a line) does so at
  every boot (`WritesInBuffer` with `<= ConsoleRow`; `console.cpp:30`);
- the boot loader says "memoryMap wrote." (`main.c:195`) when a write has failed, and
  an older, longer `\memmap` keeps its end (`MemmapBegins` without `~failed`, or with an
  end; `main.c:158`, `:190`);
- a left shift key released during the reset, or a byte `AA` the firmware left, ends
  the first wait, and the answer to the reset ends the next one (`ResetIsReal` without
  `~disturbed`; `mouse.cpp:75`, `:101`);
- `moveAbsolute` past the right edge is not clamped and drawing there does not
  end (`NoSpill` with such a target; `cursor.cpp:25`).

The timing ones do not show on an emulator that fills the buffer at once.

### Bounds

- `ArrayQueue`: three slots and two messages; each slot is wrapped past, with
  every content, and both limits are hit. The theorems cover every size.
- `EventLoop`: two slots. A packet raises up to three interrupts and a call of
  `process` takes one message, so two packets overflow the queue. `MaxPackets`
  and `MaxKeys` bound what the devices send; a blocked buffer needs one key. The
  passing run has three machines: an emulator, a slow one, and one that is used
  during the set-up.
- `MouseInit`: two configurations, everything off or keyboard and mouse interrupt on
  with translation; a byte `FA` or another in the port, read or unread; a byte `AA` left
  in the mouse or not; up to two packets (`MaxPackets`), with and without a byte `FA`;
  one key (`MaxKeys`), the release of left shift or a byte that would turn the mouse
  clock off if it were the configuration. The theorems are for any.
- `Interrupts`: every machine, with three masks of the first PIC; three lines,
  which may rise any number of times. A descriptor's parts have two bits instead
  of sixteen, and the handler's address has a digit in each.
- `PixelCalls`: every rectangle up to 3 x 3 at every place of a 5 x 4 screen and
  beyond its edges by the whole rectangle; every text of up to two of four glyphs
  of 2 x 3 pixels where it fits. `Cursor`: every position on a 12 x 8
  screen, movements of one pixel, of several, and across the screen; a packed
  frame buffer in the passing run. Borders are the same rectangles, at, over and clear
  of the edges.
- `Printk`: a FIFO of two bytes, a buffer one text does not fit, an empty text and one
  of two lines. The console has three lines of four characters and five lines are put
  (`MaxLines`), so it scrolls twice. One text has a line of three characters, as many as
  the screen has lines, so its newline is stored past `m_buf`, as that of a line of 60
  on the real console; the others are shorter. The store leaves the members as they are,
  moves the cursor or moves the place. `ConsoleScroll.cfg` has four lines of eight and
  short lines, so nothing but the exchanged indices is to blame.
- `Pci`: two of each field of an address, up to four devices and room for three:
  both outcomes of the scan and several controllers.
- `Bootloader`: pages of four bytes; images that end on a page boundary, one byte
  after and before it, with segments out of order and one that does not start on a
  page; maps that grow, also past the buffer; no old `\memmap` and one longer than the new;
  any of the writes failing; two timer events (`MaxEvents`).

### Fairness

`EventLoop`: weak fairness of the kernel's steps, of the handler, of interrupt
delivery and of the controller: the CPU executes and the hardware works. There is
none for the user, who may never move the mouse. `Interrupts`: the
CPU executes and the loop comes back to its `sti`, which lets a pending interrupt
in; acceptance is strongly fair, because `cli` takes it away again and again while
the request stays, and `hlt` keeps the flag set until an interrupt comes.
`Printk`: the driver's polling goes on and the transmitter drains; nothing makes the
kernel print again. `MouseInit`: the CPU, the controller
and the mouse make progress, the user need not. `Bootloader`: firmware calls return. Sequential programs
that end, and a kernel that halts when nobody uses the mouse, are states in which
nothing may happen, so these runs do not check for deadlock.

## Proofs

All constants are arbitrary, subject to the named assumptions (`SizeAssumption`,
`EventLoopAssumption`, `MouseInitAssumption`, `IdtAssumption`, `InterruptsAssumption`, `SerialAssumption`,
`PrintkAssumption`, `PixelWriterAssumption`, `FontAssumption`, `CursorAssumption`, `PciAssumption`,
`BootloaderAssumption`), which TLC evaluates in every run of the modules. Each
theorem of a state property rests on an inductive invariant whose parts are named
below. A theorem with a hypothesis of its own says so.

`ArrayQueueProofs`: `TypeCorrect`, `PositionsCorrect`, `RingImplementsFifo`. The
last shows that pushing appends to and popping removes from `Contents`, the slots
from `readPos_` on; it rests on lemmas about `(p + j) % Size` in
the operators, which avoid nonlinear arithmetic by case split on the one
wrap-around that can happen. `EventLoopProofs` cites them for its own queue. The
write position is needed only to show that a push goes to the slot after the last
one, which is `PositionsAgree`.

`EventLoopProofs`: `TypeCorrect` needs, beside `TypeOK`, that the count held in a
register across the two halves of `pop` is positive. The other theorems come from
one inductive invariant `IInv` with named parts:

- `Flags`: where the interrupt flag is known to be clear or set; in the handler
  it is clear.
- `Service`: the service bits of the PICs are those of the handler's step, so a
  second interrupt waits for both commands.
- `SetUp`: what has been set up at each step of the set-up, and that the lines
  stay masked from `MaskAll` to `EnableMouse` (hence `HandlerReady`).
- `HasMessage`: from the handler's push until `pop`, the queue is not empty, also
  when the interrupt ended a `hlt` (hence `GetHasMessage`: the missing `continue`
  after `hlt` is harmless because only the handler, which pushes, ends it).
- `Quiet`: with `hw.quiet` the devices are untouched before `remap()`.
- `Attended`: with `hw.quiet`, a mouse byte in the output buffer has a request
  latched, a message queued, or a step of the kernel that will read it (hence
  `NoLostWakeup`).
- `Undisturbed`: without `hw.latency`, no request is pending while the halves of
  `pop` run with interrupts enabled (hence `QueuePositions`).

`CallsImplementPicView` shows that every action of `EventLoop` is a step of
`PicView` or leaves the PICs alone. It needs `Service` (an end of interrupt finds
the service bits `PicView` asks for, and an interrupt finds none) and `SetUp` (a
line is opened only after `remap()`).

`MovesFromWholePackets` proves `PromptPacketsIntact` with one part more, `InStep`: on
a prompt machine without a key pressed, the number of bytes the controller has
presented is three for each move, those of the packet in hand (`Taken`), and the one
in the output buffer. The reads of `process` never meet an empty buffer in the
middle of a packet, so none is taken twice, and a move's three bytes are consecutive.

`MachineStep` says that `hw` never changes, which the parts that depend on it need.
`QueuePositions` is proved for machines without `hw.latency` and `NoLostWakeup` for
those with `hw.quiet`, as both state. With late interrupts one may come between the
halves of `pop`; TLC finds that the counters then disagree by one message, after which the
loop makes a call of `process` more or fewer and still reads every byte.

`InterruptsProofs`: `ServicesEnd` says at the level of the port accesses what
`Service` says in `EventLoop`, with spurious interrupts and the other devices. Its
invariant adds two parts to the service bits (`Served`):

- `Dialogue`: the initialisation word each chip waits for at each of the ten writes
  of `remap`. Without it a mask written to the data port could be taken for a
  vector offset.
- `Wiring`: keyboard and timer request at the master and the mouse at the slave, so
  a request of the master's line 2 is the slave's; and only vector 44 has a gate, so
  any other vector, a spurious one included, ends the kernel instead of entering the
  handler.

`InterruptsHandled` (`Handled`) needs two more:

- `Prepared`: the masks of both chips at each step, from the firmware's over `remap`'s
  to the one line that `enable` opens in each; a chip has the kernel's vectors from its
  second word on, and the gate is set before the first. So whenever the slave can pass
  a request on, its vectors are the kernel's (`MouseFindsHandler`).
- `Calm`: without interrupts on entry none is taken before the loop, when the master
  lets nothing but the cascade through; without other devices the master has no
  request of its own.

Two lemmas carry the data: `BitsOfValue`, that the mask `enable` writes back is the one
it has read without one bit, for every mask; and `TargetOfEntry`, that the CPU puts the
parts of a descriptor together to the handler's address, for every address and width.

`PortsImplementPicView` maps every step to one of `PicView` or to a stutter
(`ViewStep`): the second write of `remap` is its `Remap`, the last two are `Mask`, the
writes of `enable` are `Unmask`, an interrupt taken through the cascade is `Accept`, the
two commands are `EndFirst` and `EndSecond`. `PicIs` shows that in a reachable state the
mapped `remapped` bit says no more than that `remap` has come past its second write.

`MouseInitProofs`: `AnswersGiven` (`AnswersAreReal`), `ResetWaits` (`ResetIsReal`),
`MouseIsEnabled` (`MouseEnabled`) and `NothingLeftOver` (`AlignedStart`), for any bytes
left over, any packets and any keys.
`ProgramLists` shows once that the 31 operations put together from the code's
functions are those that `OpOf` and `ArgOf` name by number; everything else speaks of
numbers. The invariant has six parts beside the types:

- `Routed`: what the input buffer holds and where the next byte goes, at each
  operation; so the controller takes a byte for the mouse for nothing else.
- `Delivered`: the mouse has accepted the bytes in their order, and each byte written
  is accepted, being sent or still in the input buffer; it streams only before the
  reset is accepted and from `F4` on.
- `Waited`: on an emulator each byte has been accepted by the time its answer has been
  waited for, whatever ended the wait.
- `Configured`: from its write on, the configuration is the byte read with bit 1 set
  and bit 5 cleared, whatever byte that was.
- `ResetAnswer`: unless disturbed, nothing looks like the end of a reset until the
  mouse accepts the reset, and until it accepts `F4` what it sends is `FA AA 00`, of
  which `reset` waits for the second byte; so no `FA` is left of it for the wait
  behind `F4`. This part holds on real hardware too and gives `ResetIsReal`.
- `Aligned`: on an emulator, unless disturbed, an answer not yet waited for has no
  other byte like it in front and only whole packets behind it (`AnswerThenMoves`);
  otherwise whole packets are all there is (`Moves`). `FirstRead` shows that a turn of
  the wait keeps one of the two.

`DrawingProofs`, of the cursor: `NothingSpills` (`NoSpill`) and `MovesAsPointer` (the refinement of
`Pointer`). `Inside` keeps the corner on the screen or on its far edges; `Painted` says
that the frame buffer shows the image where it was drawn and nowhere else. The lemma
`DrawnPixels` shows that the words of both loops are those of the clipped rectangle,
which is where a negative limit would run away. Both theorems assume
`TargetsClamped`: `moveAbsolute`, which nothing calls, is asked for no place past
the right edge that its swapped test lets through (`cursor.cpp:25`).
`MovesAsPointer` also assumes `PixelPerScanLine = Width`, without which it is false
(`CursorStride.cfg`).

`DrawingProofs`, of any calls: `PixelsAreExact` (`ExactPixels`), `BordersAreDrawn`
(`BorderDrawn`) and `BordersEnd` (`BorderAtEdge`). The lemmas about rectangles
and images serve the cursor too. `InkIsGlyph` is the
agreement of the two programs: the bit that index, shift and mask select is the pixel
`genfont` saw. `TextFits` keeps the glyphs of a text in their places and on the screen.
`BorderPixels` compares the four loops of a border with its outline: what is visible of
it is drawn whether the extents are clipped or not (`DrawnExtent`), and the lines that
go too far, into the next line of the screen or behind the last one, meet neither it
nor its inside, because words of different columns differ (`ColumnsApart`).
`ClippedBorder` places each word of a clipped border on its outline or just behind the
screen. The three theorems assume `LayoutsAgree` (packed lines; the mask's bit is the highest
of a row, `0x40` for 7 pixels) and `CallsFit`: rectangles, borders and images
begin on the screen or on its far edges, a border is no wider than the screen, and
texts fit. The instance TLC checks satisfies both (`InstanceFits`).

`PciProofs`: `ScanIsComplete` (`ScanComplete`) and `ControllerIsChosen`
(`ControllerChosen`). `Passed` says that the array holds the functions in front of the
scan's place, each once, in order; that the next slot is the next one in that
order rests on the fields of an address not reaching into each other
(`FieldsOfAddress`). `Chosen` says what the search has seen so far: it has stopped at
an Intel controller, or seen none and holds the last controller.

`BootloaderProofs`: `KernelComplete` (`ImageLoaded`), `CopiesInPages`
(`WritesInPages`), `EntryIsImages` (`EntryOfImage`), `FirmwareHasLeft`
(`FirmwareLeft`) and `MemmapListed` (`MemmapBegins`), for every set of well-linked
images and every behaviour of the firmware. `Placed`: nothing is written before there
are pages, and the pages are those from the image's lowest to its highest address,
rounded up. `Copying`: the segments before the one being copied are in place, which the
next ones leave because segments do not overlap. `EntryRead`, `Left` and `Listed`
belong to the other three; `Listed` says that the file is the lines written so far, the
map's unless a write has failed, and behind them those of an earlier start. That the lowest and the highest address exist
needs a least number of a set of numbers, which `LeastNumber` gets from the well-founded
order of the naturals; so induction over numbers is in reach where the set
is given.

`PrintkProofs`: `FailedStaysSilent` and `NothingIsLost` (`WireShowsText`) of the
serial port, `ScreenIsTrue` (`ScreenShowsText`), `LineIsBlank` (`CursorLineBlank`) and
`StaysInBuffer` (`WritesInBuffer`) of the console.

- `Garbled`: a garbling port holds nothing but garbage from the FIFO reset to the
  test, so it never passes and never leaves loopback mode. `Untouched`: nothing
  reaches the line while loopback mode is on or the set-up runs, for which the one byte
  written to register 0 before loopback mode must be part of the divisor: DLAB is set.
- `RateSet`: the divisor is complete and DLAB off before the test byte is written.
  `Echoed`: of a sound port's echo nothing is left when loopback mode ends, also if it
  was slow and yet in time. `Stream`: line, FIFO and the rest of the text together are
  all that had to be said. It never needs more of the FIFO than one place, because the
  driver waits until it is empty.
- `Placed`: the cursor is behind the last character put, and everything drawn is above
  it or to its left; it does not depend on what `m_buf` holds, so it survives the damage
  that the exchanged indices do inside it. It lasts until a store goes past `m_buf`,
  which may move the cursor: `ScreenInv` has it under `~con.damaged`.
- `StoredFields` says what a store can do, and `PlaceInBuffer` that it stays inside for
  a cursor no further right than the screen is high, which for the newline is a place
  of the exchanged line. Past lines stay what they were (`StillShort`), so a line that
  was too long is never forgotten. The console is assumed no higher than a line is wide
  (60 and 180 in `console.hpp`, `ConsoleConstants`); no length of the texts is.

Model-checked only:

- liveness (`EveryMoveShown`, `MouseByteRead`, `MouseServed`, `PastThePort`,
  `Finishes`, `RetrySuffices`), which is out of the prover's reach.

Every other property of a passing run is stated by a theorem, some of them for the
instances whose hypotheses are named above.

## Not modelled

- The I/O APIC (`ioapic.cpp`), `disable` and `disableAll` of the PICs, and the
  serial input: nothing calls them, so they have no behaviour in this program.
- Colours: a word's colour depends on one call and nothing else. The BGR writer's
  `drawRect` builds its colour with the RGB generator (`pixelWriter.cpp:109`), so red and
  blue of a border are exchanged.
- The contents of texts, glyphs and the cursor image; the fields of descriptors and
  ELF headers that no decision depends on.
- Where objects lie in memory: `main.cpp:121` constructs the queue at the null
  pointer instead of in `mainQueueBuf`; which objects the linker puts behind the
  console, where the newline of a long line may be stored.
- A display smaller than the console's grid: the text would leave it, since
  `drawPixel` does not clip.
- Port access functions, which are single instructions and the steps of the
  models; `newlib` stubs; build scripts; `convert_image`.
- A missing mouse: the set-up then waits for ever. Exceptions: no vector below
  0x20 has a handler.

## Plan

1. A composition of `MouseInit` and `EventLoop`: the configuration and the
   leftover bytes of one are the start of the other; `EventLoop` with `Cursor` in
   place of `moves`. A byte that looked like an answer (`disturbed`) is then followed into
   the packets of `process`.
2. Theorems of that composition: `NoLostWakeup` with the bytes the set-up leaves.
