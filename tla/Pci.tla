-------------------------------- MODULE Pci --------------------------------
(***************************************************************************)
(* Pci::scanAllBus (kernel/pci/pci.cpp) and the search for the USB host    *)
(* controller that kernelMain makes in its result.                         *)
(***************************************************************************)
EXTENDS Integers, Sequences, FiniteSets

CONSTANTS Buses, Devices, Functions,  \* how many of each (256, 32, 8)
          Capacity,                   \* the size of m_devices (32)
          Machines                    \* what may be plugged in where

Slots == (0 .. Buses - 1) \X (0 .. Devices - 1) \X (0 .. Functions - 1)

\* What answers in a slot: nothing (vendor 0xffff), an xHC (class 0c 03 30)
\* of Intel or of somebody else, or another device.
Kinds == {"none", "intelXhc", "xhc", "device"}

ASSUME PciAssumption ==
    /\ Buses \in 1 .. 256 /\ Devices \in 1 .. 32 /\ Functions \in 1 .. 8
    /\ Capacity \in Nat /\ Machines \subseteq [Slots -> Kinds]

VARIABLES machine,    \* what is plugged in
          at,         \* (busIndex, deviceIndex, functionIndex)
          devices,    \* the first m_deviceCount entries of m_devices
          status,     \* "scanning", "Pci_Success" or "Pci_FullArray"
          i,          \* devices looked at by the search, 0 before it
          xhc         \* index of the chosen device, 0 for nullptr

vars == <<machine, at, devices, status, i, xhc>>

Init == /\ machine \in Machines
        /\ at = <<0, 0, 0>> /\ devices = <<>> /\ status = "scanning"
        /\ i = 0 /\ xhc = 0

\* Mutant: a field of the address overlaps its neighbour.
MakeAddressNarrow(s, offset) == s[1] * 65536 + s[2] * 256 + s[3] * 256 + offset

\* makeAddress, without the enable bit: the fields begin at the bits 16, 11
\* and 8.
MakeAddress(s, offset) == s[1] * 65536 + s[2] * 2048 + s[3] * 256 + offset

\* The host bridge decodes CONFIG_ADDRESS and reads the slot it names.
SlotOf(address) == <<(address \div 65536) % 256, (address \div 2048) % 32,
                     (address \div 256) % 8>>
ConfigRead(address) ==
    IF SlotOf(address) \in Slots THEN machine[SlotOf(address)] ELSE "none"

\* The three nested loops; a function 7 that is not last carries over.
Following(s) ==
    IF s[3] + 1 < Functions THEN <<s[1], s[2], s[3] + 1>>
    ELSE IF s[2] + 1 < Devices THEN <<s[1], s[2] + 1, 0>>
    ELSE <<s[1] + 1, 0, 0>>

Proceed == /\ at' = Following(at)
           /\ status' = IF at'[1] = Buses THEN "Pci_Success" ELSE "scanning"

Full(n) == n >= Capacity

\* One pass of the loop body.  Vendor, class and header are three reads at
\* offsets 0, 8 and 12.
ScanEmpty == /\ status = "scanning"
             /\ ConfigRead(MakeAddress(at, 0)) = "none"
             /\ Proceed
             /\ UNCHANGED <<machine, devices, i, xhc>>

ScanDevice ==
    /\ status = "scanning"
    /\ ConfigRead(MakeAddress(at, 0)) # "none"
    /\ IF Full(Len(devices))
       THEN status' = "Pci_FullArray" /\ UNCHANGED <<at, devices>>
       ELSE /\ devices' = Append(devices,
                                 [slot |-> at,
                                  vendor |-> ConfigRead(MakeAddress(at, 0)),
                                  class |-> ConfigRead(MakeAddress(at, 8)),
                                  header |-> ConfigRead(MakeAddress(at, 12))])
            /\ Proceed
    /\ UNCHANGED <<machine, i, xhc>>

IsXhc(d) == d.class \in {"xhc", "intelXhc"}
IsIntel(d) == d.vendor = "intelXhc"

\* Mutant: the search goes on after an Intel controller.
StopsNever(d) == FALSE
Stops(d) == IsXhc(d) /\ IsIntel(d)

\* One pass of kernelMain's loop over the devices; it does not look at the
\* status of the scan.
Search ==
    /\ status # "scanning" /\ i < Len(devices)
    /\ xhc' = IF IsXhc(devices[i + 1]) THEN i + 1 ELSE xhc
    /\ i' = IF Stops(devices[i + 1]) THEN Len(devices) ELSE i + 1
    /\ UNCHANGED <<machine, at, devices, status>>

Next == ScanEmpty \/ ScanDevice \/ Search
Spec == Init /\ [][Next]_vars
-----------------------------------------------------------------------------
Plugged == {s \in Slots : machine[s] # "none"}
Before(s, t) == \/ s[1] < t[1]
                \/ s[1] = t[1] /\ s[2] < t[2]
                \/ s[1] = t[1] /\ s[2] = t[2] /\ s[3] < t[3]

\* The array is never written past its end, and a finished scan has recorded
\* every device with its own class and header, in the order of the slots;
\* Pci_FullArray says that some did not fit and never comes when all do
\* (pci.cpp:23).
ScanComplete ==
    /\ Len(devices) <= Capacity
    /\ status # "scanning" =>
        /\ \A k \in 1 .. Len(devices) :
               LET d == devices[k]
               IN  /\ {d.vendor, d.class, d.header} = {machine[d.slot]}
                   /\ \A l \in 1 .. k - 1 : Before(devices[l].slot, d.slot)
        /\ status = "Pci_Success" <=> Cardinality(Plugged) <= Capacity
        /\ status = "Pci_Success" =>
               {devices[k].slot : k \in 1 .. Len(devices)} = Plugged

\* A search that is over has the first controller of Intel, or the last one
\* of somebody else, or none because none was recorded (main.cpp:153-168).
ControllerChosen ==
    (status # "scanning" /\ i = Len(devices)) =>
        LET any == {k \in 1 .. Len(devices) : IsXhc(devices[k])}
            intel == {k \in any : IsIntel(devices[k])}
        IN  \/ xhc \in intel /\ \A k \in intel : xhc <= k
            \/ intel = {} /\ xhc \in any /\ \A k \in any : k <= xhc
            \/ any = {} /\ xhc = 0
=============================================================================
