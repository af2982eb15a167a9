----------------------------- MODULE PciProofs -----------------------------
(***************************************************************************)
(* Proofs about Pci, for every size of the bus tree within PCI's limits,   *)
(* every capacity and every machine.                                       *)
(***************************************************************************)
EXTENDS Pci, FiniteSetTheorems, TLAPS

Recorded == {devices[n].slot : n \in 1 .. Len(devices)}
Record(s) == [slot |-> s, vendor |-> machine[s], class |-> machine[s],
              header |-> machine[s]]

\* The scan is at a slot, or past the last one.
Place ==
    /\ machine \in [Slots -> Kinds]
    /\ status \in {"scanning", "Pci_Success", "Pci_FullArray"}
    /\ status # "Pci_Success" => at \in Slots
    /\ status = "Pci_Success" => at = <<Buses, 0, 0>>
    /\ status = "Pci_FullArray" => Len(devices) = Capacity /\ at \in Plugged

\* The array holds the devices the scan has passed, each once, in order.
Passed ==
    /\ devices \in Seq({Record(s) : s \in Plugged}) /\ Len(devices) <= Capacity
    /\ \A n \in 1 .. Len(devices) : \A m \in 1 .. n - 1 :
           Before(devices[m].slot, devices[n].slot)
    /\ Recorded = {s \in Plugged : Before(s, at)}
    /\ IsFiniteSet(Recorded) /\ Cardinality(Recorded) = Len(devices)

\* The search has an Intel controller and has stopped, or has seen none and
\* holds the last controller it has seen.
Chosen ==
    /\ i \in 0 .. Len(devices) /\ xhc \in 0 .. i
    /\ status = "scanning" => i = 0
    /\ \/ /\ xhc # 0 /\ Stops(devices[xhc]) /\ i = Len(devices)
          /\ \A n \in 1 .. xhc - 1 : ~Stops(devices[n])
       \/ /\ \A n \in 1 .. i : ~Stops(devices[n])
          /\ xhc # 0 => IsXhc(devices[xhc])
          /\ \A n \in xhc + 1 .. i : ~IsXhc(devices[n])

IInv == Place /\ Passed /\ Chosen
-----------------------------------------------------------------------------
\* An address, made of its bus, device, function and offset.
Packed(b, d, f, o) == b * 65536 + d * 2048 + f * 256 + o

\* The fields of an address do not reach into each other.
LEMMA FieldsOfAddress ==
    ASSUME NEW b \in 0 .. 255, NEW d \in 0 .. 31, NEW f \in 0 .. 7,
           NEW o \in 0 .. 255
    PROVE  SlotOf(Packed(b, d, f, o)) = <<b, d, f>>
<1> DEFINE a == b * 65536 + d * 2048 + f * 256 + o
<1>1. /\ a \div 65536 = b /\ a \div 2048 = b * 32 + d
      /\ a \div 256 = b * 256 + d * 8 + f
  OBVIOUS
<1>2. b % 256 = b /\ (b * 32 + d) % 32 = d /\ (b * 256 + d * 8 + f) % 8 = f
  OBVIOUS
<1>3. Packed(b, d, f, o) = a
  BY DEF Packed
<1> HIDE DEF a
<1>4. QED
  BY <1>1, <1>2, <1>3 DEF SlotOf

\* The host bridge finds the slot the address was made for, in each of the
\* three reads.
LEMMA AddressOfSlot ==
    ASSUME NEW s \in Slots, NEW offset \in {0, 8, 12}
    PROVE  SlotOf(MakeAddress(s, offset)) = s
<1>1. /\ s[1] \in 0 .. 255 /\ s[2] \in 0 .. 31 /\ s[3] \in 0 .. 7
      /\ s = <<s[1], s[2], s[3]>>
  BY PciAssumption DEF Slots
<1>2. offset \in 0 .. 255
  OBVIOUS
<1>3. MakeAddress(s, offset) = Packed(s[1], s[2], s[3], offset)
  BY DEF MakeAddress, Packed
<1>4. QED
  BY <1>1, <1>2, <1>3, FieldsOfAddress

\* So a read answers for the slot the scan is at.
LEMMA ReadsSlot ==
    ASSUME Place, at \in Slots, NEW offset \in {0, 8, 12}
    PROVE  ConfigRead(MakeAddress(at, offset)) = machine[at]
BY AddressOfSlot DEF ConfigRead

\* There are finitely many slots.
LEMMA SlotsFinite == IsFiniteSet(Slots)
<1> DEFINE pairs == (0 .. Buses - 1) \X (0 .. Devices - 1)
           nested == pairs \X (0 .. Functions - 1)
           f == [p \in nested |-> <<p[1][1], p[1][2], p[2]>>]
<1>1. IsFiniteSet(nested)
  <2>1. /\ Buses \in Int /\ Devices \in Int /\ Functions \in Int
    BY PciAssumption
  <2>2. /\ IsFiniteSet(0 .. Buses - 1) /\ IsFiniteSet(0 .. Devices - 1)
        /\ IsFiniteSet(0 .. Functions - 1)
    BY <2>1, FS_Interval
  <2>3. IsFiniteSet(pairs)
    BY <2>2, FS_Product
  <2>4. QED
    BY <2>2, <2>3, FS_Product
<1>2. f \in [nested -> Slots]
  BY DEF Slots
<1>3. \A s \in Slots : \E p \in nested : f[p] = s
  <2>1. SUFFICES ASSUME NEW s \in Slots
                 PROVE  \E p \in nested : f[p] = s
    OBVIOUS
  <2>2. <<<<s[1], s[2]>>, s[3]>> \in nested /\ s = <<s[1], s[2], s[3]>>
    BY DEF Slots
  <2>3. f[<<<<s[1], s[2]>>, s[3]>>] = s
    BY <2>2
  <2>4. QED
    BY <2>2, <2>3
<1>4. f \in Surjection(nested, Slots)
  BY <1>2, <1>3 DEF Surjection
<1>5. QED
  BY <1>1, <1>4, FS_Surjection

\* The three loops visit every slot, in the order of Before.
LEMMA FollowingSlot ==
    ASSUME NEW s \in Slots
    PROVE  /\ Following(s) \in Slots \union {<<Buses, 0, 0>>}
           /\ Following(s)[1] = Buses <=> Following(s) = <<Buses, 0, 0>>
           /\ \A t \in Slots : Before(t, Following(s)) <=> t = s \/ Before(t, s)
           /\ ~Before(s, s)
<1>1. /\ s[1] \in 0 .. Buses - 1 /\ s[2] \in 0 .. Devices - 1
      /\ s[3] \in 0 .. Functions - 1 /\ s = <<s[1], s[2], s[3]>>
  BY DEF Slots
<1>2. Buses \in Nat /\ Devices \in Nat /\ Functions \in Nat
  BY PciAssumption
<1>3. /\ Following(s) \in Slots \union {<<Buses, 0, 0>>}
      /\ Following(s)[1] = Buses <=> Following(s) = <<Buses, 0, 0>>
  BY <1>1, <1>2 DEF Following, Slots
<1>4. ASSUME NEW t \in Slots
      PROVE  Before(t, Following(s)) <=> t = s \/ Before(t, s)
  <2>1. /\ t[1] \in 0 .. Buses - 1 /\ t[2] \in 0 .. Devices - 1
        /\ t[3] \in 0 .. Functions - 1 /\ t = <<t[1], t[2], t[3]>>
    BY DEF Slots
  <2>2. t = s <=> t[1] = s[1] /\ t[2] = s[2] /\ t[3] = s[3]
    BY <1>1, <2>1
  <2>3. QED
    BY <1>1, <1>2, <2>1, <2>2 DEF Following, Before
<1>5. ~Before(s, s)
  BY <1>1 DEF Before
<1>6. QED
  BY <1>3, <1>4, <1>5
-----------------------------------------------------------------------------
\* The scan begins at a slot with nothing recorded.
LEMMA InitInv == Init => IInv
<1> SUFFICES ASSUME Init PROVE IInv
  OBVIOUS
<1>1. <<0, 0, 0>> \in Slots
  BY PciAssumption DEF Slots
<1>2. Place
  BY <1>1, PciAssumption DEF Init, Place
<1>3. Recorded = {} /\ {s \in Plugged : Before(s, at)} = {}
  BY DEF Init, Recorded, Plugged, Before, Slots
<1>4. Passed
  BY <1>3, PciAssumption, FS_EmptySet DEF Init, Passed
<1>5. Chosen
  BY DEF Init, Chosen
<1>6. QED
  BY <1>2, <1>4, <1>5 DEF IInv

\* A pass of the scan finds in the slot what the machine has there.
LEMMA PassReads ==
    ASSUME IInv, status = "scanning"
    PROVE  /\ at \in Slots
           /\ ScanEmpty => machine[at] = "none"
           /\ ScanDevice =>
                /\ at \in Plugged
                /\ IF Len(devices) >= Capacity
                   THEN status' = "Pci_FullArray" /\ UNCHANGED <<at, devices>>
                   ELSE devices' = Append(devices, Record(at)) /\ Proceed
<1>1. Place /\ at \in Slots
  BY DEF IInv, Place
<1>2. /\ ConfigRead(MakeAddress(at, 0)) = machine[at]
      /\ ConfigRead(MakeAddress(at, 8)) = machine[at]
      /\ ConfigRead(MakeAddress(at, 12)) = machine[at]
  BY <1>1, ReadsSlot
<1>3. QED
  BY <1>1, <1>2 DEF ScanEmpty, ScanDevice, Full, Record, Plugged

\* The scan stays on the machine and stops at the end or at the full array.
LEMMA PlaceStep == IInv /\ [Next]_vars => Place'
<1> SUFFICES ASSUME IInv, [Next]_vars PROVE Place'
  OBVIOUS
<1>1. ASSUME status = "scanning", Proceed, UNCHANGED machine
      PROVE  Place'
  BY <1>1, FollowingSlot DEF IInv, Place, Proceed
<1>2. CASE ScanEmpty
  BY <1>1, <1>2 DEF ScanEmpty
<1>3. CASE ScanDevice
  <2>1. CASE Len(devices) >= Capacity
    <3>1. Len(devices) = Capacity
      BY <2>1, PciAssumption DEF IInv, Passed
    <3>2. /\ at \in Plugged /\ status' = "Pci_FullArray" /\ machine' = machine
          /\ at \in Slots /\ at' = at /\ devices' = devices
      BY <1>3, <2>1, PassReads DEF ScanDevice
    <3>3. QED
      BY <3>1, <3>2 DEF IInv, Place, Plugged
  <2>2. CASE ~(Len(devices) >= Capacity)
    BY <1>1, <1>3, <2>2, PassReads DEF ScanDevice
  <2>3. QED
    BY <2>1, <2>2
<1>4. CASE Search \/ UNCHANGED vars
  BY <1>4 DEF IInv, Place, Plugged, Search, vars
<1>5. QED
  BY <1>2, <1>3, <1>4 DEF Next

\* Recording the device at the slot of the scan keeps the array in order.
LEMMA RecordingKeepsOrder ==
    ASSUME IInv, status = "scanning", at \in Plugged, Len(devices) < Capacity,
           devices' = Append(devices, Record(at)), Proceed, UNCHANGED machine
    PROVE  Passed'
<1>1. /\ at \in Slots /\ devices \in Seq({Record(s) : s \in Plugged})
      /\ Recorded = {s \in Plugged : Before(s, at)}
      /\ IsFiniteSet(Recorded) /\ Cardinality(Recorded) = Len(devices)
  BY DEF IInv, Place, Passed
<1>2. Plugged' = Plugged /\ \A s : Record(s)' = Record(s)
  BY DEF Plugged, Record
<1>3. /\ devices' \in Seq({Record(s) : s \in Plugged})
      /\ Len(devices') = Len(devices) + 1 /\ Len(devices) \in Nat
      /\ devices'[Len(devices) + 1] = Record(at)
      /\ \A n \in 1 .. Len(devices) : devices'[n] = devices[n]
  <2>1. Record(at) \in {Record(s) : s \in Plugged}
    OBVIOUS
  <2> HIDE DEF Record
  <2>2. QED
    BY <1>1, <2>1
<1>4. Recorded' = Recorded \union {at}
  <2>1. Record(at).slot = at
    BY DEF Record
  <2>2. QED
    BY <1>3, <2>1 DEF Recorded
<1>5. at \notin Recorded
  BY <1>1, FollowingSlot
<1>6. IsFiniteSet(Recorded') /\ Cardinality(Recorded') = Len(devices')
  <2>1. /\ IsFiniteSet(Recorded \union {at})
        /\ Cardinality(Recorded \union {at}) = Cardinality(Recorded) + 1
    BY <1>1, <1>5, FS_AddElement
  <2>2. QED
    BY <1>1, <1>3, <1>4, <2>1
<1>7. Recorded' = {s \in Plugged : Before(s, at')}
  <2>1. \A s \in Plugged : Before(s, at') <=> s = at \/ Before(s, at)
    BY <1>1, FollowingSlot DEF Proceed, Plugged
  <2>2. QED
    BY <1>1, <1>4, <2>1
<1>8. ASSUME NEW n \in 1 .. Len(devices'), NEW m \in 1 .. n - 1
      PROVE  Before(devices'[m].slot, devices'[n].slot)
  <2>1. CASE n \in 1 .. Len(devices)
    <3>1. m \in 1 .. Len(devices)
      BY <1>3, <2>1
    <3>2. Before(devices[m].slot, devices[n].slot)
      BY <2>1 DEF IInv, Passed
    <3>3. QED
      BY <1>3, <2>1, <3>1, <3>2
  <2>2. CASE n = Len(devices) + 1
    <3>1. m \in 1 .. Len(devices) /\ devices[m].slot \in Recorded
      BY <1>3, <2>2 DEF Recorded
    <3>2. Before(devices[m].slot, at)
      BY <1>1, <3>1
    <3>3. devices'[n].slot = at /\ devices'[m] = devices[m]
      BY <1>3, <2>2, <3>1 DEF Record
    <3>4. QED
      BY <3>2, <3>3
  <2>3. QED
    BY <1>3, <2>1, <2>2
<1>9. devices' \in Seq({Record(s) : s \in Plugged})'
  BY <1>2, <1>3
<1>10. QED
  BY <1>2, <1>3, <1>6, <1>7, <1>8, <1>9, PciAssumption DEF Passed

\* Every pass leaves the array with the devices passed.
LEMMA PassedStep == IInv /\ [Next]_vars => Passed'
<1> SUFFICES ASSUME IInv, [Next]_vars PROVE Passed'
  OBVIOUS
<1>1. ASSUME UNCHANGED <<machine, devices, at>> PROVE Passed'
  BY <1>1 DEF IInv, Passed, Recorded, Plugged, Record
<1>2. CASE ScanEmpty
  <2>1. /\ at \in Slots /\ at \notin Plugged /\ Proceed
        /\ devices' = devices /\ machine' = machine
    BY <1>2, PassReads DEF ScanEmpty, Plugged
  <2>2. \A s \in Plugged : Before(s, at') <=> Before(s, at)
    BY <2>1, FollowingSlot DEF Proceed, Plugged
  <2>3. Plugged' = Plugged /\ Recorded' = Recorded
    BY <2>1 DEF Plugged, Recorded
  <2>4. {Record(s) : s \in Plugged}' = {Record(s) : s \in Plugged}
    BY <2>1 DEF Plugged, Record
  <2>5. QED
    BY <2>1, <2>2, <2>3, <2>4 DEF IInv, Passed
<1>3. CASE ScanDevice
  <2>1. CASE Len(devices) >= Capacity
    BY <1>1, <1>3, <2>1, PassReads DEF ScanDevice
  <2>2. CASE ~(Len(devices) >= Capacity)
    <3>1. Len(devices) < Capacity
      BY <2>2, PciAssumption DEF IInv, Passed
    <3>2. QED
      BY <1>3, <2>2, <3>1, PassReads, RecordingKeepsOrder DEF ScanDevice
  <2>3. QED
    BY <2>1, <2>2
<1>4. CASE Search \/ UNCHANGED vars
  BY <1>1, <1>4 DEF Search, vars
<1>5. QED
  BY <1>2, <1>3, <1>4 DEF Next

\* Every look at a device leaves the search with the right controller.
LEMMA ChosenStep == IInv /\ [Next]_vars => Chosen'
<1> SUFFICES ASSUME IInv, [Next]_vars PROVE Chosen'
  OBVIOUS
<1>1. Len(devices) \in Nat
  BY DEF IInv, Passed
<1>2. CASE ScanEmpty \/ ScanDevice
  <2>1. i' = 0 /\ xhc' = 0
    BY <1>2 DEF IInv, Chosen, ScanEmpty, ScanDevice
  <2>2. devices' = devices \/ devices' = Append(devices, Record(at))
    BY <1>2, PassReads DEF ScanEmpty, ScanDevice
  <2>3. Len(devices') \in Nat
    BY <1>1, <2>2 DEF IInv, Passed
  <2>4. QED
    BY <2>1, <2>3 DEF Chosen
<1>3. CASE Search
  <2>1. /\ i \in 0 .. Len(devices) - 1 /\ i + 1 \in 1 .. Len(devices)
        /\ status' = status /\ status # "scanning" /\ devices' = devices
        /\ xhc \in 0 .. i /\ \A n \in 1 .. i : ~Stops(devices[n])
        /\ xhc # 0 => IsXhc(devices[xhc])
        /\ \A n \in xhc + 1 .. i : ~IsXhc(devices[n])
    BY <1>1, <1>3 DEF IInv, Chosen, Search
  <2>2. CASE Stops(devices[i + 1])
    <3>1. xhc' = i + 1 /\ i' = Len(devices)
      BY <1>3, <2>2 DEF Search, Stops
    <3>2. QED
      BY <1>1, <2>1, <2>2, <3>1 DEF Chosen, Stops, IsXhc, IsIntel
  <2>3. CASE ~Stops(devices[i + 1])
    <3>1. i' = i + 1 /\ xhc' = IF IsXhc(devices[i + 1]) THEN i + 1 ELSE xhc
      BY <1>3, <2>3 DEF Search
    <3>2. \A n \in 1 .. i' : ~Stops(devices[n])
      BY <2>1, <2>3, <3>1
    <3>3. /\ xhc' # 0 => IsXhc(devices[xhc'])
          /\ \A n \in xhc' + 1 .. i' : ~IsXhc(devices[n])
      BY <2>1, <3>1
    <3>4. QED
      BY <1>1, <2>1, <3>1, <3>2, <3>3 DEF Chosen, Stops, IsXhc, IsIntel
  <2>4. QED
    BY <2>2, <2>3
<1>4. CASE UNCHANGED vars
  BY <1>4 DEF IInv, Chosen, vars, Stops, IsXhc, IsIntel
<1>5. QED
  BY <1>2, <1>3, <1>4 DEF Next

\* The invariant holds throughout.
LEMMA InductiveInvariant == Spec => []IInv
<1>1. IInv /\ [Next]_vars => IInv'
  BY PlaceStep, PassedStep, ChosenStep DEF IInv
<1>2. QED
  BY InitInv, <1>1, PTL DEF Spec
-----------------------------------------------------------------------------
\* Whatever the machine has, the array is never written past its end, and a
\* finished scan has every device, or has filled the array and says so.
THEOREM ScanIsComplete == Spec => []ScanComplete
<1>1. IInv => ScanComplete
  <2> SUFFICES ASSUME IInv PROVE ScanComplete
    OBVIOUS
  <2>1. /\ Len(devices) <= Capacity /\ Len(devices) \in Nat /\ Capacity \in Nat
        /\ Recorded = {s \in Plugged : Before(s, at)}
        /\ IsFiniteSet(Recorded) /\ Cardinality(Recorded) = Len(devices)
    BY PciAssumption DEF IInv, Passed
  <2>2. ASSUME NEW k \in 1 .. Len(devices)
        PROVE  /\ {devices[k].vendor, devices[k].class, devices[k].header}
                      = {machine[devices[k].slot]}
               /\ \A l \in 1 .. k - 1 : Before(devices[l].slot, devices[k].slot)
    <3>1. PICK s \in Plugged : devices[k] = Record(s)
      <4> DEFINE kept == {Record(s) : s \in Plugged}
      <4>1. devices \in Seq(kept)
        BY DEF IInv, Passed
      <4>2. devices[k] \in kept
        <5> HIDE DEF kept
        <5>1. QED
          BY <4>1
      <4>3. QED
        BY <4>2
    <3>2. {devices[k].vendor, devices[k].class, devices[k].header}
              = {machine[devices[k].slot]}
      BY <3>1 DEF Record
    <3>3. QED
      BY <3>2 DEF IInv, Passed
  <2>3. CASE status = "Pci_Success"
    <3>1. \A s \in Plugged : Before(s, at)
      BY <2>3, PciAssumption DEF IInv, Place, Before, Plugged, Slots
    <3>2. Recorded = Plugged
      BY <2>1, <3>1
    <3>3. QED
      BY <2>1, <2>2, <2>3, <3>2 DEF ScanComplete, Recorded
  <2>4. CASE status = "Pci_FullArray"
    <3>1. at \in Plugged /\ at \in Slots /\ Len(devices) = Capacity
      BY <2>4 DEF IInv, Place
    <3>2. at \notin Recorded /\ Recorded \union {at} \in SUBSET Plugged
      BY <2>1, <3>1, FollowingSlot
    <3>3. IsFiniteSet(Plugged)
      <4>1. Plugged \in SUBSET Slots
        BY DEF Plugged
      <4>2. QED
        BY <4>1, SlotsFinite, FS_Subset
    <3>4. Cardinality(Recorded \union {at}) <= Cardinality(Plugged)
      BY <3>2, <3>3, FS_Subset
    <3>5. Cardinality(Recorded \union {at}) = Capacity + 1
      BY <2>1, <3>1, <3>2, FS_AddElement
    <3>6. Cardinality(Plugged) \in Nat
      BY <3>3, FS_CardinalityType
    <3>7. ~(Cardinality(Plugged) <= Capacity)
      BY <2>1, <3>4, <3>5, <3>6
    <3>8. QED
      BY <2>1, <2>2, <2>4, <3>7 DEF ScanComplete
  <2>5. CASE status = "scanning"
    BY <2>1, <2>5 DEF ScanComplete
  <2>6. QED
    BY <2>3, <2>4, <2>5 DEF IInv, Place
<1>2. QED
  BY <1>1, InductiveInvariant, PTL

\* The search ends at the first controller of Intel, at the last of anybody
\* else when there is none, and at nothing when there is no controller.
THEOREM ControllerIsChosen == Spec => []ControllerChosen
<1>1. IInv => ControllerChosen
  <2> SUFFICES ASSUME IInv, status # "scanning", i = Len(devices)
               PROVE  ControllerChosen
    BY DEF ControllerChosen
  <2> DEFINE any == {k \in 1 .. Len(devices) : IsXhc(devices[k])}
             intel == {k \in any : IsIntel(devices[k])}
  <2>1. Len(devices) \in Nat /\ xhc \in 0 .. Len(devices)
    BY DEF IInv, Passed, Chosen
  <2>2. intel = {k \in 1 .. Len(devices) : Stops(devices[k])}
    BY DEF Stops
  <2>3. CASE /\ xhc # 0 /\ Stops(devices[xhc])
             /\ \A n \in 1 .. xhc - 1 : ~Stops(devices[n])
    <3>1. xhc \in intel /\ \A k \in intel : xhc <= k
      BY <2>1, <2>2, <2>3
    <3>2. QED
      BY <3>1 DEF ControllerChosen
  <2>4. CASE /\ \A n \in 1 .. i : ~Stops(devices[n])
             /\ xhc # 0 => IsXhc(devices[xhc])
             /\ \A n \in xhc + 1 .. i : ~IsXhc(devices[n])
    <3>1. intel = {}
      BY <2>2, <2>4
    <3>2. \/ xhc \in any /\ \A k \in any : k <= xhc
          \/ any = {} /\ xhc = 0
      BY <2>1, <2>4
    <3>3. QED
      BY <3>1, <3>2 DEF ControllerChosen
  <2>5. QED
    BY <2>3, <2>4 DEF IInv, Chosen
<1>2. QED
  BY <1>1, InductiveInvariant, PTL
=============================================================================
