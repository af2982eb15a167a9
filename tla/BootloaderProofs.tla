-------------------------- MODULE BootloaderProofs --------------------------
(***************************************************************************)
(* Proofs about Bootloader, for every set of well-linked kernels, page     *)
(* size, memory map and display, and whatever the firmware answers.        *)
(***************************************************************************)
EXTENDS Bootloader, WellFoundedInduction, TLAPS

\* Where the copying has not begun, and where it is over.
Preparing == {"getMap", "openMemmap", "writeHeader", "writeMemmap",
              "openKernel", "allocatePool", "readKernel", "allocatePages"}
Leaving == {"openGop", "exit", "getMapAgain", "exitAgain", "readEntry",
            "selectFormat", "started"}

\* One of the images, and counters that count.
Types == /\ image \in Images /\ map \in Nat /\ mapSize \in Nat
         /\ i \in Nat /\ (pc = "copy" => i # 0)

\* The kernel's entry is read when the firmware is gone; a second attempt
\* means that a first was made.
Left ==
    /\ pc \in {"readEntry", "selectFormat", "started"} => services = "off"
    /\ pc \in {"getMapAgain", "exitAgain"} => services = "leaving"

\* Where the loader has not written to the file yet, and where it still does.
Unwritten == {"getMap", "openMemmap", "writeHeader"}
Unlisted == Unwritten \union {"writeMemmap"}

\* The file is the lines written so far and what an earlier start left behind
\* them; without a failure they are the ones of the map.
Listed ==
    /\ file \in Seq({Old, Header, Torn} \union {Entry(n) : n \in Nat})
    /\ position \in 0 .. Len(file)
    /\ \A l \in DOMAIN file : position < l => file[l] = Old
    /\ ~failed => \A l \in DOMAIN file : l <= position => file[l] = Line(l)
    /\ pc \in Unwritten => position = 0
    /\ pc = "writeMemmap" => i <= mapSize /\ (~failed => position = i + 1)
    /\ pc \notin Unlisted \union {"lost"} /\ services = "on" /\ ~failed =>
           position = mapSize + 1

\* Nothing is written before there are pages, and then into them.
Placed ==
    /\ pc \in Preparing => \A a \in Address : memory[a] = Junk
    /\ pc = "copy" => pages = FirstAddr .. FirstAddr + PageSize * PageCount - 1
    /\ pc = "copy" \/ pc \in Leaving => first = FirstAddr
    /\ WritesInPages

\* What a loaded segment looks like, and the segments that are loaded.
Present(ph) ==
    \A a \in AllBytes(ph) :
        memory[a] = IF a \in FileBytes(ph)
                    THEN Byte(ph.offset + a - ph.vaddr) ELSE Zero

\* The loop has copied the segments before the one it is at.
Copying ==
    /\ pc = "copy" => \A j \in DOMAIN image :
           j < i /\ IsLoad(image[j]) => Present(image[j])
    /\ pc \in Leaving => \A ph \in Loads(image) : Present(ph)

\* What was read as the entry is that field of the file.
EntryRead == pc \in {"selectFormat", "started"} => entry = Byte(EntryField)

IInv == Types /\ Left /\ Listed /\ Placed /\ Copying /\ EntryRead
-----------------------------------------------------------------------------
\* A set of numbers has a least one.
LEMMA LeastNumber ==
    ASSUME NEW S \in SUBSET Nat, S # {}
    PROVE  \E n \in S : \A m \in S : n <= m
<1>1. \E n \in S : \A m \in S : ~(<<m, n>> \in OpToRel(<, Nat))
  BY NatLessThanWellFounded, WFMin, Zenon
<1>2. PICK n \in S : \A m \in S : ~(<<m, n>> \in OpToRel(<, Nat))
  BY <1>1, Zenon
<1>3. \A m \in S : <<m, n>> \in Nat \X Nat
  OBVIOUS
<1>4. \A m \in S : ~(m < n)
  BY <1>2, <1>3, Zenon DEF OpToRel
<1>5. \A m \in S : n <= m
  BY <1>4
<1>6. QED
  BY <1>5

\* A set of bounded numbers has a greatest one.
LEMMA GreatestNumber ==
    ASSUME NEW b \in Nat, NEW S \in SUBSET (0 .. b), S # {}
    PROVE  \E n \in S : \A m \in S : m <= n
<1> DEFINE T == {b - n : n \in S}
<1>1. T \in SUBSET Nat
  OBVIOUS
<1>2. T # {}
  <2>1. PICK n \in S : TRUE
    OBVIOUS
  <2>2. b - n \in T
    BY <2>1
  <2>3. QED
    BY <2>2
<1>3. PICK t \in T : \A u \in T : t <= u
  BY <1>1, <1>2, LeastNumber
<1>4. PICK n \in S : t = b - n
  BY <1>3
<1>5. \A m \in S : b - n <= b - m
  BY <1>3, <1>4
<1>6. \A m \in S : m <= n
  BY <1>5
<1>7. QED
  BY <1>6

\* What the assumption says of one kernel.
LEMMA KernelFile ==
    ASSUME NEW im \in Images
    PROVE  /\ Len(im) \in Nat /\ DOMAIN im = 1 .. Len(im)
           /\ \A ph \in Loads(im) :
                  /\ ph.offset \in Nat /\ ph.vaddr \in Nat /\ ph.filesz \in Nat
                  /\ ph.memsz \in Nat /\ ph.filesz <= ph.memsz
                  /\ ph.vaddr + ph.memsz <= MemoryTop
                  /\ FileBytes(ph) \subseteq AllBytes(ph)
                  /\ AllBytes(ph) \subseteq Address
           /\ \A p, q \in Loads(im) : p # q => AllBytes(p) \cap AllBytes(q) = {}
           /\ \E low \in Loads(im) :
                  /\ low.offset = 0 /\ EntryField < low.filesz
                  /\ \A ph \in Loads(im) : low.vaddr <= ph.vaddr
<1>1. WellLinked(im)
  BY BootloaderAssumption
<1>2. Len(im) \in Nat /\ DOMAIN im = 1 .. Len(im)
  BY <1>1 DEF WellLinked
<1>3. ASSUME NEW ph \in Loads(im)
      PROVE  /\ ph.offset \in Nat /\ ph.vaddr \in Nat /\ ph.filesz \in Nat
             /\ ph.memsz \in Nat /\ ph.filesz <= ph.memsz
             /\ ph.vaddr + ph.memsz <= MemoryTop
  <2>1. ph \in ProgramHeader
    BY <1>1, <1>2, <1>3 DEF Loads, WellLinked
  <2>2. QED
    BY <1>1, <2>1 DEF WellLinked, ProgramHeader
<1>4. ASSUME NEW ph \in Loads(im)
      PROVE  /\ FileBytes(ph) \subseteq AllBytes(ph)
             /\ AllBytes(ph) \subseteq Address
  BY <1>3, BootloaderAssumption DEF FileBytes, AllBytes, Address
<1>5. QED
  BY <1>1, <1>2, <1>3, <1>4 DEF WellLinked

\* CalcLoadAddressRange finds the lowest and the highest address.
LEMMA LoadRange ==
    ASSUME image \in Images
    PROVE  /\ FirstAddr \in Nat /\ LastAddr \in Nat /\ FirstAddr <= LastAddr
           /\ \A ph \in Loads(image) : /\ FirstAddr <= ph.vaddr
                                       /\ ph.vaddr + ph.memsz <= LastAddr
<1> DEFINE starts == {ph.vaddr : ph \in Loads(image)}
           ends == {ph.vaddr + ph.memsz : ph \in Loads(image)}
<1>1. \A ph \in Loads(image) : ph.vaddr \in Nat /\ ph.memsz \in Nat
                               /\ ph.vaddr + ph.memsz <= MemoryTop
  BY KernelFile
<1>2. PICK low \in Loads(image) : \A ph \in Loads(image) : low.vaddr <= ph.vaddr
  BY KernelFile
<1>3. FirstAddr \in starts /\ \A ph \in Loads(image) : FirstAddr <= ph.vaddr
  <2>1. \E a \in starts : \A ph \in Loads(image) : a <= ph.vaddr
    BY <1>2
  <2>2. QED
    BY <2>1, Zenon DEF FirstAddr
<1>4. /\ LastAddr \in ends
      /\ \A ph \in Loads(image) : ph.vaddr + ph.memsz <= LastAddr
  <2>1. ends \in SUBSET (0 .. MemoryTop) /\ ends # {}
    BY <1>1, <1>2
  <2>2. \E a \in ends : \A e \in ends : e <= a
    BY <2>1, GreatestNumber, BootloaderAssumption
  <2>3. \E a \in ends : \A ph \in Loads(image) : ph.vaddr + ph.memsz <= a
    BY <2>2
  <2>4. QED
    BY <2>3, Zenon DEF LastAddr
<1>5. FirstAddr \in Nat /\ LastAddr \in Nat
  BY <1>1, <1>3, <1>4
<1>6. FirstAddr <= LastAddr
  BY <1>1, <1>2, <1>3, <1>4, <1>5
<1>7. QED
  BY <1>3, <1>4, <1>5, <1>6

\* The pages asked for hold every byte of every segment.
LEMMA PagesCover ==
    ASSUME image \in Images, NEW ph \in Loads(image)
    PROVE  AllBytes(ph) \subseteq
               FirstAddr .. FirstAddr + PageSize * PageCount - 1
<1> DEFINE size == LastAddr - FirstAddr
<1>1. size \in Nat /\ PageSize \in Nat \ {0}
  BY LoadRange, BootloaderAssumption
<1>2. /\ (size + PageSize - 1) \div PageSize \in Int
      /\ size <= PageSize * ((size + PageSize - 1) \div PageSize)
  <2> HIDE DEF size
  <2>1. size + PageSize - 1
            = PageSize * ((size + PageSize - 1) \div PageSize)
              + ((size + PageSize - 1) % PageSize)
    BY <1>1
  <2>2. (size + PageSize - 1) % PageSize \in 0 .. PageSize - 1
    BY <1>1
  <2>3. (size + PageSize - 1) \div PageSize \in Int
    BY <1>1
  <2>4. PageSize * ((size + PageSize - 1) \div PageSize) \in Int
    BY <1>1, <2>3
  <2>5. QED
    BY <1>1, <2>1, <2>2, <2>3, <2>4
<1>3. PageCount = (size + PageSize - 1) \div PageSize
  BY DEF PageCount
<1>4. PageSize * PageCount \in Int /\ size <= PageSize * PageCount
  BY <1>1, <1>2, <1>3
<1>5. ph.vaddr \in Nat /\ ph.memsz \in Nat
  BY KernelFile
<1>6. FirstAddr <= ph.vaddr /\ ph.vaddr + ph.memsz <= LastAddr
      /\ FirstAddr \in Nat /\ LastAddr \in Nat
  BY LoadRange
<1> HIDE DEF size
<1>7. LastAddr = FirstAddr + size
  BY <1>6 DEF size
<1>8. QED
  BY <1>1, <1>4, <1>5, <1>6, <1>7 DEF AllBytes
-----------------------------------------------------------------------------
\* The memory the firmware hands over satisfies every part.
LEMMA InitInv == Init => IInv
<1> SUFFICES ASSUME Init PROVE IInv
  OBVIOUS
<1>1. Types /\ Left /\ Listed /\ EntryRead
  BY BootloaderAssumption
     DEF Init, Types, Left, Listed, Unwritten, Unlisted, EntryRead
<1>2. Placed /\ Copying
  BY DEF Init, Placed, Preparing, Leaving, WritesInPages, Copying
<1>3. QED
  BY <1>1, <1>2 DEF IInv

\* The kernel's file does not change, and most steps leave memory alone.
LEMMA Frame ==
    ASSUME IInv, [Next]_vars
    PROVE  /\ image' = image
           /\ ~CopySegment => memory' = memory
           /\ ~AllocatePages => first' = first /\ pages' = pages
           /\ ~ReadEntry => entry' = entry
BY DEF Next, LoaderStep, vars, machine, loaded, Goto, GetMap, OpenMemmap,
       WriteHeader, WriteEntry, OpenKernel, AllocatePool, ReadKernel, AllocatePages,
       CopySegment, FreePool, OpenGop, Exit, GetMapAgain, ExitAgain,
       ReadEntry, SelectFormat, Timer

\* Every step keeps the types: at most one write after another.
LEMMA TypesStep == ASSUME IInv, [Next]_vars PROVE Types'
<1> USE BootloaderAssumption DEF IInv, Types
<1>1. image' \in Images
  BY Frame
<1>2. i' \in Nat /\ (pc' = "copy" => i' # 0)
  BY DEF Next, LoaderStep, vars, machine, loaded, memmap, Goto, GetMap,
         OpenMemmap, WriteHeader, WriteEntry, OpenKernel, AllocatePool,
         ReadKernel, AllocatePages, CopySegment, FreePool, OpenGop, Exit,
         GetMapAgain, ExitAgain, ReadEntry, SelectFormat, Timer
<1>3. map' \in Nat /\ mapSize' \in Nat
  BY DEF Next, LoaderStep, vars, machine, loaded, memmap, Goto, GetMap,
         OpenMemmap, WriteHeader, WriteEntry, OpenKernel, AllocatePool,
         ReadKernel, AllocatePages, CopySegment, FreePool, OpenGop, Exit,
         GetMapAgain, ExitAgain, ReadEntry, SelectFormat, Timer, GetMemoryMap,
         MapMayChange
<1>4. QED
  BY <1>1, <1>2, <1>3

\* The kernel is reached only after a successful exit.
LEMMA LeftStep == ASSUME IInv, [Next]_vars PROVE Left'
BY DEF IInv, Left, Next, LoaderStep, vars, machine, loaded, Goto, GetMap,
       OpenMemmap, WriteHeader,
       WriteEntry, OpenKernel, AllocatePool, ReadKernel,
       AllocatePages, CopySegment, FreePool, OpenGop, Exit, GetMapAgain,
       ExitAgain, ReadEntry, SelectFormat, Timer

\* A write changes one line of the file.
LEMMA OneLine ==
    ASSUME NEW S, file \in Seq(S), position \in 0 .. Len(file), NEW line \in S
    PROVE  /\ Overwritten(line) \in Seq(S)
           /\ position + 1 \in 0 .. Len(Overwritten(line))
           /\ DOMAIN Overwritten(line) = DOMAIN file \union {position + 1}
           /\ \A l \in DOMAIN Overwritten(line) :
                  Overwritten(line)[l] = IF l = position + 1 THEN line ELSE file[l]
<1> DEFINE m == IF position < Len(file) THEN Len(file) ELSE position + 1
<1>1. m \in Nat /\ position + 1 \in 1 .. m
  OBVIOUS
<1>2. DOMAIN file \union {position + 1} = 1 .. m
  OBVIOUS
<1> HIDE DEF m
<1>3. Overwritten(line) =
          [l \in 1 .. m |-> IF l = position + 1 THEN line ELSE file[l]]
  BY <1>2 DEF Overwritten
<1>4. \A l \in 1 .. m : (IF l = position + 1 THEN line ELSE file[l]) \in S
  BY <1>2
<1>5. Overwritten(line) \in Seq(S) /\ Len(Overwritten(line)) = m
  BY <1>1, <1>3, <1>4
<1>6. QED
  BY <1>1, <1>2, <1>3, <1>5

\* After a write the file is as Listed says, if the line is the one for its
\* place unless a write before it has failed.
LEMMA WriteListed ==
    ASSUME Listed, NEW line, Write(line),
           line \in {Old, Header, Torn} \union {Entry(n) : n \in Nat},
           ~failed => line = Line(position + 1)
    PROVE  /\ file' \in Seq({Old, Header, Torn} \union {Entry(n) : n \in Nat})
           /\ position' \in 0 .. Len(file')
           /\ \A l \in DOMAIN file' : position' < l => file'[l] = Old
           /\ ~failed' => /\ position' = position + 1 /\ ~failed
                          /\ \A l \in DOMAIN file' :
                                 l <= position' => file'[l] = Line(l)
<1> DEFINE S == {Old, Header, Torn} \union {Entry(n) : n \in Nat}
<1>1. /\ file \in Seq(S) /\ position \in 0 .. Len(file) /\ Torn \in S
      /\ \A l \in DOMAIN file : position < l => file[l] = Old
      /\ ~failed => \A l \in DOMAIN file : l <= position => file[l] = Line(l)
  BY DEF Listed
<1>2. ASSUME NEW this \in S, file' = Overwritten(this), position' = position + 1
      PROVE  /\ file' \in Seq(S) /\ position' \in 0 .. Len(file')
             /\ \A l \in DOMAIN file' : position' < l => file'[l] = Old
  <2>1. /\ file' \in Seq(S) /\ position' \in 0 .. Len(file')
        /\ DOMAIN file' = DOMAIN file \union {position + 1}
        /\ \A l \in DOMAIN file' :
               file'[l] = IF l = position + 1 THEN this ELSE file[l]
    <3> HIDE DEF S
    <3>1. QED
      BY <1>1, <1>2, OneLine
  <2>2. ASSUME NEW l \in DOMAIN file', position' < l
        PROVE  file'[l] = Old
    <3>1. l \in DOMAIN file /\ l # position + 1 /\ position < l
      BY <1>1, <1>2, <2>1, <2>2
    <3>2. QED
      BY <1>1, <2>1, <3>1
  <2>3. QED
    BY <2>1, <2>2
<1>3. CASE /\ file' = Overwritten(line) /\ position' = position + 1
           /\ failed' = failed
  <2>1. /\ DOMAIN file' = DOMAIN file \union {position + 1}
        /\ \A l \in DOMAIN file' :
               file'[l] = IF l = position + 1 THEN line ELSE file[l]
    <3> HIDE DEF S
    <3>1. line \in S
      BY DEF S
    <3>2. QED
      BY <1>1, <1>3, <3>1, OneLine
  <2>2. ASSUME ~failed', NEW l \in DOMAIN file', l <= position'
        PROVE  file'[l] = Line(l)
    <3>1. CASE l = position + 1
      BY <1>3, <2>1, <2>2, <3>1
    <3>2. CASE l # position + 1
      <4>1. l \in DOMAIN file /\ l <= position
        BY <1>1, <1>3, <2>1, <2>2, <3>2
      <4>2. QED
        BY <1>1, <1>3, <2>1, <2>2, <3>2, <4>1
    <3>3. QED
      BY <3>1, <3>2
  <2>3. QED
    BY <1>2, <1>3, <2>2
<1>4. CASE file' = Overwritten(Torn) /\ position' = position + 1 /\ failed'
  BY <1>1, <1>2, <1>4
<1>5. CASE file' = file /\ position' = position /\ failed'
  BY <1>1, <1>5
<1>6. QED
  BY <1>3, <1>4, <1>5 DEF Write

\* What is written of the memory map is what was got.
LEMMA ListedStep == ASSUME IInv, [Next]_vars PROVE Listed'
<1> USE DEF IInv, Types, Unwritten, Unlisted
<1>1. CASE GetMap
  BY <1>1 DEF GetMap, Goto, Listed, memmap
<1>2. CASE OpenMemmap
  BY <1>2 DEF OpenMemmap, Listed, memmap
<1>3. CASE WriteHeader
  <2>1. /\ pc = "writeHeader" /\ pc' = "writeMemmap" /\ i' = 0
        /\ mapSize' = mapSize /\ Write(Header) /\ position = 0
    BY <1>3 DEF WriteHeader, Goto, Listed
  <2>2. Header = Line(position + 1)
    BY <2>1 DEF Line
  <2>3. /\ file' \in Seq({Old, Header, Torn} \union {Entry(n) : n \in Nat})
        /\ position' \in 0 .. Len(file')
        /\ \A l \in DOMAIN file' : position' < l => file'[l] = Old
        /\ ~failed' => /\ position' = position + 1 /\ ~failed
                       /\ \A l \in DOMAIN file' :
                              l <= position' => file'[l] = Line(l)
    BY <2>1, <2>2, WriteListed
  <2>4. QED
    BY <2>1, <2>3 DEF Listed
<1>4. CASE WriteEntry
  <2>1. /\ pc = "writeMemmap" /\ i <= mapSize /\ i \in Nat
        /\ mapSize' = mapSize /\ services' = services
        /\ ~failed => position = i + 1
    BY <1>4 DEF WriteEntry, Listed
  <2>2. CASE i < mapSize
    <3>1. Write(Entry(i)) /\ i' = i + 1 /\ pc' = pc
      BY <1>4, <2>2 DEF WriteEntry, MoreEntries
    <3>2. ~failed => Entry(i) = Line(position + 1)
      BY <2>1 DEF Line
    <3>3. /\ file' \in Seq({Old, Header, Torn} \union {Entry(n) : n \in Nat})
          /\ position' \in 0 .. Len(file')
          /\ \A l \in DOMAIN file' : position' < l => file'[l] = Old
          /\ ~failed' => /\ position' = position + 1 /\ ~failed
                         /\ \A l \in DOMAIN file' :
                                l <= position' => file'[l] = Line(l)
      <4>1. Entry(i) \in {Old, Header, Torn} \union {Entry(n) : n \in Nat}
        BY <2>1
      <4>2. QED
        BY <3>1, <3>2, <4>1, WriteListed
    <3>4. QED
      BY <2>1, <2>2, <3>1, <3>3 DEF Listed
  <2>3. CASE ~(i < mapSize)
    <3>1. UNCHANGED memmap /\ pc' = "openKernel" /\ i = mapSize
      BY <1>4, <2>1, <2>3 DEF WriteEntry, MoreEntries
    <3>2. QED
      BY <2>1, <3>1 DEF Listed, memmap
  <2>4. QED
    BY <2>2, <2>3
<1>5. CASE UNCHANGED <<memmap, mapSize, services>>
           /\ pc \notin Unlisted \union {"lost"} /\ pc' \notin Unlisted
  BY <1>5 DEF Listed, memmap
<1>6. CASE Exit \/ GetMapAgain \/ ExitAgain \/ ReadEntry \/ SelectFormat
  <2>1. UNCHANGED memmap /\ services' # "on" /\ pc' \notin Unlisted
    BY <1>6 DEF Left, Exit, GetMapAgain, ExitAgain, ReadEntry, SelectFormat,
                Goto
  <2>2. QED
    BY <2>1 DEF Listed, memmap
<1>7. CASE OpenKernel \/ AllocatePool \/ ReadKernel \/ AllocatePages
           \/ CopySegment \/ FreePool \/ OpenGop
  BY <1>5, <1>7 DEF OpenKernel, AllocatePool, ReadKernel, AllocatePages,
     CopySegment, FreePool, OpenGop, loaded
<1>8. CASE Timer \/ UNCHANGED vars
  BY <1>8 DEF Timer, vars, Listed, memmap
<1>9. QED
  BY <1>1, <1>2, <1>3, <1>4, <1>6, <1>7, <1>8 DEF Next, LoaderStep

\* The image's pages stay those of its lowest and highest addresses.
LEMMA PlacedStep == ASSUME IInv, [Next]_vars PROVE Placed'
<1> USE DEF IInv, Types
<1>1. /\ image' = image /\ FirstAddr' = FirstAddr /\ PageCount' = PageCount
      /\ Address' = Address
  BY Frame, Zenon DEF FirstAddr, LastAddr, PageCount, Address
<1>2. CASE UNCHANGED <<memory, pages, first>>
           /\ \/ pc' = pc
              \/ pc \in Preparing /\ pc' \in Preparing \union {"lost", "halted"}
              \/ pc \notin Preparing /\ pc' \notin Preparing \union {"copy"}
                 /\ (pc' \in Leaving => pc = "copy" \/ pc \in Leaving)
  BY <1>1, <1>2 DEF Placed, Preparing, Leaving, WritesInPages
<1>3. CASE GetMap \/ OpenMemmap \/ WriteHeader \/ WriteEntry \/ OpenKernel \/ AllocatePool
           \/ ReadKernel
  BY <1>2, <1>3, Frame DEF GetMap, OpenMemmap, WriteHeader,
       WriteEntry, OpenKernel,
                           AllocatePool,
     ReadKernel, loaded, Goto, Preparing, Leaving
<1>4. CASE AllocatePages
  BY <1>1, <1>4 DEF AllocatePages, Placed, Preparing, Leaving, WritesInPages
<1>5. CASE CopySegment
  <2>1. /\ pc = "copy" /\ pc' = pc /\ pages' = pages /\ first' = first
        /\ i \in DOMAIN image
        /\ memory' = IF IsLoad(image[i]) THEN Copied(memory, image[i])
                     ELSE memory
    BY <1>5 DEF CopySegment
  <2>2. IsLoad(image[i]) => image[i] \in Loads(image)
    BY <2>1 DEF Loads
  <2>3. ASSUME NEW a \in Address, memory'[a] # Junk
        PROVE  a \in pages
    <3>1. CASE memory'[a] = memory[a]
      BY <2>1, <2>3, <3>1 DEF Placed, WritesInPages
    <3>2. CASE memory'[a] # memory[a]
      <4>1. IsLoad(image[i]) /\ memory' = Copied(memory, image[i])
        BY <2>1, <3>2
      <4>2. a \in AllBytes(image[i])
        BY <2>2, <3>2, <4>1, KernelFile DEF Copied
      <4>3. QED
        BY <2>1, <2>2, <4>1, <4>2, PagesCover DEF Placed
    <3>3. QED
      BY <3>1, <3>2
  <2>4. QED
    BY <1>1, <2>1, <2>3 DEF Placed, Preparing, Leaving, WritesInPages
<1>6. CASE FreePool \/ OpenGop \/ Exit \/ GetMapAgain \/ ExitAgain
           \/ ReadEntry \/ SelectFormat
  BY <1>2, <1>6, Frame DEF FreePool, OpenGop, Exit, GetMapAgain, ExitAgain,
                           ReadEntry,
     SelectFormat, Goto, loaded, Preparing, Leaving
<1>7. CASE Timer \/ UNCHANGED vars
  BY <1>2, <1>7 DEF Timer, vars, loaded
<1>8. QED
  BY <1>3, <1>4, <1>5, <1>6, <1>7 DEF Next, LoaderStep

\* Each iteration completes one segment and leaves the earlier ones.
LEMMA CopyingStep == ASSUME IInv, [Next]_vars PROVE Copying'
<1> USE DEF IInv, Types
<1>1. CASE CopySegment
  <2>1. /\ image' = image /\ pc = "copy" /\ pc' = pc /\ i' = i + 1
        /\ i \in DOMAIN image
        /\ memory' = IF IsLoad(image[i]) THEN Copied(memory, image[i])
                     ELSE memory
    BY <1>1, Frame DEF CopySegment
  <2>2. ASSUME NEW j \in DOMAIN image, j < i', IsLoad(image[j]),
               NEW a \in AllBytes(image[j])
        PROVE  memory'[a] = IF a \in FileBytes(image[j])
                            THEN Byte(image[j].offset + a - image[j].vaddr) ELSE Zero
    <3>1. image[j] \in Loads(image) /\ a \in Address
      BY <2>2, KernelFile DEF Loads
    <3>2. CASE IsLoad(image[i]) /\ image[j] = image[i]
      BY <2>1, <2>2, <3>1, <3>2 DEF Copied
    <3>3. CASE IsLoad(image[i]) /\ image[j] # image[i]
      <4>1. image[i] \in Loads(image)
        BY <2>1, <3>3 DEF Loads
      <4>2. a \notin AllBytes(image[i]) /\ a \notin FileBytes(image[i])
        BY <2>2, <3>1, <3>3, <4>1, KernelFile
      <4>3. memory'[a] = memory[a]
        BY <2>1, <3>1, <3>3, <4>2 DEF Copied
      <4>4. j < i
        <5>1. j # i /\ j \in Nat
          BY <2>1, <3>3, KernelFile
        <5>2. QED
          BY <2>1, <2>2, <5>1
      <4>5. QED
        BY <2>1, <2>2, <4>3, <4>4 DEF Copying, Present
    <3>4. CASE ~IsLoad(image[i])
      <4>1. j < i /\ memory' = memory
        <5>1. j # i /\ j \in Nat
          BY <2>1, <2>2, <3>4, KernelFile
        <5>2. QED
          BY <2>1, <2>2, <3>4, <5>1
      <4>2. QED
        BY <2>1, <2>2, <4>1 DEF Copying, Present
    <3>5. QED
      BY <3>2, <3>3, <3>4
  <2>3. QED
    BY <2>1, <2>2 DEF Copying, Present, Leaving
<1>2. CASE AllocatePages
  <2>1. image' = image /\ (pc' = "copy" => i' = 1) /\ pc' \in {"copy", "halted"}
    BY <1>2, Frame DEF AllocatePages
  <2>2. \A j \in DOMAIN image : ~(j < 1)
    BY KernelFile
  <2>3. QED
    BY <2>1, <2>2 DEF Copying, Leaving
<1>3. CASE FreePool
  <2>1. /\ image' = image /\ memory' = memory /\ pc = "copy"
        /\ i \notin DOMAIN image /\ pc' # "copy"
    BY <1>3, Frame DEF FreePool
  <2>2. ASSUME NEW ph \in Loads(image)
        PROVE  Present(ph)
    <3>1. PICK j \in DOMAIN image : IsLoad(image[j]) /\ ph = image[j]
      BY DEF Loads
    <3>2. j < i
      BY <2>1, KernelFile
    <3>3. QED
      BY <2>1, <3>1, <3>2 DEF Copying
  <2>3. QED
    BY <2>1, <2>2 DEF Copying, Present
<1>4. CASE UNCHANGED <<image, memory>> /\ pc' # "copy"
           /\ (pc' \in Leaving => pc \in Leaving)
  BY <1>4 DEF Copying, Present
<1>5. CASE UNCHANGED <<image, memory, pc, i>>
  BY <1>5 DEF Copying, Present
<1>6. CASE Timer \/ UNCHANGED vars
  BY <1>5, <1>6 DEF Timer, vars, machine, loaded
<1>7. CASE GetMap \/ OpenMemmap \/ WriteHeader \/ WriteEntry \/ OpenKernel \/ AllocatePool
           \/ ReadKernel
  BY <1>4, <1>7, Frame DEF GetMap, OpenMemmap, WriteHeader,
       WriteEntry, OpenKernel,
     AllocatePool, ReadKernel, Goto, loaded, Leaving
<1>8. CASE OpenGop \/ Exit \/ GetMapAgain \/ ExitAgain \/ ReadEntry
           \/ SelectFormat
  BY <1>4, <1>8, Frame DEF OpenGop, Exit, GetMapAgain, ExitAgain, ReadEntry,
     SelectFormat, Goto, loaded, Leaving
<1>9. QED
  BY <1>1, <1>2, <1>3, <1>6, <1>7, <1>8 DEF Next, LoaderStep

\* The header in the lowest segment is where the kernel's first address is.
LEMMA HeaderLoaded ==
    ASSUME IInv, pc \in Leaving
    PROVE  memory[first + EntryField] = Byte(EntryField)
<1> USE DEF IInv, Types
<1>1. PICK low \in Loads(image) :
          /\ low.offset = 0 /\ EntryField < low.filesz
          /\ \A ph \in Loads(image) : low.vaddr <= ph.vaddr
  BY KernelFile
<1>2. low.vaddr \in Nat /\ low.filesz \in Nat /\ EntryField \in Nat
      /\ FileBytes(low) \subseteq AllBytes(low)
  BY KernelFile, BootloaderAssumption
<1>3. first = low.vaddr
  <2>1. FirstAddr \in Nat /\ FirstAddr <= low.vaddr
    BY LoadRange
  <2>2. FirstAddr \in {ph.vaddr : ph \in Loads(image)}
    BY <1>1, Zenon DEF FirstAddr
  <2>3. low.vaddr <= FirstAddr
    BY <1>1, <2>2
  <2>4. QED
    BY <1>2, <2>1, <2>3 DEF Placed
<1>4. first + EntryField \in FileBytes(low)
  BY <1>1, <1>2, <1>3 DEF FileBytes
<1>5. memory[first + EntryField]
          = Byte(low.offset + (first + EntryField) - low.vaddr)
  BY <1>2, <1>4 DEF Copying, Present
<1>6. low.offset + (first + EntryField) - low.vaddr = EntryField
  BY <1>1, <1>2, <1>3
<1>7. QED
  BY <1>5, <1>6

\* The entry address is read where the image was copied to.
LEMMA EntryReadStep == ASSUME IInv, [Next]_vars PROVE EntryRead'
<1>1. CASE ReadEntry
  <2>1. pc \in Leaving /\ entry' = memory[first + EntryField]
    BY <1>1 DEF ReadEntry, Goto, Leaving
  <2>2. QED
    BY <2>1, HeaderLoaded DEF EntryRead
<1>2. CASE SelectFormat
  BY <1>2, Frame DEF IInv, SelectFormat, EntryRead, loaded
<1>3. CASE entry' = entry /\ (pc' = pc \/ pc' \notin {"selectFormat", "started"})
  BY <1>3 DEF IInv, EntryRead
<1>4. CASE Timer \/ CopySegment \/ UNCHANGED vars
  BY <1>3, <1>4, Frame DEF Timer, CopySegment, vars, loaded
<1>5. CASE GetMap \/ OpenMemmap \/ WriteHeader \/ WriteEntry \/ OpenKernel \/ AllocatePool
           \/ ReadKernel \/ AllocatePages \/ FreePool \/ OpenGop
  BY <1>3, <1>5, Frame DEF GetMap, OpenMemmap, WriteHeader,
       WriteEntry, OpenKernel,
     AllocatePool, ReadKernel, AllocatePages, FreePool, OpenGop, Goto, loaded
<1>6. CASE Exit \/ GetMapAgain \/ ExitAgain
  BY <1>6, Frame DEF Exit, GetMapAgain, ExitAgain, IInv, EntryRead, Left, loaded
<1>7. QED
  BY <1>1, <1>2, <1>4, <1>5, <1>6 DEF Next, LoaderStep

\* All parts together hold in every state.
LEMMA InductiveInvariant == Spec => []IInv
<1>1. IInv /\ [Next]_vars => IInv'
  BY TypesStep, LeftStep, ListedStep, PlacedStep, CopyingStep, EntryReadStep
     DEF IInv
<1>2. QED
  BY InitInv, <1>1, PTL DEF Spec
-----------------------------------------------------------------------------
\* Whatever the order of the program headers, and whatever the sizes and gaps
\* of the segments, the kernel starts with each of them complete in memory.
THEOREM KernelComplete == Spec => []ImageLoaded
<1>1. IInv => ImageLoaded
  BY DEF IInv, Copying, Present, Leaving, ImageLoaded
<1>2. QED
  BY InductiveInvariant, <1>1, PTL

\* The rounding up of the size to pages is right for every page size.
THEOREM CopiesInPages == Spec => []WritesInPages
<1>1. IInv => WritesInPages
  BY DEF IInv, Placed
<1>2. QED
  BY InductiveInvariant, <1>1, PTL

\* The jump goes to the file's e_entry, although the file's buffer is gone.
THEOREM EntryIsImages == Spec => []EntryOfImage
<1>1. IInv => EntryOfImage
  BY DEF IInv, EntryRead, EntryOfImage
<1>2. QED
  BY InductiveInvariant, <1>1, PTL

\* No kernel starts under a firmware that has not let go.
THEOREM FirmwareHasLeft == Spec => []FirmwareLeft
<1>1. IInv => FirmwareLeft
  BY DEF IInv, Left, FirmwareLeft
<1>2. QED
  BY InductiveInvariant, <1>1, PTL

\* Whatever an earlier start left in the file, and however long that is, the
\* file begins with every descriptor once, in order, and nothing of the loader's
\* follows: if no write to it failed and the map had room in the buffer.
THEOREM MemmapListed == Spec => []MemmapBegins
<1>1. IInv => MemmapBegins
  <2>1. SUFFICES ASSUME IInv, services = "on", ~failed,
                        pc \notin Unlisted \union {"lost"}
                 PROVE  /\ mapSize < Len(file)
                        /\ \A l \in DOMAIN file :
                               file[l] = IF l <= mapSize + 1 THEN Line(l)
                                                             ELSE Old
    BY DEF MemmapBegins, Unlisted, Unwritten
  <2>2. /\ position = mapSize + 1 /\ position \in 0 .. Len(file)
        /\ mapSize \in Nat /\ Len(file) \in Nat /\ DOMAIN file \subseteq Nat
        /\ \A l \in DOMAIN file : position < l => file[l] = Old
        /\ \A l \in DOMAIN file : l <= position => file[l] = Line(l)
    BY <2>1 DEF IInv, Types, Listed
  <2>3. QED
    BY <2>2
<1>2. QED
  BY InductiveInvariant, <1>1, PTL
=============================================================================
