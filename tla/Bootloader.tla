----------------------------- MODULE Bootloader -----------------------------
(***************************************************************************)
(* UefiMain (bootloader/main.c): write the memory map to a file, load the  *)
(* kernel's ELF image, leave the boot services and jump to the kernel.     *)
(*                                                                         *)
(* The firmware is external.  Of its memory map only two things matter:    *)
(* how many descriptors it has, and whether the key the loader holds is    *)
(* the newest one, which is what ExitBootServices asks.                    *)
(***************************************************************************)
EXTENDS Integers, Sequences

CONSTANTS PageSize, MemoryTop,
          EntryField,     \* where e_entry is in the ELF header (24)
          Images,         \* the kernel files: sequences of program headers
          MapSizes,       \* the numbers of descriptors the map may have
          BufferEntries,  \* the number that fits in memoryMap
          Formats,        \* the pixel formats of the display
          OldLengths,     \* the lines a file \memmap of an earlier start may have
          MaxEvents       \* bound: timer events that change the memory map

Address == 0 .. MemoryTop - 1
IsLoad(ph) == ph.type = "PT_LOAD"
Loads(image) == {image[i] : i \in {j \in DOMAIN image : IsLoad(image[j])}}
FileBytes(ph) == ph.vaddr .. ph.vaddr + ph.filesz - 1
AllBytes(ph) == ph.vaddr .. ph.vaddr + ph.memsz - 1

\* An Elf64_Phdr, as far as the loader reads it.
ProgramHeader == [type : STRING, offset : Nat, vaddr : Nat, filesz : Nat,
                  memsz : Nat]

\* ld.lld puts the ELF header into the lowest segment and overlaps none.
WellLinked(image) ==
    /\ image \in Seq(ProgramHeader)
    /\ \A ph \in Loads(image) :
           ph.filesz <= ph.memsz /\ ph.vaddr + ph.memsz <= MemoryTop
    /\ \A p, q \in Loads(image) : p # q => AllBytes(p) \cap AllBytes(q) = {}
    /\ \E low \in Loads(image) :
           /\ low.offset = 0 /\ EntryField < low.filesz
           /\ \A ph \in Loads(image) : low.vaddr <= ph.vaddr

ASSUME BootloaderAssumption ==
    /\ PageSize \in Nat \ {0} /\ MemoryTop \in Nat \ {0} /\ EntryField \in Nat
    /\ \A image \in Images : WellLinked(image)
    /\ MapSizes \subseteq Nat /\ BufferEntries \in Nat
    /\ OldLengths \subseteq Nat /\ MaxEvents \in Nat

VARIABLES pc,
          image,     \* the file \kernel.elf
          format,    \* the display's pixel format
          map,       \* firmware: number of descriptors
          services,  \* firmware: "on", "leaving" (an exit was tried) or "off"
          timersStop,  \* firmware: a first ExitBootServices stops its timers
          newest,    \* memoryMapKey is the key of the newest map
          mapSize,   \* memoryMapSize, in descriptors
          file,      \* the file \memmap, as a sequence of lines
          position,  \* the lines before the place of the next write
          failed,    \* a write to it has failed (history)
          buffer,    \* kernelBuffer: "none", "allocated", "read" or "freed"
          first, pages,   \* kernelFirstAddr and the pages allocated there
          memory,    \* what the loader has put at each address
          i,         \* the loop counter
          entry,     \* the byte entryAddress was read from
          events     \* timer events so far

vars == <<pc, image, format, timersStop, map, services, newest, mapSize,
          file, position, failed, buffer, first, pages, memory, i, entry,
          events>>
machine == <<image, format, timersStop>>
memmap == <<file, position, failed>>
loaded == <<buffer, first, pages, memory, entry>>

\* What an address or a variable holds: nothing the loader put there, a
\* zero, or a byte of the file.
Junk == <<"junk">>
Zero == <<"zero">>
Byte(offset) == <<"file", offset>>

\* The lines of \memmap: one of an earlier start, the header, a descriptor's,
\* and one that was not written to its end.
Old == <<"old">>
Header == <<"header">>
Entry(n) == <<"entry", n>>
Torn == <<"torn">>

Init == /\ pc = "getMap" /\ image \in Images /\ format \in Formats
        /\ timersStop \in BOOLEAN /\ map \in MapSizes
        /\ services = "on" /\ newest = FALSE
        /\ mapSize = 0 /\ buffer = "none"
        /\ \E n \in OldLengths : file = [l \in 1 .. n |-> Old]
        /\ position = 0 /\ failed = FALSE
        /\ first = 0 /\ pages = {} /\ memory = [a \in Address |-> Junk]
        /\ i = 1 /\ entry = Junk /\ events = 0

Goto(from, to) == pc = from /\ pc' = to

\* A service the firmware may allocate memory for: the map may change.
MapMayChange == /\ newest' \in {FALSE, newest}
                /\ map' \in {map} \union MapSizes
-----------------------------------------------------------------------------
\* The memory map and its file.
\* Without room the firmware only reports the size it needs, and the key
\* stays what the stack happened to hold.
GetMemoryMap ==
    /\ mapSize' = map
    /\ newest' \in (IF map <= BufferEntries THEN {TRUE} ELSE BOOLEAN)
    /\ UNCHANGED map

GetMap == /\ Goto("getMap", "openMemmap")
          /\ GetMemoryMap
          /\ UNCHANGED <<machine, loaded, services, memmap, i, events>>

\* The file system's answers are not looked at: without a file the next call
\* goes through an unset pointer.  An old file is opened as it is.
OpenMemmap ==
    /\ pc = "openMemmap" /\ pc' \in {"writeHeader", "lost"}
    /\ MapMayChange
    /\ UNCHANGED <<machine, loaded, services, mapSize, memmap, i, events>>

\* Write: the line goes over what is at its place, or nothing or only a part
\* of it gets there, and the loader goes on all the same.
Overwritten(line) ==
    [l \in DOMAIN file \union {position + 1} |->
        IF l = position + 1 THEN line ELSE file[l]]

Write(line) ==
    \/ /\ file' = Overwritten(line) /\ position' = position + 1
       /\ UNCHANGED failed
    \/ /\ file' = Overwritten(Torn) /\ position' = position + 1
       /\ failed' = TRUE
    \/ /\ failed' = TRUE
       /\ UNCHANGED <<file, position>>

WriteHeader ==
    /\ Goto("writeHeader", "writeMemmap")
    /\ Write(Header) /\ i' = 0
    /\ MapMayChange
    /\ UNCHANGED <<machine, loaded, services, mapSize, events>>

\* Mutant: the loop goes one descriptor too far.
MoreEntriesLoose(n) == n <= mapSize

\* The condition of the loop, n being its counter.
MoreEntries(n) == n < mapSize

WriteEntry ==
    /\ pc = "writeMemmap"
    /\ IF MoreEntries(i)
       THEN Write(Entry(i)) /\ i' = i + 1 /\ UNCHANGED pc
       ELSE pc' = "openKernel" /\ UNCHANGED <<memmap, i>>
    /\ MapMayChange
    /\ UNCHANGED <<machine, loaded, services, mapSize, events>>
-----------------------------------------------------------------------------
\* The kernel's image.
OpenKernel ==
    /\ pc = "openKernel" /\ pc' \in {"allocatePool", "lost"}
    /\ MapMayChange
    /\ UNCHANGED <<machine, loaded, services, mapSize, memmap, i, events>>

AllocatePool ==
    /\ pc = "allocatePool"
    /\ MapMayChange
    /\ \/ pc' = "readKernel" /\ buffer' = "allocated"
       \/ pc' = "halted" /\ UNCHANGED buffer
    /\ UNCHANGED <<machine, services, mapSize, memmap, first, pages, memory, i,
                   entry, events>>

ReadKernel ==
    /\ pc = "readKernel"
    /\ MapMayChange
    /\ \/ pc' = "allocatePages" /\ buffer' = "read"
       \/ pc' = "halted" /\ UNCHANGED buffer
    /\ UNCHANGED <<machine, services, mapSize, memmap, first, pages, memory, i,
                   entry, events>>

\* Mutant: the segments are taken to be in the order of their addresses.
FirstAddrInOrder ==
    LET loads == SelectSeq(image, IsLoad) IN loads[1].vaddr

\* CalcLoadAddressRange.
FirstAddr ==
    CHOOSE a \in {ph.vaddr : ph \in Loads(image)} :
        \A ph \in Loads(image) : a <= ph.vaddr
LastAddr ==
    CHOOSE a \in {ph.vaddr + ph.memsz : ph \in Loads(image)} :
        \A ph \in Loads(image) : ph.vaddr + ph.memsz <= a

\* Mutant: the last, partial page is not counted.
PageCountDown == (LastAddr - FirstAddr) \div PageSize

PageCount == (LastAddr - FirstAddr + PageSize - 1) \div PageSize

\* The firmware only hands out whole pages, and has the right to refuse.
AllocatePages ==
    /\ pc = "allocatePages"
    /\ first' = FirstAddr
    /\ MapMayChange
    /\ \/ /\ FirstAddr % PageSize = 0
          /\ pc' = "copy" /\ i' = 1 /\ newest' = FALSE
          /\ pages' = FirstAddr .. FirstAddr + PageSize * PageCount - 1
       \/ pc' = "halted" /\ UNCHANGED <<pages, i>>
    /\ UNCHANGED <<machine, services, mapSize, memmap, buffer, memory, entry, events>>

\* Mutant: the rest of the segment is not cleared.
CopiedOnly(m, ph) ==
    [a \in Address |-> IF a \in FileBytes(ph)
                       THEN Byte(ph.offset + a - ph.vaddr) ELSE m[a]]

\* CopyMem and SetMem of one segment.
Copied(m, ph) ==
    [a \in Address |-> IF a \in FileBytes(ph)
                       THEN Byte(ph.offset + a - ph.vaddr)
                       ELSE IF a \in AllBytes(ph) THEN Zero ELSE m[a]]

CopySegment ==
    /\ pc = "copy" /\ i \in DOMAIN image
    /\ memory' = IF IsLoad(image[i]) THEN Copied(memory, image[i]) ELSE memory
    /\ i' = i + 1
    /\ UNCHANGED <<pc, machine, map, services, newest, mapSize, memmap, buffer,
                   first, pages, entry, events>>

FreePool ==
    /\ pc = "copy" /\ i \notin DOMAIN image
    /\ pc' \in {"openGop", "halted"}
    /\ buffer' = "freed"
    /\ MapMayChange
    /\ UNCHANGED <<machine, services, mapSize, memmap, first, pages, memory, i,
                   entry, events>>

\* A machine without a display has no gopHandles[0].
OpenGop ==
    /\ pc = "openGop" /\ pc' \in {"exit", "lost"}
    /\ MapMayChange
    /\ UNCHANGED <<machine, loaded, services, mapSize, memmap, i, events>>
-----------------------------------------------------------------------------
\* Leaving the firmware.
Exit ==
    /\ pc = "exit"
    /\ IF newest THEN pc' = "readEntry" /\ services' = "off"
                 ELSE pc' = "getMapAgain" /\ services' = "leaving"
    /\ UNCHANGED <<machine, loaded, map, newest, mapSize, memmap, i,
                   events>>

\* Mutant: the retry goes with the key of the first map.
GetMapAgainForgotten ==
    /\ Goto("getMapAgain", "exitAgain")
    /\ UNCHANGED <<machine, loaded, map, newest, mapSize, services, memmap, i, events>>

GetMapAgain ==
    /\ pc = "getMapAgain"
    /\ GetMemoryMap
    /\ IF map <= BufferEntries
       THEN pc' = "exitAgain"
       ELSE pc' = "stuck"
    /\ UNCHANGED <<machine, loaded, services, memmap, i, events>>

\* Mutant: the status of the second attempt is not looked at.
ExitAgainUnchecked ==
    /\ Goto("exitAgain", "readEntry")
    /\ services' = IF newest THEN "off" ELSE services
    /\ UNCHANGED <<machine, loaded, map, newest, mapSize, memmap, i,
                   events>>

ExitAgain ==
    /\ pc = "exitAgain"
    /\ IF newest
       THEN pc' = "readEntry" /\ services' = "off"
       ELSE pc' = "stuck" /\ UNCHANGED services
    /\ UNCHANGED <<machine, loaded, map, newest, mapSize, memmap, i, events>>

\* The entry address is taken from the image in memory.
ReadEntry ==
    /\ Goto("readEntry", "selectFormat")
    /\ entry' = memory[first + EntryField]
    /\ UNCHANGED <<machine, map, services, newest, mapSize, memmap, buffer, first,
                   pages, memory, i, events>>

SelectFormat ==
    /\ pc = "selectFormat"
    /\ IF format \in {"RGB", "BGR"}
       THEN pc' = "started"
       ELSE pc' = "halted"
    /\ UNCHANGED <<machine, loaded, map, services, newest, mapSize, memmap, i,
                   events>>
-----------------------------------------------------------------------------
LoaderStep ==
    \/ GetMap \/ OpenMemmap \/ WriteHeader \/ WriteEntry
    \/ OpenKernel \/ AllocatePool \/ ReadKernel \/ AllocatePages
    \/ CopySegment \/ FreePool \/ OpenGop
    \/ Exit \/ GetMapAgain \/ ExitAgain \/ ReadEntry \/ SelectFormat

\* A timer of the firmware allocates or frees memory in the background.
Timer ==
    /\ services = "on" \/ (services = "leaving" /\ ~timersStop)
    /\ events < MaxEvents /\ events' = events + 1
    /\ newest' = FALSE /\ map' \in MapSizes
    /\ UNCHANGED <<pc, machine, loaded, services, mapSize, memmap, i>>

Next == LoaderStep \/ Timer

Spec == Init /\ [][Next]_vars

\* The loader is the only program, and services return.
FairSpec == Spec /\ WF_vars(LoaderStep)
-----------------------------------------------------------------------------
\* When the kernel starts, every byte of every PT_LOAD segment is in memory,
\* and what the file does not hold is zero (main.c:245-260): no segment has
\* damaged another, in whatever order the program headers are.
ImageLoaded ==
    pc = "started" =>
        \A ph \in Loads(image) : \A a \in AllBytes(ph) :
            memory[a] = IF a \in FileBytes(ph)
                        THEN Byte(ph.offset + a - ph.vaddr) ELSE Zero

\* The segments are copied into the pages that were allocated for them and
\* nowhere else, whatever the sizes at the page boundary (main.c:236-238).
WritesInPages == \A a \in Address : memory[a] # Junk => a \in pages

\* The jump goes to the e_entry of the file: it survives FreePool because
\* it is read from the copy of the header in the lowest segment
\* (main.c:313-315).
EntryOfImage == pc = "started" => entry = Byte(EntryField)

\* The kernel, which programs the interrupt controllers and owns all
\* memory, never runs beside a firmware that has not let go (main.c:287-311).
FirmwareLeft == pc = "started" => services = "off"

\* The lines of a file that lists the map.
Line(l) == IF l = 1 THEN Header ELSE Entry(l - 2)

\* If no write to the file has failed, and if the descriptors all had room in
\* the loader's buffer, the file begins with the header and each descriptor the
\* firmware returned, once and in order (main.c:163-191), and what follows is
\* what an earlier start had left there, until the map is asked for again.
MemmapBegins ==
    (/\ services = "on" /\ mapSize <= BufferEntries /\ ~failed
     /\ pc \notin {"getMap", "openMemmap", "writeHeader", "writeMemmap", "lost"}) =>
        /\ mapSize < Len(file)
        /\ \A l \in DOMAIN file :
               file[l] = IF l <= mapSize + 1 THEN Line(l) ELSE Old

\* The one retry is enough: a loader whose first ExitBootServices is refused
\* leaves the firmware, whatever the firmware did to the memory map in all
\* the calls before ("the key must be close to the newest", main.c:293),
\* if the refusal stops the timers and the map has room.
RetrySuffices ==
    pc = "getMapAgain" /\ timersStop /\ map <= BufferEntries
        ~> pc = "selectFormat" /\ services = "off"
=============================================================================
