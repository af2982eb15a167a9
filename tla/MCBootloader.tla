---------------------------- MODULE MCBootloader ----------------------------
(***************************************************************************)
(* Instance of Bootloader: pages of 4 bytes, kernels of two or three        *)
(* headers in and out of address order, with and without cleared memory,   *)
(* that end on a page boundary, next to one, or do not start on one.       *)
(***************************************************************************)
EXTENDS Bootloader

Load(vaddr, offset, filesz, memsz) ==
    [type |-> "PT_LOAD", vaddr |-> vaddr, offset |-> offset,
     filesz |-> filesz, memsz |-> memsz]
Other == [type |-> "PT_PHDR", vaddr |-> 5, offset |-> 1, filesz |-> 2,
          memsz |-> 2]

Kernels ==
    {<<Load(4, 0, 3, 3), Load(7, 3, 2, 5)>>,            \* whole pages
     <<Other, Load(8, 5, 1, 1), Load(4, 0, 3, 4)>>,     \* one byte over
     <<Load(4, 0, 2, 3), Other, Load(9, 2, 1, 2)>>,     \* one byte under
     <<Load(5, 0, 3, 3)>>}                              \* not on a page

AnyFormat == {"RGB", "other"}

\* With room for three descriptors: a map that fits and one that does not.
Descriptors == {2, 4}
=============================================================================
