------------------------------- MODULE ElfLoad ------------------------------
(***************************************************************************)
(* The kernel's program loader, mm/elf.c: what a list of program headers   *)
(* makes of an empty address space.  The memory is a function on the       *)
(* addresses 0 .. MemTop - 1: Unmapped, Zero, or the place in the file that*)
(* the byte comes from, counted from 1 on.                                 *)
(***************************************************************************)
EXTENDS Integers, Sequences

CONSTANTS PageSize, MemTop

ASSUME PageAssumption == PageSize \in Nat \ {0} /\ MemTop \in Nat

Unmapped == -1
Zero == 0

PageRoundDown(x) == (x \div PageSize) * PageSize
PageRoundUp(x) == PageRoundDown(x + PageSize - 1)

SegmentValid(size, ph) ==
    /\ ph.p_filesz <= ph.p_memsz
    /\ ph.p_offset <= size /\ ph.p_filesz <= size - ph.p_offset

\* load_segment(): fresh zero pages for all of the segment, in the place of
\* what was there, and then the bytes of the file.
LoadSegment(mem, ph) ==
    [va \in 0 .. MemTop - 1 |->
        CASE va \in ph.p_vaddr .. ph.p_vaddr + ph.p_filesz - 1 ->
                1 + ph.p_offset + (va - ph.p_vaddr)
          [] va \notin ph.p_vaddr .. ph.p_vaddr + ph.p_filesz - 1
               /\ PageRoundDown(ph.p_vaddr) <= va
               /\ va < PageRoundUp(ph.p_vaddr + ph.p_memsz) -> Zero
          [] OTHER -> mem[va]]

EntryIn(ph, entry) ==
    ph.exec /\ entry >= ph.p_vaddr /\ entry - ph.p_vaddr < ph.p_memsz

\* elf_load64(): it loads if every segment is valid and the entry is in an
\* executable one.
Loads(size, phs, entry) ==
    /\ \A k \in DOMAIN phs : SegmentValid(size, phs[k])
    /\ \E k \in DOMAIN phs : EntryIn(phs[k], entry)

ElfLoad(phs) ==
    LET mem[k \in 0 .. Len(phs)] ==
            IF k = 0 THEN [va \in 0 .. MemTop - 1 |-> Unmapped]
            ELSE LoadSegment(mem[k - 1], phs[k])
    IN  mem[Len(phs)]
=============================================================================
