----------------------------- MODULE RamfsFile ------------------------------
(***************************************************************************)
(* The contents of one file of kernel/mm/ramfs.c: a buffer of whole pages  *)
(* that doubles when it is too small, the bytes of the initrd it borrows   *)
(* until it is first written, and the system calls that read and write it  *)
(* through the positions of descriptors.  None of them yields.             *)
(*                                                                         *)
(* A write is of so many times one byte.  pmm_alloc_contiguous() may fail  *)
(* at any time, as fragmentation makes it.                                 *)
(***************************************************************************)
EXTENDS Integers, Sequences, FiniteSetsExt

CONSTANTS
    PageSize,   \* PAGE_SIZE, 4096 in the code
    Bytes,      \* the byte values that are told apart
    Initrd,     \* what the file may hold at boot
    MaxOffset,  \* bound on the size of the file and on positions in it
    MaxCount,   \* bound on the count argument of read and write
    Fds,        \* descriptors, of whichever process
    UnlinkOpen, \* whether programs unlink the file while it is open
    Junk        \* a byte of memory that pmm has just handed out

ASSUME PageSizeAssumption == PageSize \in Nat \ {0}
ASSUME BytesAssumption == 0 \in Bytes /\ Junk \notin Bytes
ASSUME BoundsAssumption == MaxOffset \in Nat /\ MaxCount \in 0 .. MaxOffset
ASSUME InitrdAssumption == \A c \in Initrd : c \in Seq(Bytes) /\ Len(c) <= MaxOffset

VARIABLES
    in_use,    \* f->used
    data,      \* what f->data points at
    size,      \* f->size
    capacity,  \* f->capacity, 0 while the bytes are the initrd's
    pages,     \* pages taken from pmm for this file and not given back
    pos,       \* the position of each descriptor
    out        \* what the last read returned

bufferVars == <<in_use, data, size, capacity, pages>>
fileVars == <<bufferVars, pos, out>>

NotOpen == -1

FileTypeOK ==
    /\ in_use \in BOOLEAN
    /\ \A i \in DOMAIN data : data[i] \in Bytes \cup {Junk}
    /\ size \in 0 .. MaxOffset
    /\ capacity \in Nat /\ capacity % PageSize = 0
    /\ pages \in Int
    /\ pos \in [Fds -> 0 .. MaxOffset \cup {NotOpen}]

\* ramfs_dynamic_load()
FileInit ==
    /\ in_use = TRUE
    /\ data \in Initrd
    /\ size = Len(data)
    /\ capacity = 0
    /\ pages = 0
    /\ pos = [d \in Fds |-> NotOpen]
    /\ out = <<>>

\* ramfs_dynamic_grow() has to find a larger buffer.
NeedsGrow(needed) == needed > capacity

\* The capacity after k rounds of the loop that doubles it, which ends when
\* it is enough.
Doubled(first, n) ==
    LET after[k \in 0 .. n] == IF k = 0 THEN first ELSE 2 * after[k - 1] IN after
NewCapacity(needed) ==
    LET c == Doubled(IF capacity = 0 THEN PageSize ELSE capacity, needed)
    IN  Min({c[k] : k \in {k \in 0 .. needed : c[k] >= needed}})

\* A buffer of n bytes with the old contents in it, as far as it goes.
Moved(n) == [i \in 1 .. n |-> IF i <= size THEN data[i] ELSE Junk]

\* Mutant: the gap keeps what is in the buffer.
ZeroGap_Not(b, at) == b

\* The bytes between the end of the file and the place of the write.
ZeroGap(b, at) == [i \in DOMAIN b |-> IF i > size /\ i <= at THEN 0 ELSE b[i]]

\* The pages of the old buffer, if they are not the initrd's.
Freed == capacity \div PageSize

\* The file after n bytes x are stored at `at' in the buffer b.
Stores(b, at, n, x) ==
    /\ data' = [i \in DOMAIN b |-> IF i > at /\ i <= at + n THEN x ELSE ZeroGap(b, at)[i]]
    /\ size' = IF at + n > size THEN at + n ELSE size

IsOpen(d) == pos[d] # NotOpen

-----------------------------------------------------------------------------
\* ramfs_dynamic_write() through descriptor d.
Write(d, n, x) ==
    LET end == pos[d] + n
        c   == NewCapacity(end)
    IN
    /\ IsOpen(d) /\ end <= MaxOffset
    /\ \/ /\ ~NeedsGrow(end)
          /\ Stores(data, pos[d], n, x)
          /\ UNCHANGED <<capacity, pages>>
       \/ /\ NeedsGrow(end)
          /\ Stores(Moved(c), pos[d], n, x)
          /\ capacity' = c
          /\ pages' = pages + c \div PageSize - Freed
    /\ pos' = [pos EXCEPT ![d] = end]
    /\ UNCHANGED <<in_use, out>>

\* -ENOMEM
WriteFails(d, n) ==
    /\ IsOpen(d) /\ NeedsGrow(pos[d] + n)
    /\ UNCHANGED fileVars

\* What is left of the file at the position of d.
Remaining(d) == IF pos[d] >= size THEN 0 ELSE size - pos[d]

\* read_from_fd_entry()
Read(d, n) ==
    LET k == IF n < Remaining(d) THEN n ELSE Remaining(d) IN
    /\ IsOpen(d)
    /\ out' = [i \in 1 .. k |-> IF pos[d] + i \in DOMAIN data THEN data[pos[d] + i] ELSE Junk]
    /\ pos' = [pos EXCEPT ![d] = @ + k]
    /\ UNCHANGED bufferVars

\* SEEK_SET, SEEK_CUR and SEEK_END with some offset; a negative result is
\* refused.
Lseek(d, n) ==
    /\ IsOpen(d)
    /\ pos' = [pos EXCEPT ![d] = n]
    /\ UNCHANGED <<bufferVars, out>>

\* The file, which O_CREAT makes in this slot if it is not there, and
\* ramfs_dynamic_truncate(): the buffer stays.
Opened(trunc) ==
    /\ in_use' = TRUE
    /\ size' = IF trunc \/ ~in_use THEN 0 ELSE size
    /\ data' = IF in_use THEN data ELSE <<>>
    /\ capacity' = IF in_use THEN capacity ELSE 0
    /\ UNCHANGED <<pages, out>>

Openat(d, trunc, append) ==
    /\ ~IsOpen(d)
    /\ Opened(trunc)
    /\ pos' = [pos EXCEPT ![d] = IF append THEN size' ELSE 0]

\* openat with O_CREAT that finds no descriptor free, when the file has been
\* made and emptied already.
OpenatFails(trunc) ==
    /\ \A d \in Fds : IsOpen(d)
    /\ Opened(trunc)
    /\ UNCHANGED pos

CloseFile(d) ==
    /\ IsOpen(d)
    /\ pos' = [pos EXCEPT ![d] = NotOpen]
    /\ UNCHANGED <<bufferVars, out>>

\* ramfs_dynamic_unlink()
UnlinkFile ==
    /\ in_use
    /\ UnlinkOpen \/ \A d \in Fds : ~IsOpen(d)
    /\ in_use' = FALSE
    /\ data' = <<>>
    /\ size' = 0
    /\ capacity' = 0
    /\ pages' = pages - Freed
    /\ UNCHANGED <<pos, out>>

FileNext ==
    \/ \E d \in Fds, n \in 1 .. MaxCount :
          \/ Read(d, n)
          \/ WriteFails(d, n)
          \/ \E x \in Bytes : Write(d, n, x)
    \/ \E d \in Fds, n \in 0 .. MaxOffset : Lseek(d, n)
    \/ \E d \in Fds, trunc, append \in BOOLEAN : Openat(d, trunc, append)
    \/ \E trunc \in BOOLEAN : OpenatFails(trunc)
    \/ \E d \in Fds : CloseFile(d)
    \/ UnlinkFile

FileSpec == FileInit /\ [][FileNext]_fileVars

-----------------------------------------------------------------------------
(***************************************************************************)
(* Correctness.                                                            *)
(***************************************************************************)
\* The bytes that a reader sees.
Content == [i \in 1 .. size |-> IF i \in DOMAIN data THEN data[i] ELSE Junk]

\* Growth, truncation, sparse writes and the reuse of a buffer that still
\* holds old bytes are invisible: the file is a string of bytes.
SF == INSTANCE SparseFile WITH content <- Content, Contents <- Initrd
IsSparseFile == SF!Spec

\* The pages that the file has taken are those of its buffer, through every
\* growth and removal: "Removes a dynamic file outright, freeing its backing
\* pages" (the comment on ramfs_dynamic_unlink()).
PagesOwned == pages = capacity \div PageSize

\* "A later write transparently allocates writable backing and copies the
\* old contents" (the comment on ramfs_dynamic_load()): the buffer has room
\* for all of the file.
BackingHoldsFile == capacity > 0 => size <= capacity

\* The file is a string of bytes to its readers and writers, and between the
\* calls it owns the pages of one buffer that is large enough for it
\* (ramfs_dynamic_write(), ramfs_dynamic_grow()).
FileKept == IsSparseFile /\ [](FileTypeOK /\ PagesOwned /\ BackingHoldsFile)
=============================================================================
