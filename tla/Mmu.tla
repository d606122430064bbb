--------------------------------- MODULE Mmu ---------------------------------
(* Address translation of the emulator (src/emulator/rv64.c): a Sv39 walk      *)
(* behind a direct-mapped TLB, whose entries are tagged with page, privilege   *)
(* and SUM, and a fetch page that rv_run reads instructions from without any   *)
(* look-up.  A walk is abstracted to its leaf: one entry per page.             *)
EXTENDS Naturals

CONSTANTS
    Roots,      \* page tables satp may point to
    VPages,     \* virtual pages, 0..n
    Slots,      \* TLB slots per kind of access (256 in the code)
    Ptes,       \* the leaf entries the kernel writes: [flags, to]
    BootTables, \* the tables as the kernel first makes them
    EditedRoots \* the tables the kernel edits

Access == {"fetch", "load", "store"}
Bare == 0               \* satp mode 0: no translation
None == [page |-> "none"]

Flags == {"R", "W", "X", "U", "A", "D"}
Leaf == [flags : SUBSET Flags, to : Nat]

\* What the constants are: numbered pages, at least one slot, leaf entries, and
\* no table that satp could take for mode 0.
MmuConstants ==
    /\ VPages \subseteq Nat /\ Slots \in Nat \ {0}
    /\ Bare \notin Roots /\ EditedRoots \subseteq Roots
    /\ Ptes \subseteq Leaf /\ BootTables \in [Roots -> [VPages -> Leaf]]

VARIABLES
    pt,         \* [Roots -> [VPages -> leaf entry]]
    satp, priv, sum,
    tlb,        \* [slot, access -> entry]
    fetch,      \* fetch_vpage and where its page is
    edited      \* history: pages of the active table edited since the last flush

vars == <<pt, satp, priv, sum, tlb, fetch, edited>>

SlotIds == (0 .. Slots - 1) \X Access
NoTlb == [s \in SlotIds |-> None]

\* rv_tlb_entry: the tag, the kind of access it was filled for, the page.
TlbEntry ==
    [page : {"page"}, tag : [page : VPages, priv : {"S", "U"}, sum : BOOLEAN],
     acc : Access, to : Nat]
FetchPage == [page : {"page"}, v : VPages, to : Nat]

TypeOK ==
    /\ pt \in [Roots -> [VPages -> Leaf]]
    /\ satp \in Roots \cup {Bare} /\ priv \in {"S", "U"} /\ sum \in BOOLEAN
    /\ tlb \in [SlotIds -> TlbEntry \cup {None}]
    /\ fetch \in FetchPage \cup {None}
    /\ edited \subseteq VPages

Init ==
    /\ pt = BootTables
    /\ satp = Bare /\ priv = "S" /\ sum = FALSE
    /\ tlb = NoTlb /\ fetch = None /\ edited = {}

\* flush_tlb
FlushTlb == tlb' = NoTlb /\ fetch' = None /\ edited' = {}

Slot(v, acc) == <<v % Slots, acc>>
Tag(v) == [page |-> v, priv |-> priv, sum |-> sum]
Hit(v, acc) == tlb[Slot(v, acc)].page # "none" /\ tlb[Slot(v, acc)].tag = Tag(v)

\* What the walk of translate() refuses.
Allowed(pte, acc, p, s) ==
    /\ CASE acc = "fetch" -> "X" \in pte.flags
         [] acc = "load"  -> "R" \in pte.flags
         [] acc = "store" -> "W" \in pte.flags
    /\ "U" \in pte.flags /\ p = "S" => acc # "fetch" /\ s
    /\ p = "U" => "U" \in pte.flags

\* The entry with the accessed bit, and the dirty bit of a store.
Marked(pte, acc) ==
    [pte EXCEPT !.flags = @ \cup {"A"} \cup (IF acc = "store" THEN {"D"} ELSE {})]

\* translate() after a miss: walk, mark the entry, fill the slot.
WalkFills(v, acc) ==
    /\ satp # Bare /\ Allowed(pt[satp][v], acc, priv, sum)
    /\ pt' = [pt EXCEPT ![satp][v] = Marked(@, acc)]
    /\ tlb' = [tlb EXCEPT ![Slot(v, acc)] =
                 [page |-> "page", tag |-> Tag(v), acc |-> acc, to |-> pt[satp][v].to]]

\* trap(): supervisor mode at the vector, caches flushed.
Trapped == priv' = "S" /\ FlushTlb /\ UNCHANGED <<pt, satp, sum>>

\* A load or a store: a hit answers at once, a miss walks, a refused walk traps.
\* (With translation off the address is the physical one and nothing is cached.)
LoadOrStore(v, acc) ==
    \/ /\ Hit(v, acc) \/ satp = Bare
       /\ UNCHANGED vars
    \/ /\ ~Hit(v, acc) /\ WalkFills(v, acc)
       /\ UNCHANGED <<satp, priv, sum, fetch, edited>>
    \/ /\ ~Hit(v, acc) /\ satp # Bare /\ ~Allowed(pt[satp][v], acc, priv, sum)
       /\ Trapped

\* The fetch of rv_run: from the fetch page, or by load(), which then sets it.
Fetched(v, to) == fetch' = [page |-> "page", v |-> v, to |-> to]

Fetch(v) ==
    \/ /\ fetch.page # "none" /\ fetch.v = v
       /\ UNCHANGED vars
    \/ /\ ~(fetch.page # "none" /\ fetch.v = v)
       /\ \/ /\ satp = Bare /\ UNCHANGED vars
          \/ /\ Hit(v, "fetch") /\ Fetched(v, tlb[Slot(v, "fetch")].to)
             /\ UNCHANGED <<pt, satp, priv, sum, tlb, edited>>
          \/ /\ ~Hit(v, "fetch") /\ WalkFills(v, "fetch") /\ Fetched(v, pt[satp][v].to)
             /\ UNCHANGED <<satp, priv, sum, edited>>
          \/ /\ ~Hit(v, "fetch") /\ satp # Bare
             /\ ~Allowed(pt[satp][v], "fetch", priv, sum) /\ Trapped

\* ecall, ebreak, an interrupt.
TakeTrap == Trapped

\* The mutant of the flush: only the TLB is emptied.
ReturnFlush_KeepsFetch == tlb' = NoTlb /\ UNCHANGED fetch /\ edited' = {}
ReturnFlush == FlushTlb

\* sret to either mode.
Sret ==
    /\ priv = "S" /\ priv' \in {"S", "U"} /\ ReturnFlush
    /\ UNCHANGED <<pt, satp, sum>>

\* csrw of satp and of sstatus: set_csr() flushes.
SetSatp == priv = "S" /\ satp' \in Roots /\ FlushTlb /\ UNCHANGED <<pt, priv, sum>>
SetSum  == priv = "S" /\ sum' = TRUE /\ FlushTlb /\ UNCHANGED <<pt, satp, priv>>

Sfence == priv = "S" /\ FlushTlb /\ UNCHANGED <<pt, satp, priv, sum>>

\* The kernel stores a new entry; no cache is told.
EditPte(r, v, e) ==
    /\ priv = "S"
    /\ pt' = [pt EXCEPT ![r][v] = e]
    /\ edited' = IF r = satp THEN edited \cup {v} ELSE edited
    /\ UNCHANGED <<satp, priv, sum, tlb, fetch>>

Next ==
    \/ \E v \in VPages : Fetch(v) \/ LoadOrStore(v, "load") \/ LoadOrStore(v, "store")
    \/ TakeTrap \/ Sret \/ SetSatp \/ SetSum \/ Sfence
    \/ \E r \in EditedRoots, v \in VPages, e \in Ptes : EditPte(r, v, e)

Spec == Init /\ [][Next]_vars

-----------------------------------------------------------------------------
\* An answer from a cache is the answer of a walk made now: whatever the TLB and
\* the fetch page hold for the current table, privilege and SUM is still allowed
\* and still leads to the page the table names, with the accessed and dirty bits
\* the walk would have set; only pages the kernel has edited and not flushed yet
\* are excepted, and in user mode there are none.
CachesFresh ==
    /\ priv = "U" => edited = {}
    /\ \A v \in VPages \ edited, acc \in Access :
         Hit(v, acc) =>
           /\ satp # Bare /\ Allowed(pt[satp][v], acc, priv, sum)
           /\ tlb[Slot(v, acc)].to = pt[satp][v].to
           /\ Marked(pt[satp][v], acc) = pt[satp][v]
    /\ fetch.page # "none" /\ fetch.v \notin edited =>
         /\ satp # Bare /\ Allowed(pt[satp][fetch.v], "fetch", priv, sum)
         /\ fetch.to = pt[satp][fetch.v].to
=============================================================================
