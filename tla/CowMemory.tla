----------------------------- MODULE CowMemory ------------------------------
(***************************************************************************)
(* Physical pages and user address spaces: the reference counts of         *)
(* mm/pmm.c, the copy-on-write of mm/paging_common.c, the page tables of   *)
(* arch/risc/riscv64_paging.c, and every operation of the kernel that maps *)
(* or unmaps user pages.  The kernel does not switch inside any of them,   *)
(* so each is one step.                                                    *)
(*                                                                         *)
(* Abstracted: a page holds one value.  The level-1 and level-0 tables for *)
(* a range of pages are one table, the first of them one page with the     *)
(* root, and table pages are counted, not named.                           *)
(* Which free page pmm_alloc_page() finds from next_free_hint on is left   *)
(* to the parameter Alloc.  The order in which processes run is left    *)
(* open (see Process).                                                     *)
(***************************************************************************)
EXTENDS Integers, FiniteSetsExt, Functions

CONSTANTS
    Procs,          \* slots of the process table
    TotalPages,     \* physical pages that user memory and tables come from
    Frames,         \* names for the pages of user memory, enough of them
    Alloc(_, _),    \* Alloc(free, V): out of `free' come these pages for V
    Values,         \* contents of a page
    FileValues,     \* contents of the pages of a program file and of argv
    BrkLo,          \* pages  0 .. BrkLo - 1          the ELF image
    MmapLo,         \*        BrkLo .. MmapLo - 1     from USER_BRK_BASE on
    KernelLo,       \*        MmapLo .. KernelLo - 1  from USER_MMAP_BASE on
    StackLo,        \*        KernelLo .. StackLo - 1 kernel RAM, shared by all
    VATop,          \*        StackLo .. VATop - 1    the stack
    TablePages,     \* pages that one page table covers
    Units,          \* brk() counts in units, this many to a page
    BrkRequests,    \* arguments of brk(), in units
    MaxLength,      \* greatest length of an mmap, munmap or mremap, in pages
    MaxLost,        \* bound on the PTEs that are overwritten
    NoFrame,        \* in the place of a frame: no page is mapped
    Junk            \* what its last owner left in a page that nobody has

ASSUME LayoutAssumption ==
    /\ TotalPages \in Nat
    /\ {BrkLo, MmapLo, KernelLo, StackLo, VATop, TablePages, Units, MaxLength, MaxLost} \subseteq Nat
    /\ 0 < BrkLo /\ BrkLo <= MmapLo /\ MmapLo <= KernelLo
    /\ KernelLo <= StackLo /\ StackLo < VATop
    /\ TablePages > 0 /\ Units > 0
ASSUME ValuesAssumption == 0 \in Values /\ FileValues \subseteq Values
ASSUME FramesAssumption == IsFiniteSet(Frames) /\ NoFrame \notin Frames
ASSUME NoFrameAssumption == NoFrame \notin Values
ASSUME ProcsAssumption == IsFiniteSet(Procs)
ASSUME BrkAssumption == BrkRequests \subseteq 0 .. VATop * Units

VARIABLES
    pstate,    \* "UNUSED", "RUNNABLE" or "ZOMBIE"
    refs,      \* refs[f]; the bitmap bit of f is refs[f] # 0
    content,   \* what the page holds
    pt,        \* pt[p][v]: the leaf PTE of page v in p's address space
    tables,    \* tables[p]: the page tables of p, Root among them
    brk,       \* user_brk, in units
    mmap_next, \* user_mmap_next, a page number
    lost,      \* lost[f]: how many PTEs of f were overwritten, not unmapped
    halted     \* "no", or in which code the machine stopped

mapVars == <<pt, tables, lost>>
pageVars == <<refs, content>>
procVars == <<pstate, brk, mmap_next>>
vars == <<mapVars, pageVars, procVars, halted>>

VAs == 0 .. VATop - 1
ImageVAs == 0 .. BrkLo - 1
KernelVAs == KernelLo .. StackLo - 1
StackVAs == StackLo .. VATop - 1
StackTop == VATop - 1   \* mapped by execve; the rest of the stack is lazy

Root == 0   \* comes with the address space and covers the first pages
TableOf(v) == v \div TablePages
Tables == {Root} \cup {TableOf(v) : v \in VAs}

\* PTE_PRESENT | PTE_USER, with either PTE_WRITABLE or PTE_COW.
Pte == [frame : Frames \cup {NoFrame}, cow : BOOLEAN]
NoPte == [frame |-> NoFrame, cow |-> FALSE]

Halts == {"no", "fault", "table", "fork", "execve", "kernel window"}

TypeOK ==
    /\ pstate \in [Procs -> {"UNUSED", "RUNNABLE", "ZOMBIE"}]
    /\ refs \in [Frames -> Nat]
    /\ content \in [Frames -> Values \cup {Junk}]
    /\ pt \in [Procs -> [VAs -> Pte]]
    /\ tables \in [Procs -> SUBSET Tables]
    /\ brk \in [Procs -> Nat]
    /\ mmap_next \in [Procs -> Nat]
    /\ lost \in [Frames -> Nat]
    /\ halted \in Halts

-----------------------------------------------------------------------------
(***************************************************************************)
(* Allocation.                                                             *)
(***************************************************************************)
Present(p, v) == pt[p][v].frame # NoFrame

FreeFrames == {f \in Frames : refs[f] = 0}

TablePagesOf(p) == Cardinality(tables[p])

\* free_pages: what neither user pages nor page tables take.
FreePages == TotalPages - Cardinality(Frames \ FreeFrames)
                        - MapThenSumSet(TablePagesOf, Procs)

\* Pages it takes to map the pages W in an address space that has tables T.
Cost(T, W) == Cardinality(W) + Cardinality({TableOf(v) : v \in W} \ T)

\* The pages of V are mapped from the lowest up, each as long as the n free
\* pages last: this many get mapped.
Backed(T, V, n) == {v \in V : Cost(T, {u \in V : u <= v}) <= n}

\* What stops the mapping of V: pmm_alloc_page() for the next page, or
\* alloc_table() for a table on the way to it.
NoPage(T, V, n)  == Backed(T, V, n) # V /\ Cost(T, Backed(T, V, n)) = n
NoTable(T, V, n) == Backed(T, V, n) # V /\ Cost(T, Backed(T, V, n)) < n

\* The frames that pmm_alloc_page() may find for the pages V.
Allocations(V) == {a \in Alloc(FreeFrames, V) : a \in Injection(V, FreeFrames)}

\* How often the PTEs of the pages V of p name the frame f.
Uses(p, V, f) == Cardinality({v \in V : pt[p][v].frame = f})

\* The pages a[..] are cleared.
ZeroContent(a) == [f \in Frames |-> IF f \in Range(a) THEN 0 ELSE content[f]]

\* The contents c, without those of pages that no PTE names any more.
Forget(c) ==
    [f \in Frames |-> IF \E p \in Procs, v \in VAs : pt'[p][v].frame = f
                      THEN c[f] ELSE Junk]

Runs(p) == halted = "no" /\ pstate[p] = "RUNNABLE"

Halt(where) ==
    /\ halted' = where
    /\ UNCHANGED <<mapVars, pageVars, procVars>>

\* The PTEs of p for V are written over, and their frames not freed.
Overwrite(p, V) ==
    /\ lost' = [f \in Frames |-> lost[f] + Uses(p, V, f)]
    /\ SumFunction(lost') <= MaxLost

\* The pages DOMAIN a of p are mapped writable to fresh zero pages a[..].
MapFresh(p, a) ==
    LET V == DOMAIN a IN
    /\ pt' = [pt EXCEPT ![p] = [v \in VAs |->
                 IF v \in V THEN [frame |-> a[v], cow |-> FALSE] ELSE pt[p][v]]]
    /\ tables' = [tables EXCEPT ![p] = @ \cup {TableOf(v) : v \in V}]
    /\ refs' = [f \in Frames |-> IF f \in Range(a) THEN 1 ELSE refs[f]]
    /\ content' = Forget(ZeroContent(a))
    /\ Overwrite(p, V)

-----------------------------------------------------------------------------
(***************************************************************************)
(* Boot: the first process, made as by execve in an empty memory.          *)
(***************************************************************************)
NewVAs == ImageVAs \cup {StackTop}
NewTables == {Root} \cup {TableOf(v) : v \in NewVAs}

\* The page table and the contents of a fresh address space on pages a[..];
\* the program file has x in its pages, argv is y.
NewPt(a) == [v \in VAs |-> IF v \in NewVAs THEN [frame |-> a[v], cow |-> FALSE] ELSE NoPte]
Loaded(a, x, y) ==
    [f \in Frames |-> IF f = a[StackTop] THEN y
                      ELSE IF f \in Range(a) THEN x ELSE content[f]]

Init ==
    \E p \in Procs, a \in Alloc(Frames, NewVAs), x, y \in FileValues :
        /\ a \in Injection(NewVAs, Frames)
        /\ pstate = [q \in Procs |-> IF q = p THEN "RUNNABLE" ELSE "UNUSED"]
        /\ pt = [q \in Procs |-> IF q = p THEN NewPt(a) ELSE [v \in VAs |-> NoPte]]
        /\ tables = [q \in Procs |-> IF q = p THEN NewTables ELSE {}]
        /\ refs = [f \in Frames |-> IF f \in Range(a) THEN 1 ELSE 0]
        /\ content = [f \in Frames |-> IF f = a[StackTop] THEN y
                                       ELSE IF f \in Range(a) THEN x ELSE Junk]
        /\ brk = [q \in Procs |-> BrkLo * Units]
        /\ mmap_next = [q \in Procs |-> MmapLo]
        /\ lost = [f \in Frames |-> 0]
        /\ halted = "no"

-----------------------------------------------------------------------------
(***************************************************************************)
(* User accesses and page faults.                                          *)
(***************************************************************************)
\* A store to a page that is mapped writable.
Store(p, v, x) ==
    /\ Runs(p)
    /\ Present(p, v) /\ ~pt[p][v].cow
    /\ content' = [content EXCEPT ![pt[p][v].frame] = x]
    /\ UNCHANGED <<mapVars, refs, procVars, halted>>

\* Mutant: the old page keeps the reference of the PTE that left it.
MoveRef_Keep(new, old) == [refs EXCEPT ![new] = 1]

\* pmm_alloc_page() of `new', pmm_free_page() of `old'.
MoveRef(new, old) == [refs EXCEPT ![new] = 1, ![old] = @ - 1]

\* fix_cow_page(): p gets a copy of its own, holding x.
FixCowPage(p, v, x) ==
    \E a \in Allocations({v}) :
        /\ FreePages > 0
        /\ pt' = [pt EXCEPT ![p][v] = [frame |-> a[v], cow |-> FALSE]]
        /\ refs' = MoveRef(a[v], pt[p][v].frame)
        /\ content' = Forget([content EXCEPT ![a[v]] = x])
        /\ UNCHANGED <<tables, lost, procVars, halted>>

\* A store to a copy-on-write page: the page is copied, the store retried.
CowFault(p, v) ==
    /\ Runs(p)
    /\ Present(p, v) /\ pt[p][v].cow
    /\ FixCowPage(p, v, content[pt[p][v].frame])

\* A user access to a stack page that is not there yet.
StackFault(p, v) ==
    /\ Runs(p)
    /\ ~Present(p, v) /\ v \in StackVAs
    /\ Backed(tables[p], {v}, FreePages) = {v}
    /\ \E a \in Allocations({v}) : MapFresh(p, a)
    /\ UNCHANGED <<procVars, halted>>

\* An access that no handler resolves stops the machine: an unmapped page,
\* or no memory for the copy or for the stack page.
FatalFault(p, v) ==
    /\ Runs(p)
    /\ \/ Present(p, v) /\ pt[p][v].cow /\ FreePages = 0
       \/ ~Present(p, v) /\ v \notin StackVAs
       \/ ~Present(p, v) /\ v \in StackVAs /\ Backed(tables[p], {v}, FreePages) = {}
    /\ Halt("fault")

\* A system call stores x into a buffer of the caller, after
\* paging_ensure_writable().  A stack page that is not there yet is fatal:
\* the fault comes from the kernel.
KernelWrite(p, v, x) ==
    /\ Runs(p)
    /\ \/ /\ Present(p, v) /\ ~pt[p][v].cow
          /\ content' = [content EXCEPT ![pt[p][v].frame] = x]
          /\ UNCHANGED <<mapVars, refs, procVars, halted>>
       \/ /\ Present(p, v) /\ pt[p][v].cow
          /\ FixCowPage(p, v, x)
       \/ /\ ~Present(p, v) \/ (pt[p][v].cow /\ FreePages = 0)
          /\ Halt("fault")

-----------------------------------------------------------------------------
(***************************************************************************)
(* brk, mmap, munmap and mremap.                                           *)
(***************************************************************************)
\* syscall_grow_pages() of V, and what the system call does on success and
\* on failure.  On failure the pages mapped so far stay mapped.
GrowPages(p, V, done, failed) ==
    LET B == Backed(tables[p], V, FreePages) IN
    \/ /\ B \cap KernelVAs # {}
       /\ Halt("kernel window")
    \/ /\ B \cap KernelVAs = {}
       /\ NoTable(tables[p], V, FreePages)
       /\ Halt("table")
    \/ /\ B \cap KernelVAs = {}
       /\ ~NoTable(tables[p], V, FreePages)
       /\ \E a \in Allocations(B) : MapFresh(p, a)
       /\ IF B = V THEN done ELSE failed
       /\ UNCHANGED <<pstate, halted>>

\* syscall_page_round_up(), to a page number.
PageRoundUp(u) == (u + Units - 1) \div Units

\* brk(0) asks where the break is; a lower one than it is gives no page back.
Brk(p, requested) ==
    /\ Runs(p)
    /\ \/ requested = 0 /\ UNCHANGED vars
       \/ /\ requested # 0 /\ requested <= brk[p]
          /\ brk' = [brk EXCEPT ![p] = requested]
          /\ UNCHANGED <<mapVars, pageVars, pstate, mmap_next, halted>>
       \/ /\ requested > brk[p]
          /\ GrowPages(p, PageRoundUp(brk[p]) .. PageRoundUp(requested) - 1,
                       brk' = [brk EXCEPT ![p] = requested] /\ UNCHANGED mmap_next,
                       UNCHANGED <<brk, mmap_next>>)

\* An mmap without MAP_FIXED: the cursor moves on, also if memory runs out.
Mmap(p, len) ==
    LET end == mmap_next[p] + len IN
    /\ Runs(p)
    /\ end <= VATop
    /\ GrowPages(p, mmap_next[p] .. end - 1,
                 mmap_next' = [mmap_next EXCEPT ![p] = end] /\ UNCHANGED brk,
                 mmap_next' = [mmap_next EXCEPT ![p] = end] /\ UNCHANGED brk)

MmapFixed(p, V) ==
    LET end == Max(V) + 1 IN
    /\ Runs(p)
    /\ GrowPages(p, V,
                 /\ mmap_next' = [mmap_next EXCEPT ![p] = IF end > @ THEN end ELSE @]
                 /\ UNCHANGED brk,
                 UNCHANGED <<brk, mmap_next>>)

\* Mutant: the pages are unmapped and not freed.
RefsWithout_Kept(p, V) == refs

\* The reference counts once the mapped pages among V are freed.
RefsWithout(p, V) == [f \in Frames |-> refs[f] - Uses(p, V, f)]

\* The page table of p without V.
PtWithout(p, V) == [v \in VAs |-> IF v \in V THEN NoPte ELSE pt[p][v]]

\* syscall_munmap_pages(), by munmap or by an mremap that shrinks.
Munmap(p, V) ==
    /\ Runs(p)
    /\ pt' = [pt EXCEPT ![p] = PtWithout(p, V)]
    /\ refs' = RefsWithout(p, V)
    /\ content' = Forget(content)
    /\ UNCHANGED <<tables, lost, procVars, halted>>

\* The contents after Old was copied to the fresh pages a[..] of V, which lie
\* from the mmap cursor on.
Moved(p, Old, V, a) ==
    LET Shift(v) == v - mmap_next[p] + Min(Old) IN
    [f \in Frames |->
        IF \E v \in V : f = a[v] /\ Shift(v) \in Old
        THEN content[pt[p][Shift(CHOOSE v \in V : f = a[v])].frame]
        ELSE ZeroContent(a)[f]]

\* New pages a[..] at V, a copy of Old in them, and Old unmapped.
MovePages(p, Old, V, a) ==
    /\ pt' = [pt EXCEPT ![p] = [v \in VAs |->
                 CASE v \in V   -> [frame |-> a[v], cow |-> FALSE]
                   [] v \in Old -> NoPte
                   [] OTHER     -> pt[p][v]]]
    /\ tables' = [tables EXCEPT ![p] = @ \cup {TableOf(v) : v \in V}]
    /\ refs' = [f \in Frames |-> IF f \in Range(a) THEN 1 ELSE RefsWithout(p, Old)[f]]
    /\ content' = Forget(Moved(p, Old, V, a))
    /\ Overwrite(p, V)

\* An mremap that grows and may move: new pages, a copy, and the old pages
\* unmapped.  The copy reads the old range with the kernel's own loads.
Mremap(p, Old, k) ==
    LET end == mmap_next[p] + Cardinality(Old) + k
        V   == mmap_next[p] .. end - 1
        B   == Backed(tables[p], V, FreePages)
    IN
    /\ Runs(p)
    /\ end <= VATop
    /\ \/ /\ B \cap KernelVAs # {}
          /\ Halt("kernel window")
       \/ /\ B \cap KernelVAs = {} /\ NoTable(tables[p], V, FreePages)
          /\ Halt("table")
       \/ /\ B \cap KernelVAs = {} /\ NoPage(tables[p], V, FreePages)
          /\ \E a \in Allocations(B) : MapFresh(p, a)
          /\ mmap_next' = [mmap_next EXCEPT ![p] = end]
          /\ UNCHANGED <<pstate, brk, halted>>
       \/ /\ B = V /\ V \cap KernelVAs = {}
          /\ \E v \in Old : ~Present(p, v)
          /\ Halt("fault")
       \/ /\ B = V /\ V \cap KernelVAs = {}
          /\ \A v \in Old : Present(p, v)
          /\ \E a \in Allocations(V) : MovePages(p, Old, V, a)
          /\ mmap_next' = [mmap_next EXCEPT ![p] = end]
          /\ UNCHANGED <<pstate, brk, halted>>

-----------------------------------------------------------------------------
(***************************************************************************)
(* fork, execve, exit and the reaping of a zombie.                         *)
(***************************************************************************)
\* Mutant: the parent's PTEs stay writable.
Shared_ChildOnly(p, c, t) ==
    [pt EXCEPT ![c] = [v \in VAs |-> [frame |-> pt[p][v].frame, cow |-> t[v]]]]

\* The page tables of parent and child: t[v] if page v is mapped.
Shared(p, c, t) ==
    LET m == [v \in VAs |-> [frame |-> pt[p][v].frame, cow |-> t[v]]]
    IN  [pt EXCEPT ![p] = m, ![c] = m]

\* paging_new_addrspace() and paging_fork_user().
Fork(p, c) ==
    LET V == {v \in VAs : Present(p, v)}
        T == {Root} \cup {TableOf(v) : v \in V}
    IN
    /\ Runs(p)
    /\ pstate[c] = "UNUSED"
    /\ \/ /\ Cardinality(T) > FreePages
          /\ Halt("fork")
       \/ /\ Cardinality(T) <= FreePages
          /\ pt' = Shared(p, c, [v \in VAs |-> v \in V])
          /\ tables' = [tables EXCEPT ![c] = T]
          /\ refs' = [f \in Frames |-> refs[f] + Uses(p, V, f)]
          /\ pstate' = [pstate EXCEPT ![c] = "RUNNABLE"]
          /\ brk' = [brk EXCEPT ![c] = brk[p]]
          /\ mmap_next' = [mmap_next EXCEPT ![c] = mmap_next[p]]
          /\ UNCHANGED <<content, lost, halted>>

\* The new address space is built beside the old one, which is destroyed
\* when the new one is complete.  A page that is missing for the image makes
\* execve fail and gives everything back; one that is missing for a table,
\* or for the stack, stops the machine.
Execve(p, x, y) ==
    LET n == FreePages - 1 IN
    /\ Runs(p)
    /\ \/ /\ n >= 0 /\ NoPage({Root}, ImageVAs, n)
          /\ UNCHANGED vars
       \/ /\ Cost({Root}, NewVAs) > n
          /\ n < 0 \/ ~NoPage({Root}, ImageVAs, n)
          /\ Halt("execve")
       \/ /\ Cost({Root}, NewVAs) <= n
          /\ \E a \in Allocations(NewVAs) :
                /\ pt' = [pt EXCEPT ![p] = NewPt(a)]
                /\ refs' = [f \in Frames |-> IF f \in Range(a) THEN 1
                                             ELSE RefsWithout(p, VAs)[f]]
                /\ content' = Forget(Loaded(a, x, y))
          /\ tables' = [tables EXCEPT ![p] = NewTables]
          /\ brk' = [brk EXCEPT ![p] = BrkLo * Units]
          /\ mmap_next' = [mmap_next EXCEPT ![p] = MmapLo]
          /\ UNCHANGED <<pstate, lost, halted>>

\* A zombie keeps its address space.
Exit(p) ==
    /\ Runs(p)
    /\ \E q \in Procs \ {p} : pstate[q] = "RUNNABLE"
    /\ pstate' = [pstate EXCEPT ![p] = "ZOMBIE"]
    /\ UNCHANGED <<mapVars, pageVars, brk, mmap_next, halted>>

\* wait4: paging_destroy_addrspace() of the zombie's.
Reap(z) ==
    /\ halted = "no"
    /\ pstate[z] = "ZOMBIE"
    /\ pstate' = [pstate EXCEPT ![z] = "UNUSED"]
    /\ pt' = [pt EXCEPT ![z] = PtWithout(z, VAs)]
    /\ refs' = RefsWithout(z, VAs)
    /\ content' = Forget(content)
    /\ tables' = [tables EXCEPT ![z] = {}]
    /\ UNCHANGED <<lost, brk, mmap_next, halted>>

HaltForever ==
    /\ halted # "no"
    /\ UNCHANGED vars

-----------------------------------------------------------------------------
Lengths == 1 .. MaxLength

\* The ranges that programs name in MAP_FIXED and munmap: they lie where mmap
\* has its pages.
Ranges == {v .. v + n - 1 : v \in MmapLo .. KernelLo - 1, n \in Lengths}
             \cap SUBSET (MmapLo .. KernelLo - 1)

\* Those they name in mremap are among what an mmap has returned, which is
\* below the cursor: the new place never overlaps the old one.
Returned(p) == {V \in Ranges : \A v \in V : v < mmap_next[p]}

Next ==
    \/ \E p \in Procs :
          \/ \E v \in VAs \ KernelVAs :
                \/ CowFault(p, v) \/ StackFault(p, v) \/ FatalFault(p, v)
                \/ \E x \in Values : Store(p, v, x) \/ KernelWrite(p, v, x)
          \/ \E requested \in BrkRequests : Brk(p, requested)
          \/ \E len \in Lengths : Mmap(p, len)
          \/ \E V \in Ranges :
                \/ MmapFixed(p, V)
                \/ Munmap(p, V)
          \/ \E V \in Returned(p), k \in Lengths : Mremap(p, V, k)
          \/ \E c \in Procs : Fork(p, c)
          \/ \E x, y \in FileValues : Execve(p, x, y)
          \/ Exit(p)
          \/ Reap(p)
    \/ HaltForever

Spec == Init /\ [][Next]_vars

-----------------------------------------------------------------------------
(***************************************************************************)
(* Correctness.                                                            *)
(***************************************************************************)
\* The PTEs that name the frame f.
Users(f) == {x \in Procs \X VAs : pt[x[1]][x[2]].frame = f}

\* A page's reference count is the number of PTEs that name it, in whichever
\* address space, plus the PTEs that brk or mmap have overwritten: no page
\* is freed while it is mapped, and nothing else leaks one, whatever fails
\* half-way.
RefsExact == \A f \in Frames : refs[f] = Cardinality(Users(f)) + lost[f]

\* A page that a process can store to without a fault is in no other PTE.
WritableUnshared ==
    \A p, q \in Procs, u, v \in VAs :
        /\ Present(p, u) /\ ~pt[p][u].cow
        /\ pt[q][v].frame = pt[p][u].frame
        => p = q /\ u = v

\* Every fork, fault, munmap, exit and failure half-way leaves exact counts
\* and no page that two PTEs can store to (pmm_free_page(), fix_cow_page(),
\* paging_fork_user()).
FramesOK == TypeOK /\ RefsExact /\ WritableUnshared

\* What the programs see: the contents of their pages, the processes that
\* have an address space, and what a program starts with.
Unmapped == NoFrame
Memory ==
    [p \in Procs |-> [v \in VAs |->
        IF Present(p, v) THEN content[pt[p][v].frame] ELSE Unmapped]]
Live == {p \in Procs : pstate[p] # "UNUSED"}
Image(x, y) ==
    [v \in VAs |-> IF v \in ImageVAs THEN x ELSE IF v = StackTop THEN y ELSE Unmapped]

\* Copy-on-write, the reuse of freed pages and the failures half-way leave
\* every process a memory of its own.
P == INSTANCE PrivateMemory WITH
        mem <- Memory, live <- Live,
        Images <- {Image(x, y) : x \in FileValues, y \in FileValues}
MemoryIsPrivate == P!Spec

\* "Real per-process addresses (..., its mmap arena at 0x60000000+) must
\* never land inside the shared region above" (arch/i386/paging.c, which
\* refers to paging_new_addrspace() of the RISC-V kernel): no user page is
\* mapped through the page tables that all address spaces share.  The code
\* does not keep it: the mmap cursor only moves up, and has no limit.
KernelWindowIntact == halted # "kernel window"

\* "Returns the new child's pid, or -1 on failure (process table full / out
\* of memory)" (the comment on process_fork()): running out of memory in a
\* fork does not stop the machine.  The code does not keep it: alloc_table()
\* halts.
ForkFailureReported == halted # "fork"
=============================================================================
