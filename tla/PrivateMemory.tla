--------------------------- MODULE PrivateMemory ----------------------------
(***************************************************************************)
(* What copy-on-write promises to user programs: every process has a       *)
(* memory of its own.  fork() gives the child a copy of its parent's, and  *)
(* from then on a step changes the memory of one process only; what is     *)
(* newly mapped reads as zero.  There are no page frames here, and nothing *)
(* is shared.                                                              *)
(***************************************************************************)
EXTENDS Naturals

CONSTANTS
    Procs,    \* slots of the process table
    VAs,      \* numbers of user pages
    Values,   \* contents of a page, 0 among them
    Unmapped, \* in the place of a content: the page is not there
    Images    \* the memories execve() can start a program with

VARIABLES
    mem,   \* mem[p][v]: what process p has at page v
    live   \* processes that have an address space

vars == <<mem, live>>

Empty == [v \in VAs |-> Unmapped]

Init ==
    \E p \in Procs, image \in Images :
        /\ live = {p}
        /\ mem = [q \in Procs |-> IF q = p THEN image ELSE Empty]

\* Of the memories, only that of the live process p may change.
Changes(p) ==
    /\ p \in live
    /\ mem' \in [Procs -> [VAs -> Values \cup {Unmapped}]]
    /\ \A q \in Procs \ {p} : mem'[q] = mem[q]
    /\ UNCHANGED live

Store(p) ==
    /\ Changes(p)
    /\ \E v \in VAs :
          /\ mem[p][v] # Unmapped /\ mem'[p][v] # Unmapped
          /\ \A u \in VAs \ {v} : mem'[p][u] = mem[p][u]

\* brk, mmap and the stack: pages of zeros, also in the place of old ones.
Map(p) ==
    /\ Changes(p)
    /\ \A v \in VAs : mem'[p][v] \in {0, mem[p][v]}

Unmap(p) ==
    /\ Changes(p)
    /\ \A v \in VAs : mem'[p][v] \in {Unmapped, mem[p][v]}

\* Page v of the memory m once n pages from `from' on went to `to', followed
\* by k pages of zeros.
AfterMove(m, from, to, n, k, v) ==
    CASE v \in from .. from + n - 1 -> Unmapped
      [] v \in to .. to + n - 1     -> m[from + (v - to)]
      [] v \in to + n .. to + n + k - 1 -> 0
      [] OTHER -> m[v]

\* mremap.
Move(p) ==
    /\ Changes(p)
    /\ \E from, to, n, k \in VAs :
          /\ from .. from + n - 1 \subseteq VAs
          /\ \A v \in VAs : mem'[p][v] = AfterMove(mem[p], from, to, n, k, v)

Execve(p) == Changes(p) /\ mem'[p] \in Images

Fork(p) ==
    \E c \in Procs \ live :
        /\ p \in live
        /\ mem' = [mem EXCEPT ![c] = mem[p]]
        /\ live' = live \cup {c}

Reap(p) ==
    /\ p \in live
    /\ mem' = [mem EXCEPT ![p] = Empty]
    /\ live' = live \ {p}

Next ==
    \/ \E p \in Procs : Store(p) \/ Execve(p) \/ Fork(p) \/ Reap(p)
    \/ \E p \in Procs : Map(p) \/ Unmap(p)
    \/ \E p \in Procs : Move(p)

Spec == Init /\ [][Next]_vars
=============================================================================
