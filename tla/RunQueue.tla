------------------------------ MODULE RunQueue ------------------------------
(***************************************************************************)
(* The three scans of the process table in kernel/sched/process.c, as      *)
(* predicates on a table `st' of slot states.  They are the only places    *)
(* where the kernel decides which slot to use or which process to run:     *)
(*                                                                         *)
(*   IsNextRunnable    process_schedule()      round-robin after `c'       *)
(*   IsLowestRunnable  process_exit_current()  first RUNNABLE slot         *)
(*   IsFirstUnused     alloc_slot()            first UNUSED slot           *)
(***************************************************************************)
EXTENDS Naturals

CONSTANT MaxProcesses  \* MAX_PROCESSES, 8 in the code

ASSUME MaxProcessesAssumption == MaxProcesses \in Nat \ {0}

\* The index of a struct process in processes[].
Slots == 0 .. MaxProcesses - 1

\* enum process_state
ProcessState == {"UNUSED", "RUNNABLE", "ZOMBIE"}

\* The slot `k' places after `c', wrapping round the end of the table.
After(c, k) == (c + k) % MaxProcesses

\* Mutant: the scan starts at slot 0, as process_exit_current()'s does.
IsNextRunnable_FromZero(st, c, n) ==
    LET others == {m \in 0 .. MaxProcesses - 1 : m # c /\ st[m] = "RUNNABLE"}
    IN  IF others = {} THEN n = c ELSE n \in others /\ \A m \in others : n <= m

\* `n' is the first RUNNABLE slot met going round the table from the one
\* after `c'; `c' itself is looked at last.
IsNextRunnable(st, c, n) ==
    \E k \in 1 .. MaxProcesses :
        /\ n = After(c, k)
        /\ st[n] = "RUNNABLE"
        /\ \A j \in 1 .. k - 1 : st[After(c, j)] # "RUNNABLE"

\* `n' is the RUNNABLE slot of least index: the scan starts at slot 0 and
\* not after the process that is leaving.
IsLowestRunnable(st, n) ==
    /\ n \in Slots
    /\ st[n] = "RUNNABLE"
    /\ \A m \in Slots : st[m] = "RUNNABLE" => n <= m

\* `n' is the UNUSED slot of least index.
IsFirstUnused(st, n) ==
    /\ n \in Slots
    /\ st[n] = "UNUSED"
    /\ \A m \in Slots : st[m] = "UNUSED" => n <= m
=============================================================================
