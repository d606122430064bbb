------------------------------ MODULE Dispatch ------------------------------
(***************************************************************************)
(* What the process table promises to the rest of the kernel, without      *)
(* pids, address spaces or registers: which slot runs, which slots are     *)
(* RUNNABLE or ZOMBIE, and who may reap whom.  Process implements it.      *)
(*                                                                         *)
(* The parent of a process is kept as a slot and not as a pid, so the      *)
(* module has finitely many states however many processes come and go, and *)
(* the fairness of the two dispatching rules can be checked: the round     *)
(* robin of process_schedule() and the scan from slot 0 of                 *)
(* process_exit_current().                                                 *)
(***************************************************************************)
EXTENDS RunQueue, Integers

CONSTANT BootProcs  \* processes kmain creates before process_run()

ASSUME BootProcsAssumption == BootProcs \in 1 .. MaxProcesses

VARIABLES
    state,    \* processes[s].state
    parent,   \* the slot of the parent of the process in slot s
    current,  \* index of current_process
    halted    \* arch_halt_forever() reached

vars == <<state, parent, current, halted>>

\* No parent: created by kmain, or the parent's slot has been reaped.
NoParent == -1

Init ==
    /\ state = [s \in Slots |-> IF s < BootProcs THEN "RUNNABLE" ELSE "UNUSED"]
    /\ parent = [s \in Slots |-> NoParent]
    /\ current = 0
    /\ halted = FALSE

\* process_schedule(), from whichever system call.
Yield ==
    /\ ~halted
    /\ \E n \in Slots : IsNextRunnable(state, current, n) /\ current' = n
    /\ UNCHANGED <<state, parent, halted>>

\* process_fork()
Fork ==
    /\ ~halted
    /\ \E s \in Slots :
          /\ IsFirstUnused(state, s)
          /\ state' = [state EXCEPT ![s] = "RUNNABLE"]
          /\ parent' = [parent EXCEPT ![s] = current]
    /\ UNCHANGED <<current, halted>>

\* process_exit_current()
Exit ==
    /\ ~halted
    /\ state' = [state EXCEPT ![current] = "ZOMBIE"]
    /\ \/ \E n \in Slots : /\ IsLowestRunnable(state', n)
                           /\ current' = n
                           /\ UNCHANGED halted
       \/ /\ \A s \in Slots : state'[s] # "RUNNABLE"
          /\ halted' = TRUE
          /\ UNCHANGED current
    /\ UNCHANGED parent

\* The parents once slot s is free: the children it leaves behind have a
\* parent pid that nobody has any more.
Orphaned(s) ==
    [t \in Slots |-> IF t = s \/ parent[t] = s THEN NoParent ELSE parent[t]]

\* process_wait4() finding a zombie child.
Reap ==
    /\ ~halted
    /\ \E s \in Slots :
          /\ state[s] = "ZOMBIE" /\ parent[s] = current
          /\ state' = [state EXCEPT ![s] = "UNUSED"]
          /\ parent' = Orphaned(s)
    /\ UNCHANGED <<current, halted>>

\* Bare SYS_exit.
Halt ==
    /\ ~halted
    /\ halted' = TRUE
    /\ UNCHANGED <<state, parent, current>>

HaltForever ==
    /\ halted
    /\ UNCHANGED vars

Next == Yield \/ Fork \/ Exit \/ Reap \/ Halt \/ HaltForever

Spec == Init /\ [][Next]_vars

\* The kernel never takes the processor away from a process: every process
\* that is given it must sooner or later yield, block or exit.
Cooperative == WF_vars(Yield \/ Exit)

FairSpec == Spec /\ Cooperative

-----------------------------------------------------------------------------
\* As long as processes only yield, fork and reap, process_schedule()'s
\* round robin gives every RUNNABLE process the processor again and again.
RoundRobinFair ==
    <>[][~Exit]_vars =>
        \A s \in Slots :
            (state[s] = "RUNNABLE" /\ ~halted) ~> (current = s \/ halted)

\* The same with exits: "cooperatively yielding to every other RUNNABLE
\* process each time round" (the comment on process_wait4()).  The code does
\* not keep it: an exit hands the processor to the lowest slot, so a parent
\* there that forks and waits in a loop starves the slots above its child's.
EveryRunnableRuns ==
    \A s \in Slots :
        (state[s] = "RUNNABLE" /\ ~halted) ~> (current = s \/ halted)
=============================================================================
