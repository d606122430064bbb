------------------------------ MODULE Process -------------------------------
(***************************************************************************)
(* The process table of kernel/sched/process.c: creation at boot, fork,    *)
(* execve, exit, wait4 and the cooperative switch, with what a switch has  *)
(* to keep straight: the active address space and the single trapframe     *)
(* that every process's traps go through.                                  *)
(*                                                                         *)
(* The kernel runs one process at a time with interrupts off, so the code  *)
(* between two calls of process_schedule() is one step.  A process that is *)
(* switched out inside a system call keeps its place in `call'.            *)
(*                                                                         *)
(* Abstracted: memory contents (CowMemory), descriptors (Descriptors), and *)
(* all registers but the return value a0.  A register file carries the pid *)
(* of the process whose context it is.                                     *)
(***************************************************************************)
EXTENDS RunQueue, Integers

CONSTANTS
    MaxPid,     \* bound on the pids handed out
    BootProcs,  \* processes kmain creates before process_run(): 1 in the product
    ExitCodes,  \* arguments of exit_group()
    Roots,      \* root page tables that can exist
    NoRoot      \* the null root_table of a slot that is not in use

ASSUME BootProcsAssumption == BootProcs \in 1 .. MaxProcesses
ASSUME MaxPidAssumption == MaxPid \in Nat /\ BootProcs <= MaxPid
ASSUME ExitCodesAssumption == ExitCodes \subseteq Nat
ASSUME NoRootAssumption == NoRoot \notin Roots

VARIABLES
    state,       \* processes[s].state
    pid,         \* processes[s].pid
    ppid,        \* processes[s].ppid
    exit_code,   \* processes[s].exit_code
    root_table,  \* processes[s].root_table
    user_regs,   \* processes[s].user_regs
    call,        \* where processes[s] is in the kernel, see Calls
    wait_pid,    \* the pid argument of its wait4
    next_pid,
    current,     \* index of current_process
    roots,       \* address spaces created and not yet destroyed
    active_root, \* the root in satp
    trapframe,   \* the one at RV64_TRAPFRAME_BASE
    status_out,  \* the int the last wait4 stored in its caller's memory
    halted       \* arch_halt_forever() reached

procVars == <<state, pid, ppid, exit_code, root_table>>
cpuVars  == <<current, active_root, trapframe, user_regs>>
vars     == <<procVars, cpuVars, call, wait_pid, next_pid, roots, status_out,
              halted>>

\* "user": in user mode, or about to return to it.
\* "yield", "sleep", "wait4": inside that system call, at its process_schedule().
Calls == {"user", "yield", "sleep", "wait4"}

\* A negative errno: -ENOMEM, -ENOENT, -ECHILD or -EINVAL.
Errno == -1

\* The pid argument of wait4 that matches every child.
AnyPid == -1

Regs == [owner : 0 .. MaxPid, a0 : -1 .. MaxPid]

TypeOK ==
    /\ state \in [Slots -> ProcessState]
    /\ pid \in [Slots -> 0 .. MaxPid]
    /\ ppid \in [Slots -> 0 .. MaxPid]
    /\ exit_code \in [Slots -> ExitCodes \cup {0}]
    /\ root_table \in [Slots -> Roots \cup {NoRoot}]
    /\ user_regs \in [Slots -> Regs]
    /\ call \in [Slots -> Calls]
    /\ wait_pid \in [Slots -> -1 .. MaxPid]
    /\ next_pid \in 1 .. MaxPid + 1
    /\ current \in Slots
    /\ roots \in SUBSET Roots
    /\ active_root \in Roots
    /\ trapframe \in Regs
    /\ status_out \in Nat
    /\ halted \in BOOLEAN

-----------------------------------------------------------------------------
(***************************************************************************)
(* Boot: process_init(), BootProcs calls of process_create_from_elf_argv() *)
(* and process_run() of the first, up to the end of its trampoline.        *)
(***************************************************************************)
FreshRegs(p) == [owner |-> p, a0 |-> 0]

Booted == 0 .. BootProcs - 1

Init ==
    \E rt \in [Booted -> Roots] :
        /\ \A s, t \in Booted : rt[s] = rt[t] => s = t
        /\ state = [s \in Slots |-> IF s \in Booted THEN "RUNNABLE" ELSE "UNUSED"]
        /\ pid = [s \in Slots |-> IF s \in Booted THEN s + 1 ELSE 0]
        /\ ppid = [s \in Slots |-> 0]
        /\ exit_code = [s \in Slots |-> 0]
        /\ root_table = [s \in Slots |-> IF s \in Booted THEN rt[s] ELSE NoRoot]
        /\ user_regs = [s \in Slots |-> FreshRegs(IF s \in Booted THEN s + 1 ELSE 0)]
        /\ call = [s \in Slots |-> "user"]
        /\ wait_pid = [s \in Slots |-> 0]
        /\ next_pid = BootProcs + 1
        /\ current = 0
        /\ roots = {rt[s] : s \in Booted}
        /\ active_root = rt[0]
        /\ trapframe = FreshRegs(1)
        /\ status_out = 0
        /\ halted = FALSE

\* The address spaces left by paging_destroy_addrspace(r).
Without(rs, r) == rs \ {r}

-----------------------------------------------------------------------------
(***************************************************************************)
(* The switch.                                                             *)
(***************************************************************************)
\* Mutant: the address space is not switched.
ActivateAndRestore_NoActivate(n, saved) ==
    /\ UNCHANGED active_root
    /\ trapframe' = saved[n]

\* process_arch_activate_and_restore(n), with the regs saved for n.
ActivateAndRestore(n, saved) ==
    /\ active_root' = root_table[n]
    /\ trapframe' = saved[n]

\* Mutant: the trapframe of the process switched out is lost.
SaveTrapframe_Nothing(old) == user_regs

\* process_arch_save_trapframe(old)
SaveTrapframe(old) == [user_regs EXCEPT ![old] = trapframe]

\* process_schedule() as called by the current process: nothing happens if
\* it is the only RUNNABLE one.  Otherwise its trapframe is saved and the
\* next process comes up, either out of its own process_schedule() or in
\* the trampoline: both put its address space and trapframe in place.
Schedule ==
    \E n \in Slots :
        /\ IsNextRunnable(state, current, n)
        /\ IF n = current
           THEN UNCHANGED cpuVars
           ELSE /\ user_regs' = SaveTrapframe(current)
                /\ current' = n
                /\ ActivateAndRestore(n, user_regs')

\* sys_ret(r, v): r is the shared trapframe.
SysRet(v) == trapframe' = [trapframe EXCEPT !.a0 = v]

\* The current process is at a place where it may enter system call code.
Running(c) == ~halted /\ call[current] = c

-----------------------------------------------------------------------------
(***************************************************************************)
(* sched_yield and nanosleep.                                              *)
(***************************************************************************)
SchedYield ==
    /\ Running("user")
    /\ Schedule
    /\ call' = [call EXCEPT ![current] = "yield"]
    /\ UNCHANGED <<procVars, wait_pid, next_pid, roots, halted, status_out>>

\* A null or malformed timespec.
NanosleepInvalid ==
    /\ Running("user")
    /\ SysRet(Errno)
    /\ UNCHANGED <<procVars, current, active_root, user_regs, call, wait_pid,
                   next_pid, roots, halted, status_out>>

\* One test of the clock that finds the delay not over.
NanosleepWait ==
    /\ Running("user") \/ Running("sleep")
    /\ Schedule
    /\ call' = [call EXCEPT ![current] = "sleep"]
    /\ UNCHANGED <<procVars, wait_pid, next_pid, roots, halted, status_out>>

\* The return of sched_yield, and of a nanosleep whose delay is over.
ScheduleReturn ==
    /\ Running("yield") \/ Running("sleep")
    /\ SysRet(0)
    /\ call' = [call EXCEPT ![current] = "user"]
    /\ UNCHANGED <<procVars, current, active_root, user_regs, wait_pid,
                   next_pid, roots, halted, status_out>>

-----------------------------------------------------------------------------
(***************************************************************************)
(* fork.                                                                   *)
(***************************************************************************)
ForkFails ==
    /\ Running("user")
    /\ \A s \in Slots : state[s] # "UNUSED"
    /\ SysRet(Errno)
    /\ UNCHANGED <<procVars, current, active_root, user_regs, call, wait_pid,
                   next_pid, roots, halted, status_out>>

\* next_pid++
TakePid == next_pid' = next_pid + 1

Fork ==
    /\ Running("user")
    /\ next_pid <= MaxPid
    /\ \E s \in Slots, r \in Roots \ roots :
          /\ IsFirstUnused(state, s)
          /\ roots' = roots \cup {r}
          /\ root_table' = [root_table EXCEPT ![s] = r]
          /\ pid' = [pid EXCEPT ![s] = next_pid]
          /\ ppid' = [ppid EXCEPT ![s] = pid[current]]
          /\ exit_code' = [exit_code EXCEPT ![s] = 0]
          /\ user_regs' = [user_regs EXCEPT ![s] = FreshRegs(next_pid)]
          /\ call' = [call EXCEPT ![s] = "user"]
          /\ state' = [state EXCEPT ![s] = "RUNNABLE"]
    /\ TakePid
    /\ SysRet(next_pid)
    /\ UNCHANGED <<current, active_root, wait_pid, halted, status_out>>

-----------------------------------------------------------------------------
(***************************************************************************)
(* execve.                                                                 *)
(***************************************************************************)
\* No such file, an argument too long, too many arguments, or an image
\* elf_load() refuses: in the last case the new address space was active
\* meanwhile, the old one is activated again before the new is destroyed.
ExecveFails ==
    /\ Running("user")
    /\ SysRet(Errno)
    /\ UNCHANGED <<procVars, current, active_root, user_regs, call, wait_pid,
                   next_pid, roots, halted, status_out>>

Execve ==
    /\ Running("user")
    /\ \E r \in Roots \ roots :
          /\ root_table' = [root_table EXCEPT ![current] = r]
          /\ roots' = Without(roots \cup {r}, active_root)
          /\ active_root' = r
    /\ SysRet(0)
    /\ UNCHANGED <<state, pid, ppid, exit_code, current, user_regs, call,
                   wait_pid, next_pid, halted, status_out>>

-----------------------------------------------------------------------------
(***************************************************************************)
(* exit_group and exit.                                                    *)
(***************************************************************************)
\* process_exit_current() with another RUNNABLE process: the first in the
\* table comes up, and the zombie's trapframe is not saved.
ExitGroup(code) ==
    /\ Running("user")
    /\ state' = [state EXCEPT ![current] = "ZOMBIE"]
    /\ exit_code' = [exit_code EXCEPT ![current] = code]
    /\ \E n \in Slots :
          /\ IsLowestRunnable(state', n)
          /\ current' = n
          /\ ActivateAndRestore(n, user_regs)
    /\ UNCHANGED <<pid, ppid, root_table, user_regs, call, wait_pid, next_pid,
                   roots, halted, status_out>>

\* process_exit_current() of the last RUNNABLE process: process_halt().
ExitGroupLast(code) ==
    /\ Running("user")
    /\ \A s \in Slots \ {current} : state[s] # "RUNNABLE"
    /\ state' = [state EXCEPT ![current] = "ZOMBIE"]
    /\ exit_code' = [exit_code EXCEPT ![current] = code]
    /\ halted' = TRUE
    /\ UNCHANGED <<pid, ppid, root_table, cpuVars, call, wait_pid, next_pid,
                   roots, status_out>>

\* Bare SYS_exit: the machine halts whatever else is RUNNABLE.
Exit ==
    /\ Running("user")
    /\ halted' = TRUE
    /\ UNCHANGED <<procVars, cpuVars, call, wait_pid, next_pid, roots, status_out>>

HaltForever ==
    /\ halted
    /\ UNCHANGED vars

-----------------------------------------------------------------------------
(***************************************************************************)
(* wait4.                                                                  *)
(***************************************************************************)
\* Mutant: anybody's child matches.
MatchingChildren_AnyParent(c, w) ==
    {s \in Slots : state[s] # "UNUSED" /\ (w = AnyPid \/ pid[s] = w)}

\* The slots that p->ppid == me->pid and the pid argument w select, me = c.
MatchingChildren(c, w) ==
    {s \in Slots : /\ state[s] # "UNUSED"
                   /\ ppid[s] = pid[c]
                   /\ w = AnyPid \/ pid[s] = w}

MatchingZombies(c, w) == {s \in MatchingChildren(c, w) : state[s] = "ZOMBIE"}

\* The current process is at the top of the loop with pid argument w: it
\* has just called wait4, or its process_schedule() has returned.
InWait4(w) == Running("user") \/ (Running("wait4") /\ w = wait_pid[current])

\* The return of wait4; its argument is dead from here on.
LeaveWait4 ==
    /\ call' = [call EXCEPT ![current] = "user"]
    /\ wait_pid' = [wait_pid EXCEPT ![current] = 0]

\* The int wait4 stores: the exit code where WEXITSTATUS looks for it.
WaitStatus(e) == (e % 256) * 256

\* The scan meets a zombie: its status is stored, its address space
\* destroyed, its slot freed.
Wait4Reap(w) ==
    /\ InWait4(w)
    /\ \E s \in MatchingZombies(current, w) :
          /\ \A t \in MatchingZombies(current, w) : s <= t
          /\ SysRet(pid[s])
          /\ status_out' = WaitStatus(exit_code[s])
          /\ roots' = Without(roots, root_table[s])
          /\ root_table' = [root_table EXCEPT ![s] = NoRoot]
          /\ state' = [state EXCEPT ![s] = "UNUSED"]
    /\ LeaveWait4
    /\ UNCHANGED <<pid, ppid, exit_code, current, active_root, user_regs,
                   next_pid, halted>>

Wait4NoChild(w) ==
    /\ InWait4(w)
    /\ MatchingChildren(current, w) = {}
    /\ SysRet(Errno)
    /\ LeaveWait4
    /\ UNCHANGED <<procVars, current, active_root, user_regs, next_pid,
                   roots, halted, status_out>>

\* WNOHANG: only the call itself, never a later round, can end this way.
Wait4NoHang(w) ==
    /\ Running("user")
    /\ MatchingChildren(current, w) # {}
    /\ MatchingZombies(current, w) = {}
    /\ SysRet(0)
    /\ UNCHANGED <<procVars, current, active_root, user_regs, call, wait_pid,
                   next_pid, roots, halted, status_out>>

Wait4Schedule(w) ==
    /\ InWait4(w)
    /\ MatchingChildren(current, w) # {}
    /\ MatchingZombies(current, w) = {}
    /\ Schedule
    /\ call' = [call EXCEPT ![current] = "wait4"]
    /\ wait_pid' = [wait_pid EXCEPT ![current] = w]
    /\ UNCHANGED <<procVars, next_pid, roots, halted, status_out>>

-----------------------------------------------------------------------------
Next ==
    \/ SchedYield
    \/ NanosleepInvalid
    \/ NanosleepWait
    \/ ScheduleReturn
    \/ ForkFails
    \/ Fork
    \/ ExecveFails
    \/ Execve
    \/ \E code \in ExitCodes : ExitGroup(code) \/ ExitGroupLast(code)
    \/ Exit
    \/ HaltForever
    \/ \E w \in -1 .. MaxPid :
          \/ Wait4Reap(w)
          \/ Wait4NoChild(w)
          \/ Wait4NoHang(w)
          \/ Wait4Schedule(w)

Spec == Init /\ [][Next]_vars

-----------------------------------------------------------------------------
(***************************************************************************)
(* Correctness.                                                            *)
(***************************************************************************)
InUse(s) == state[s] # "UNUSED"

\* The process that runs is RUNNABLE: exit, the reaping of other slots and
\* their reuse by fork never leave current_process on a dead slot.
CurrentRunnable == ~halted => state[current] = "RUNNABLE"

\* While a process runs, satp holds its own root, and that root has not been
\* destroyed by an execve or by the reaping of a zombie whose address space
\* was still active when process_exit_current() left it.
ActiveRootOwn ==
    /\ ~halted => active_root = root_table[current]
    /\ active_root \in roots

\* Every address space is the root_table of exactly one slot in use, and a
\* slot that is not in use has none: no address space is leaked by an execve,
\* an exit or a reap, none is shared by a fork.
RootsOwned ==
    /\ roots = {root_table[s] : s \in {t \in Slots : InUse(t)}}
    /\ \A s, t \in Slots : InUse(s) /\ root_table[s] = root_table[t] => s = t
    /\ \A s \in Slots : ~InUse(s) => root_table[s] = NoRoot

\* The shared trapframe is the running process's own, and each process that
\* is switched out will get its own back: sys_ret() after a switch never
\* writes into another process's registers.
ContextOwn ==
    ~halted =>
        /\ trapframe.owner = pid[current]
        /\ \A s \in Slots \ {current} :
              state[s] = "RUNNABLE" => user_regs[s].owner = pid[s]

\* The registers process s will go on with.
Context(s) == IF s = current THEN trapframe ELSE user_regs[s]

\* The registers of a process change in its own system calls only, and not
\* in one that switches it out: whatever the others do until it runs again,
\* it goes on with what it had.
ContextKept ==
    [][\A s \in Slots :
          /\ state[s] = "RUNNABLE" /\ state'[s] = "RUNNABLE"
          /\ s # current \/ current' # current
          => Context(s)' = Context(s)]_vars

\* A pid names one process, and is greater than its parent's: wait4 can
\* match nobody's child but the caller's, even after slots are reused.
PidsDistinct ==
    \A s \in Slots : InUse(s) =>
        /\ ppid[s] < pid[s] /\ pid[s] < next_pid
        /\ \A t \in Slots : InUse(t) /\ pid[s] = pid[t] => s = t

\* The processes cannot all be waiting for each other: if every RUNNABLE
\* process is in the loop of wait4, some one of them will leave it when it
\* next runs.
NoMutualWait ==
    (\E s \in Slots : state[s] = "RUNNABLE") =>
        \E s \in Slots :
            /\ state[s] = "RUNNABLE"
            /\ \/ call[s] # "wait4"
               \/ MatchingZombies(s, wait_pid[s]) # {}
               \/ MatchingChildren(s, wait_pid[s]) = {}

\* The slot that holds the parent of the process in slot s.
ParentSlot ==
    [s \in Slots |->
        IF InUse(s) /\ \E t \in Slots : InUse(t) /\ pid[t] = ppid[s]
        THEN CHOOSE t \in Slots : InUse(t) /\ pid[t] = ppid[s]
        ELSE -1]

\* The process table dispatches as Dispatch says: the pids of wait4 and the
\* order of its scan come to no more than a reap of one's own child.
D == INSTANCE Dispatch WITH parent <- ParentSlot
ImplementsDispatch == D!Spec

\* A slot goes UNUSED -> RUNNABLE -> ZOMBIE -> UNUSED, and the last step is
\* the parent's wait4 returning the child's pid and exit status.
Lifecycle ==
    [][\A s \in Slots : state'[s] # state[s] =>
          \/ state[s] = "UNUSED" /\ state'[s] = "RUNNABLE"
          \/ state[s] = "RUNNABLE" /\ state'[s] = "ZOMBIE" /\ s = current
          \/ /\ state[s] = "ZOMBIE" /\ state'[s] = "UNUSED"
             /\ ppid[s] = pid[current]
             /\ trapframe'.a0 = pid[s]
             /\ status_out' = WaitStatus(exit_code[s])]_vars
=============================================================================
