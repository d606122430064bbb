-------------------------------- MODULE Traps --------------------------------
(* The kernel's trap path on the emulated hart: riscv64_trap_entry.S saves     *)
(* every register in ONE trap frame, trap_dispatch() picks the handler, and    *)
(* riscv64_trap_return loads the frame back.  Around it, the boot (with the    *)
(* timer-driven two-task test of the checkpoint build, or without), the timer, *)
(* enter_usermode, and the process layer's switches, which copy the frame out  *)
(* to the process that leaves and in from the one that comes.  Each label is   *)
(* an instruction or a short run of instructions with one effect; registers    *)
(* are abstracted to whose they are and one value.                             *)
EXTENDS Hart, FiniteSets

CONSTANTS
    Procs,              \* process slots, 1..n
    Delta,              \* timer interval in ticks of the time base
    TICKS_PER_SWITCH, TOTAL_SWITCHES

VARIABLES
    regs,       \* the live registers: whose context they are, and their value
    tf,         \* the trap frame at RV64_TRAPFRAME_BASE
    userRegs,   \* [Procs -> struct regs]: process.user_regs
    state,      \* [Procs -> state of the slot]
    cont,       \* [Procs -> label]: where switch_context returns to
    current,    \* current_process, 0 before process_run
    want,       \* history: the value each context must find in user mode
    task        \* the two-task test: current task, last_tick, ticks, switches

kernel == <<regs, tf, userRegs, state, cont, current, want, task>>
vars == <<hart, kernel>>

Kernel == -1                \* whose registers the trap handlers use
Task(i) == -2 - i           \* and the two tasks of the checkpoint test

Frame(r, sepc, status, cause) ==
    [regs |-> r, sepc |-> sepc, status |-> status, cause |-> cause]

NoStatus == [sie |-> FALSE, spie |-> FALSE, spp |-> FALSE]
NoRegs == [who |-> Kernel, n |-> 0]
NoFrame == Frame(NoRegs, "boot", NoStatus, "none")

\* Contexts whose registers are watched: the processes, the program that runs
\* in user mode before there are processes (0), and the two tasks.
Contexts == Procs \cup {0}

NoTask == [on |-> FALSE, cur |-> 0, last |-> <<0, 0>>, saved |-> FALSE,
           ticks |-> 0, switches |-> 0]

Init ==
    /\ InitHart("boot")
    /\ regs = NoRegs /\ tf = NoFrame
    /\ userRegs = [p \in Procs |-> NoFrame]
    /\ state = [p \in Procs |-> "unused"]
    /\ cont = [p \in Procs |-> "trampoline"]
    /\ current = 0
    /\ want = [x \in Contexts |-> 0]
    /\ \E checkpoints \in BOOLEAN :
         task = [NoTask EXCEPT !.on = checkpoints]

\* What the constants are: numbered slots, and batches that are shorter than the
\* longest countdown and let the time advance.
TrapsConstants ==
    /\ Procs \subseteq Nat \ {0} /\ Procs # {} /\ IsFiniteSet(Procs)
    /\ StepMax \in Nat \ {0} /\ BatchSizes \subseteq 0 .. StepMax - 1
    /\ TimeAdvances \subseteq Nat \ {0} /\ Delta \in Int

-----------------------------------------------------------------------------
(* kmain and the timer-driven test of the checkpoint build.                    *)

\* trap_init, then the ebreak that checks the trap path.
Boot ==
    \/ /\ Executes("boot") /\ Plain("ebreak")
       /\ UNCHANGED kernel
    \/ /\ Executes("ebreak") /\ System(Trap(Synced, "ebreak"))
       /\ UNCHANGED kernel
    \/ /\ Executes("booted")
       /\ Plain(IF task.on THEN "ti_read" ELSE "create")
       /\ UNCHANGED kernel

\* timer_init: read the time, arm, enable the source, enable interrupts.
TimerInit ==
    \/ /\ Executes("ti_read") /\ System([ReadTime(Synced) EXCEPT !.pc = "ti_arm"])
       /\ UNCHANGED kernel
    \/ /\ Executes("ti_arm")
       /\ System([SetStimecmp(Synced, cpu.seen + Delta) EXCEPT !.seen = 0, !.pc = "ti_stie"])
       /\ UNCHANGED kernel
    \/ /\ Executes("ti_stie")
       /\ System([Synced EXCEPT !.stie = TRUE, !.pc = "ti_sie"])
       /\ UNCHANGED kernel
    \/ /\ Executes("ti_sie")
       /\ System([Synced EXCEPT !.sie = TRUE, !.pc = "task_check"])
       /\ regs' = [who |-> Task(0), n |-> 0]
       /\ UNCHANGED <<tf, userRegs, state, cont, current, want, task>>

\* task_body: wait for enough ticks, count a switch, give way to the other.
TaskBody ==
    \/ /\ Executes("task_check")
       /\ Plain(IF task.ticks - task.last[task.cur + 1] < TICKS_PER_SWITCH
                THEN "task_wfi" ELSE "task_count")
       /\ UNCHANGED kernel
    \/ /\ Executes("task_wfi") /\ System(Wfi(Synced, "task_check"))
       /\ UNCHANGED kernel
    \/ /\ Executes("task_count")
       /\ task' = [task EXCEPT !.last[task.cur + 1] = task.ticks, !.switches = @ + 1]
       /\ Plain(IF task.switches + 1 >= TOTAL_SWITCHES THEN "td_read" ELSE "task_yield")
       /\ UNCHANGED <<regs, tf, userRegs, state, cont, current, want>>

\* task_yield: the first time a task is entered it reads g_ticks into
\* last_tick; afterwards switch_context brings its registers back.
TaskYield ==
    /\ Executes("task_yield") /\ Plain("task_check")
    /\ LET next == (task.cur + 1) % 2
       IN /\ regs' = [who |-> Task(next), n |-> 0]
          /\ task' = [task EXCEPT !.cur = next, !.saved = TRUE,
                                  !.last[next + 1] = IF task.saved THEN @ ELSE task.ticks]
    /\ UNCHANGED <<tf, userRegs, state, cont, current, want>>

\* timer_disable: sstatus is read, and written back without SIE.
TimerDisable ==
    \/ /\ Executes("td_read") /\ System([Synced EXCEPT !.pc = "td_write"])
       /\ UNCHANGED kernel
    \/ /\ Executes("td_write")
       /\ System([Synced EXCEPT !.sie = FALSE, !.pc = "enter_usermode"])
       /\ task' = NoTask     \* nobody reads the test's variables again
       /\ UNCHANGED <<regs, tf, userRegs, state, cont, current, want>>

\* enter_usermode: SPIE takes the current SIE, SPP is cleared.
EnterUsermode ==
    \/ /\ Executes("enter_usermode")
       /\ System([Synced EXCEPT !.sepc = "user", !.spie = cpu.sie, !.spp = FALSE,
                                !.pc = "eu_sret"])
       /\ regs' = [who |-> 0, n |-> want[0]]
       /\ UNCHANGED <<tf, userRegs, state, cont, current, want, task>>
    \/ /\ Executes("eu_sret") /\ System(Sret(Synced)) /\ UNCHANGED kernel

-----------------------------------------------------------------------------
(* The trap frame.                                                             *)

Entry ==
    \/ /\ Executes("entry_regs") /\ Plain("entry_csrs")
       /\ tf' = [tf EXCEPT !.regs = regs]
       /\ UNCHANGED <<regs, userRegs, state, cont, current, want, task>>
    \/ /\ Executes("entry_csrs") /\ System([Synced EXCEPT !.pc = "dispatch"])
       /\ tf' = [tf EXCEPT !.sepc = cpu.sepc, !.status = Status(cpu), !.cause = cpu.cause]
       /\ regs' = [who |-> Kernel, n |-> 0]
       /\ UNCHANGED <<userRegs, state, cont, current, want, task>>

Return ==
    \/ /\ Executes("ret_sepc") /\ System([Synced EXCEPT !.sepc = tf.sepc, !.pc = "ret_status"])
       /\ UNCHANGED kernel
    \/ /\ Executes("ret_status")
       /\ System([SetStatus(Synced, tf.status) EXCEPT !.pc = "ret_regs"])
       /\ UNCHANGED kernel
    \/ /\ Executes("ret_regs") /\ Plain("ret_sret")
       /\ regs' = tf.regs
       /\ UNCHANGED <<tf, userRegs, state, cont, current, want, task>>
    \/ /\ Executes("ret_sret") /\ System(Sret(Synced)) /\ UNCHANGED kernel

\* trap_dispatch; the breakpoint handler skips the ebreak, an ecall is skipped
\* before its handler runs (user mode is one label, so only the kernel's own
\* ebreak moves).  A page fault is resolved and the instruction tried again.
Dispatch ==
    /\ Executes("dispatch")
    /\ \/ tf.cause = "timer" /\ Plain("irq_read") /\ UNCHANGED tf
       \/ tf.cause = "ebreak" /\ Plain("ret_sepc") /\ tf' = [tf EXCEPT !.sepc = "booted"]
       \/ tf.cause = "ecall" /\ Plain("syscall") /\ UNCHANGED tf
       \/ tf.cause = "pagefault" /\ Plain("ret_sepc") /\ UNCHANGED tf
    /\ UNCHANGED <<regs, userRegs, state, cont, current, want, task>>

\* timer_irq: read the time, arm the next tick, count this one.  The count only
\* matters to the two tasks and stops at the bound they can see.
MaxTicks == TICKS_PER_SWITCH * (TOTAL_SWITCHES + 1)
TimerIrq ==
    \/ /\ Executes("irq_read") /\ System([ReadTime(Synced) EXCEPT !.pc = "irq_arm"])
       /\ UNCHANGED kernel
    \/ /\ Executes("irq_arm")
       /\ System([SetStimecmp(Synced, cpu.seen + Delta) EXCEPT !.seen = 0, !.pc = "irq_tick"])
       /\ UNCHANGED kernel
    \/ /\ Executes("irq_tick") /\ Plain("ret_sepc")
       /\ task' = [task EXCEPT !.ticks = IF task.on THEN Smaller(@ + 1, MaxTicks) ELSE @]
       /\ UNCHANGED <<regs, tf, userRegs, state, cont, current, want>>

-----------------------------------------------------------------------------
(* Processes.                                                                  *)

\* process_arch_init_context: SPIE takes the SIE of the moment.
InitContext(p) ==
    Frame([who |-> p, n |-> 0], "user",
          [sie |-> cpu.sie, spie |-> cpu.sie, spp |-> FALSE], "none")

\* process_create_from_elf for the first process, then process_run.
Create ==
    /\ Executes("create") /\ Plain("trampoline")
    /\ LET p == CHOOSE q \in Procs : \A r \in Procs : q <= r
       IN /\ userRegs' = [userRegs EXCEPT ![p] = InitContext(p)]
          /\ state' = [state EXCEPT ![p] = "runnable"]
          /\ cont' = [cont EXCEPT ![p] = "trampoline"]
          /\ want' = [want EXCEPT ![p] = 0]
          /\ current' = p
    /\ UNCHANGED <<regs, tf, task>>

\* process_arch_activate_and_restore, from the trampoline of a new process and
\* from process_schedule when the process gets the processor back.
Restore ==
    /\ Executes("trampoline") \/ Executes("resume")
    /\ Plain("ret_sepc")
    /\ tf' = userRegs[current]
    /\ UNCHANGED <<regs, userRegs, state, cont, current, want, task>>

\* The next runnable slot after p, round robin.
NextRunnable(p) ==
    LET Dist(q) == IF q > p THEN q - p ELSE q - p + Cardinality(Procs)
        others == {q \in Procs : state[q] = "runnable"}
    IN CHOOSE q \in others : \A r \in others : Dist(q) <= Dist(r)

SyscallReturns ==
    /\ Executes("syscall") /\ current # 0 /\ Plain("ret_sepc")
    /\ tf' = [tf EXCEPT !.regs.n = 1]
    /\ want' = [want EXCEPT ![current] = 1]
    /\ UNCHANGED <<regs, userRegs, state, cont, current, task>>

\* sys_read on the console: look again until there is input.
SyscallPolls == Executes("syscall") /\ current # 0 /\ Plain("syscall") /\ UNCHANGED kernel

\* sys_clone: the child's context is the parent's frame with a0 = 0.
SyscallForks ==
    /\ Executes("syscall") /\ current # 0 /\ Plain("ret_sepc")
    /\ \E c \in Procs :
         /\ state[c] = "unused"
         /\ userRegs' = [userRegs EXCEPT ![c] = [tf EXCEPT !.regs.who = c, !.regs.n = 0]]
         /\ state' = [state EXCEPT ![c] = "runnable"]
         /\ cont' = [cont EXCEPT ![c] = "trampoline"]
         /\ tf' = [tf EXCEPT !.regs.n = 1]
         /\ want' = [want EXCEPT ![current] = 1, ![c] = 0]
    /\ UNCHANGED <<regs, current, task>>

\* process_arch_save_trapframe, and its mutant: the frame is not copied out.
SaveTrapframe_Lost(p) == userRegs
SaveTrapframe(p) == [userRegs EXCEPT ![p] = tf]

\* process_schedule from a system call: the frame is copied out, the kernel
\* stack switched.
Schedule ==
    \/ /\ Executes("syscall") /\ current # 0
       /\ NextRunnable(current) # current /\ Plain("switch")
       /\ userRegs' = SaveTrapframe(current)
       /\ UNCHANGED <<regs, tf, state, cont, current, want, task>>
    \/ /\ Executes("switch")
       /\ current' = NextRunnable(current)
       /\ cont' = [cont EXCEPT ![current] = "resume"]
       /\ Plain(cont[NextRunnable(current)])
       /\ UNCHANGED <<regs, tf, userRegs, state, want, task>>

\* process_exit_current; with nobody left the machine stops.  The zombie's slot
\* is free for a later fork once it is reaped, here at once, and nobody reads its
\* context again.  Before there are processes, the exit goes on to the test that
\* creates them.
SyscallExits ==
    /\ Executes("syscall")
    /\ IF current = 0 THEN Plain("create") /\ UNCHANGED <<state, current>>
       ELSE LET rest == {q \in Procs : state[q] = "runnable"} \ {current}
            IN /\ state' = [state EXCEPT ![current] = "unused"]
               /\ IF rest = {} THEN Plain("halt") /\ UNCHANGED current
                  ELSE LET q == CHOOSE x \in rest : \A y \in rest : x <= y
                       IN current' = q /\ Plain(cont[q])
    /\ want' = [want EXCEPT ![current] = 0]
    /\ userRegs' = [p \in Procs |-> IF p = current THEN NoFrame ELSE userRegs[p]]
    /\ UNCHANGED <<regs, tf, cont, task>>

Halt == Executes("halt") /\ System(Wfi(Synced, "halt")) /\ UNCHANGED kernel

-----------------------------------------------------------------------------
(* User mode: an instruction that computes, a system call, a page fault.       *)

User ==
    \/ /\ Executes("user") /\ cpu.priv = "U" /\ Plain("user")
       /\ regs' = [regs EXCEPT !.n = 1 - @]
       /\ want' = [want EXCEPT ![current] = 1 - @]
       /\ UNCHANGED <<tf, userRegs, state, cont, current, task>>
    \/ /\ Executes("user") /\ cpu.priv = "U" /\ System(Trap(Synced, "ecall"))
       /\ UNCHANGED kernel
    \/ /\ Executes("user") /\ cpu.priv = "U" /\ current # 0 /\ Fault("pagefault")
       /\ UNCHANGED kernel

Batch ==
    /\ \/ \E n \in BatchSizes, d \in TimeAdvances : BeginRun(n, d)
       \/ EndRun
       \/ Sleep
    /\ UNCHANGED kernel

Interrupt == TakeInterrupt /\ UNCHANGED kernel

Next ==
    \/ Batch \/ Interrupt \/ Boot \/ TimerInit \/ TaskBody \/ TaskYield \/ TimerDisable
    \/ EnterUsermode \/ Entry \/ Return \/ Dispatch \/ TimerIrq \/ Create \/ Restore
    \/ SyscallReturns \/ SyscallPolls \/ SyscallForks \/ Schedule \/ SyscallExits \/ Halt
    \/ User

\* The host calls rv_run again and again and the loop runs its batch through.
Spec == Init /\ [][Next]_vars /\ WF_vars(Next)

-----------------------------------------------------------------------------
(* Properties.                                                                 *)

\* Whoever runs finds its own registers as it left them, up to the result of
\* its system call: in user mode the registers are the current context's and
\* hold the value it must see, and the kernel's two tasks never see another
\* context's registers.  One trap frame carries them all, so no trap may be
\* taken while an outer one still needs it.
ContextsKept ==
    /\ cpu.priv = "U" => regs = [who |-> current, n |-> want[current]]
    /\ loop.on /\ loop.here \in {"task_check", "task_wfi", "task_count", "task_yield"}
          => regs.who = Task(task.cur)

\* The countdown tells the time: an interrupt is taken only when the comparison
\* value is reached, and no instruction runs after that with the interrupt
\* enabled unless the interrupt was already taken and not yet acknowledged.
TimerOnTime ==
    InBatch =>
      /\ Taken => cpu.timecmp # 0 /\ Now >= cpu.timecmp
      /\ (cpu.priv = "U" \/ cpu.sie) /\ cpu.stie /\ cpu.timecmp # 0 /\ Now >= cpu.timecmp
           => Taken \/ loop.until = 0

\* The timer-driven boot reaches its first user program: a tick is never lost
\* for good, and a sleeping hart is woken.
BootConcludes == <>(cpu.priv = "U")
=============================================================================
