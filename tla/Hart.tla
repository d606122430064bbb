-------------------------------- MODULE Hart --------------------------------
(* The run loop of the emulator (src/emulator/rv64.c): rv_run() executes a     *)
(* batch of instructions with the program counter, the time, the countdown to  *)
(* the timer and the wfi state in locals, which it writes back to the globals  *)
(* only around an instruction of the SYSTEM opcode and at the end of the       *)
(* batch.  Only differences of times matter to the code, so that every batch   *)
(* starts at time Epoch and the comparison value is moved with it.             *)
EXTENDS Integers

CONSTANTS
    StepMax,        \* largest countdown (0xffffffff in the code)
    BatchSizes,     \* instruction counts the host passes to rv_run
    TimeAdvances    \* time_advance values the host passes to rv_run

VARIABLES
    cpu,    \* the globals: registers of the hart that traps and the timer use
    loop    \* the locals of rv_run, and whether a batch is running

hart == <<cpu, loop>>

Epoch == 1
Smaller(a, b) == IF a < b THEN a ELSE b
CeilDiv(a, b) == (a + b - 1) \div b

InitCpu(entry) ==
    [ticks |-> Epoch, timecmp |-> 0, timerSteps |-> 0, tickStep |-> 0,
     halted |-> FALSE, priv |-> "S", sie |-> FALSE, spie |-> FALSE,
     spp |-> FALSE, stie |-> FALSE, stip |-> FALSE,
     seen |-> 0, pc |-> entry, sepc |-> entry, cause |-> "none"]

Idle == [on |-> FALSE, left |-> 0, now |-> 0, until |-> 0, stopped |-> FALSE,
         here |-> "none"]

InitHart(entry) == cpu = InitCpu(entry) /\ loop = Idle

-----------------------------------------------------------------------------
(* The instructions and events that change the trap registers.                *)

SetStimecmp(c, v) ==
    LET steps == IF v > c.ticks /\ c.tickStep # 0
                 THEN CeilDiv(v - c.ticks, c.tickStep)
                 ELSE IF v # 0 THEN 1 ELSE 0
    IN [c EXCEPT !.timecmp = v,
                 !.stip = @ /\ v # 0 /\ c.ticks >= v,
                 !.timerSteps = Smaller(steps, StepMax)]

Trap(c, cause) ==
    [c EXCEPT !.sepc = c.pc, !.cause = cause, !.spp = (c.priv = "S"),
              !.spie = c.sie, !.sie = FALSE, !.priv = "S", !.pc = "entry_regs",
              !.halted = FALSE]

Sret(c) ==
    [c EXCEPT !.priv = IF c.spp THEN "S" ELSE "U", !.sie = c.spie,
              !.spie = TRUE, !.spp = FALSE, !.pc = c.sepc]

Wfi(c, next) == [c EXCEPT !.halted = TRUE, !.pc = next]

\* The bits of sstatus that a csrr reads and a csrw writes.
Status(c) == [sie |-> c.sie, spie |-> c.spie, spp |-> c.spp]

SetStatus(c, s) == [c EXCEPT !.sie = s.sie, !.spie = s.spie, !.spp = s.spp]

-----------------------------------------------------------------------------
(* One call of rv_run.                                                         *)

\* A general register that holds a time read from the time register.
ReadTime(c) == [c EXCEPT !.seen = c.ticks]

\* The comparison value and a time read, seen from the new origin of time.
Rebased(c) ==
    [c EXCEPT !.ticks = Epoch, !.seen = IF @ = 0 THEN 0 ELSE @ - c.ticks + Epoch,
              !.timecmp = IF @ = 0 THEN 0
                          ELSE IF @ <= c.ticks THEN Epoch ELSE @ - c.ticks + Epoch]

\* Mutant: the countdown of the batch before is kept.
Rearmed_Never(c) == c

\* The countdown is computed again at the start of every batch.
Rearmed(c) == IF c.timecmp # 0 THEN SetStimecmp(c, c.timecmp) ELSE c

BeginRun(count, advance) ==
    /\ ~loop.on
    /\ LET c == Rearmed([Rebased(cpu) EXCEPT !.tickStep = advance])
       IN /\ cpu' = c
          /\ loop' = [on |-> TRUE, left |-> count, now |-> c.ticks,
                      until |-> c.timerSteps, stopped |-> c.halted,
                      here |-> c.pc]

EndRun ==
    /\ loop.on /\ loop.left = 0
    /\ cpu' = [cpu EXCEPT !.ticks = loop.now, !.timerSteps = loop.until,
                          !.halted = loop.stopped, !.pc = loop.here]
    /\ loop' = Idle

InBatch == loop.on /\ loop.left > 0
Now == loop.now + cpu.tickStep
Due == loop.until = 1
Taken == Due /\ (cpu.priv = "U" \/ cpu.sie) /\ cpu.stie

\* The loop's locals after the head of an iteration that takes no interrupt.
Ticked == [loop EXCEPT !.left = @ - 1, !.now = Now,
                       !.until = IF @ > 1 THEN @ - 1 ELSE @]
Pending(c) == [c EXCEPT !.stip = @ \/ Due]

\* Mutant: the trap leaves the local wfi state set.
Woken_Stopped(c) == [loop EXCEPT !.left = @ - 1, !.now = Now, !.until = 0,
                                 !.here = c.pc]

\* The locals after a trap to the vector.
Woken(c) == [loop EXCEPT !.left = @ - 1, !.now = Now, !.until = 0,
                         !.stopped = FALSE, !.here = c.pc]

TakeInterrupt ==
    /\ InBatch /\ Taken
    /\ LET c == Trap([Pending(cpu) EXCEPT !.ticks = Now, !.timerSteps = 0,
                                          !.pc = loop.here], "timer")
       IN cpu' = c /\ loop' = Woken(c)

Sleep ==
    /\ InBatch /\ ~Taken /\ loop.stopped
    /\ cpu' = Pending(cpu) /\ loop' = Ticked

Executes(label) == InBatch /\ ~Taken /\ ~loop.stopped /\ loop.here = label

\* An instruction that changes none of the registers kept here.
Plain(next) ==
    /\ cpu' = Pending(cpu)
    /\ loop' = [Ticked EXCEPT !.here = next]

\* The registers as a SYSTEM instruction sees them.
Synced == [Pending(cpu) EXCEPT !.ticks = Now, !.timerSteps = Ticked.until,
                               !.pc = loop.here]

\* A SYSTEM instruction that leaves the registers c.
System(c) ==
    /\ cpu' = c
    /\ loop' = [Ticked EXCEPT !.until = c.timerSteps, !.stopped = c.halted,
                              !.here = c.pc]

\* A load, store or fetch that faults: the trap is taken outside the globals'
\* protocol of the SYSTEM instructions.
Fault(cause) ==
    LET c == Trap([Pending(cpu) EXCEPT !.pc = loop.here], cause)
    IN cpu' = c /\ loop' = [Ticked EXCEPT !.here = c.pc]
=============================================================================
