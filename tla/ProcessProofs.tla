--------------------------- MODULE ProcessProofs ----------------------------
(***************************************************************************)
(* Proofs about Process, for every size of the table, every bound on the   *)
(* pids and every number of processes created at boot.                     *)
(*                                                                         *)
(* Even type correctness needs all of IInv: that the active root is a root *)
(* at all rests on the slot switched to being in use, which rests on which *)
(* slots exit and wait4 may change.                                        *)
(***************************************************************************)
EXTENDS Process, WellFoundedInduction, TLAPS

IInv ==
    /\ TypeOK
    /\ CurrentRunnable
    /\ ActiveRootOwn
    /\ RootsOwned
    /\ ContextOwn
    /\ PidsDistinct

\* A slot in use has a root table, a slot of the running process is in use.
LEMMA InUseRoot ==
    ASSUME IInv
    PROVE  /\ \A s \in Slots : InUse(s) => root_table[s] \in roots
           /\ roots \subseteq Roots
           /\ ~halted => InUse(current)
  BY DEF IInv, TypeOK, RootsOwned, CurrentRunnable, InUse

-----------------------------------------------------------------------------
(***************************************************************************)
(* The two kinds of steps that leave the process table alone.              *)
(***************************************************************************)
\* What such a step leaves alone, and the typing of what it may change.
TableStep ==
    /\ ~halted
    /\ UNCHANGED <<procVars, next_pid, roots, halted>>
    /\ call' \in [Slots -> Calls]
    /\ wait_pid' \in [Slots -> -1 .. MaxPid]
    /\ status_out' \in Nat

\* A system call that only returns a value.
LEMMA ReturnStep ==
    ASSUME IInv, TableStep, NEW v \in -1 .. MaxPid, SysRet(v),
           UNCHANGED <<current, active_root, user_regs>>
    PROVE  IInv'
  <1> USE DEF TableStep, procVars, IInv, InUse
  <1>1. trapframe' \in Regs /\ trapframe'.owner = trapframe.owner
    BY DEF TypeOK, SysRet, Regs
  <1>2. TypeOK'
    BY <1>1 DEF TypeOK
  <1>3. ContextOwn'
    BY <1>1 DEF ContextOwn
  <1>4. CurrentRunnable' /\ ActiveRootOwn' /\ RootsOwned' /\ PidsDistinct'
    BY DEF CurrentRunnable, ActiveRootOwn, RootsOwned, PidsDistinct
  <1> QED
    BY <1>2, <1>3, <1>4

\* process_schedule()
LEMMA ScheduleStep ==
    ASSUME IInv, TableStep, Schedule
    PROVE  IInv'
  <1> USE DEF TableStep, procVars, IInv, InUse
  <1>1. CASE UNCHANGED cpuVars
    <2> USE <1>1 DEF cpuVars
    <2>1. TypeOK'
      BY DEF TypeOK
    <2> QED
      BY <2>1 DEF CurrentRunnable, ActiveRootOwn, RootsOwned, ContextOwn, PidsDistinct
  <1>2. ASSUME NEW n \in Slots, n # current, state[n] = "RUNNABLE",
               user_regs' = [user_regs EXCEPT ![current] = trapframe],
               current' = n,
               active_root' = root_table[n], trapframe' = user_regs'[n]
        PROVE  IInv'
    <2> USE <1>2
    <2>1. root_table[n] \in roots /\ roots \subseteq Roots
      BY InUseRoot
    <2>2. trapframe' = user_regs[n] /\ user_regs' \in [Slots -> Regs]
      BY DEF TypeOK
    <2>3. TypeOK'
      BY <2>1, <2>2 DEF TypeOK
    <2>4. ContextOwn'
      BY <2>2 DEF ContextOwn, TypeOK
    <2>5. CurrentRunnable' /\ ActiveRootOwn' /\ RootsOwned' /\ PidsDistinct'
      BY <2>1 DEF CurrentRunnable, ActiveRootOwn, RootsOwned, PidsDistinct
    <2> QED
      BY <2>3, <2>4, <2>5
  <1>3. PICK n \in Slots :
          /\ IsNextRunnable(state, current, n)
          /\ IF n = current
             THEN UNCHANGED cpuVars
             ELSE /\ user_regs' = SaveTrapframe(current)
                  /\ current' = n
                  /\ ActivateAndRestore(n, user_regs')
    BY DEF Schedule
  <1>4. state[n] = "RUNNABLE"
    BY <1>3 DEF IsNextRunnable
  <1> QED
    BY <1>1, <1>2, <1>3, <1>4 DEF SaveTrapframe, ActivateAndRestore

-----------------------------------------------------------------------------
(***************************************************************************)
(* The steps that change the table.                                        *)
(***************************************************************************)
LEMMA InitStep ==
    ASSUME Init
    PROVE  IInv
  <1> USE MaxProcessesAssumption, BootProcsAssumption, MaxPidAssumption
  <1>1. PICK rt \in [Booted -> Roots] :
          /\ \A s, t \in Booted : rt[s] = rt[t] => s = t
          /\ state = [s \in Slots |-> IF s \in Booted THEN "RUNNABLE" ELSE "UNUSED"]
          /\ pid = [s \in Slots |-> IF s \in Booted THEN s + 1 ELSE 0]
          /\ ppid = [s \in Slots |-> 0]
          /\ exit_code = [s \in Slots |-> 0]
          /\ root_table = [s \in Slots |-> IF s \in Booted THEN rt[s] ELSE NoRoot]
          /\ user_regs = [s \in Slots |-> FreshRegs(IF s \in Booted THEN s + 1 ELSE 0)]
          /\ call = [s \in Slots |-> "user"]
          /\ wait_pid = [s \in Slots |-> 0]
          /\ next_pid = BootProcs + 1
          /\ current = 0
          /\ roots = {rt[s] : s \in Booted}
          /\ active_root = rt[0]
          /\ trapframe = FreshRegs(1)
          /\ status_out = 0
          /\ halted = FALSE
    BY DEF Init
  <1>2. /\ 0 \in Booted
        /\ \A s \in Booted : s \in Slots /\ s \in Nat /\ s + 1 \in 1 .. BootProcs
        /\ BootProcs \in Nat /\ MaxPid \in Nat
    BY DEF Booted, Slots
  <1>3. \A p \in 0 .. MaxPid : FreshRegs(p) \in Regs /\ FreshRegs(p).owner = p
    BY <1>2 DEF FreshRegs, Regs
  <1>4. TypeOK
    <2>1. \A s \in Slots : (IF s \in Booted THEN s + 1 ELSE 0) \in 0 .. MaxPid
      BY <1>2
    <2>2. user_regs \in [Slots -> Regs]
      BY <1>1, <1>3, <2>1
    <2>3. pid \in [Slots -> 0 .. MaxPid]
      BY <1>1, <2>1
    <2>4. trapframe \in Regs /\ next_pid \in 1 .. MaxPid + 1
      BY <1>1, <1>2, <1>3
    <2>5. /\ state \in [Slots -> ProcessState]
          /\ call \in [Slots -> Calls]
      BY <1>1 DEF ProcessState, Calls
    <2>6. /\ ppid \in [Slots -> 0 .. MaxPid]
          /\ exit_code \in [Slots -> ExitCodes \cup {0}]
          /\ wait_pid \in [Slots -> -1 .. MaxPid]
      BY <1>1, <1>2
    <2>7. root_table \in [Slots -> Roots \cup {NoRoot}]
      BY <1>1
    <2>8. /\ current \in Slots /\ roots \subseteq Roots /\ active_root \in Roots
          /\ status_out \in Nat /\ halted \in BOOLEAN
      BY <1>1, <1>2
    <2> QED
      BY <2>2, <2>3, <2>4, <2>5, <2>6, <2>7, <2>8 DEF TypeOK
  <1>5. \A s \in Slots : InUse(s) <=> s \in Booted
    BY <1>1 DEF InUse
  <1>6. RootsOwned
    BY <1>1, <1>2, <1>5, NoRootAssumption DEF RootsOwned
  <1>7. ContextOwn
    <2>1. \A s \in Booted : user_regs[s].owner = s + 1
      BY <1>1, <1>2, <1>3
    <2> QED
      BY <1>1, <1>2, <1>3, <2>1 DEF ContextOwn
  <1>8. PidsDistinct
    BY <1>1, <1>2, <1>5 DEF PidsDistinct
  <1>9. CurrentRunnable /\ ActiveRootOwn
    BY <1>1, <1>2 DEF CurrentRunnable, ActiveRootOwn
  <1> QED
    BY <1>4, <1>6, <1>7, <1>8, <1>9 DEF IInv

\* fork keeps the invariant.
LEMMA ForkStep ==
    ASSUME IInv, Fork
    PROVE  IInv'
  <1> USE MaxPidAssumption DEF IInv
  <1>1. PICK s \in Slots, r \in Roots \ roots :
          /\ IsFirstUnused(state, s)
          /\ roots' = roots \cup {r}
          /\ root_table' = [root_table EXCEPT ![s] = r]
          /\ pid' = [pid EXCEPT ![s] = next_pid]
          /\ ppid' = [ppid EXCEPT ![s] = pid[current]]
          /\ exit_code' = [exit_code EXCEPT ![s] = 0]
          /\ user_regs' = [user_regs EXCEPT ![s] = FreshRegs(next_pid)]
          /\ call' = [call EXCEPT ![s] = "user"]
          /\ state' = [state EXCEPT ![s] = "RUNNABLE"]
    BY DEF Fork
  <1>2. /\ ~halted /\ next_pid <= MaxPid /\ next_pid' = next_pid + 1
        /\ SysRet(next_pid)
        /\ UNCHANGED <<current, active_root, wait_pid, halted, status_out>>
    BY DEF Fork, Running, TakePid
  <1>3. state[s] = "UNUSED" /\ s # current /\ state[current] = "RUNNABLE"
    BY <1>1, <1>2 DEF IsFirstUnused, CurrentRunnable
  <1>4. next_pid \in 1 .. MaxPid
    BY <1>2 DEF TypeOK
  <1>5. /\ FreshRegs(next_pid) \in Regs /\ FreshRegs(next_pid).owner = next_pid
        /\ trapframe' \in Regs /\ trapframe'.owner = trapframe.owner
    BY <1>2, <1>4 DEF TypeOK, SysRet, FreshRegs, Regs
  <1>6. TypeOK'
    BY <1>1, <1>2, <1>4, <1>5 DEF TypeOK, ProcessState, Calls
  <1>7. CurrentRunnable'
    BY <1>1, <1>2, <1>3 DEF CurrentRunnable, TypeOK
  <1>8. ActiveRootOwn'
    BY <1>1, <1>2, <1>3 DEF ActiveRootOwn, TypeOK
  <1>9. \A t \in Slots : InUse(t)' <=> InUse(t) \/ t = s
    BY <1>1 DEF InUse, TypeOK
  <1>10. RootsOwned'
    <2>1. \A t \in Slots : InUse(t) => root_table[t] # r
      BY <1>1 DEF RootsOwned
    <2>2. \A t \in Slots : ~InUse(t) => root_table[t] # r
      BY <1>1, NoRootAssumption DEF RootsOwned
    <2>3. \A t \in Slots : root_table'[t] = IF t = s THEN r ELSE root_table[t]
      BY <1>1 DEF TypeOK
    <2>4. roots' = {root_table'[t] : t \in {u \in Slots : InUse(u)'}}
      <3>1. ~InUse(s)
        BY <1>3 DEF InUse
      <3> QED
        BY <1>1, <1>9, <2>3, <3>1 DEF RootsOwned
    <2> QED
      BY <1>9, <2>1, <2>2, <2>3, <2>4 DEF RootsOwned
  <1>11. ContextOwn'
    BY <1>1, <1>2, <1>3, <1>5 DEF ContextOwn, TypeOK
  <1>12. PidsDistinct'
    <2>1. pid[current] < next_pid
      BY <1>3 DEF PidsDistinct, InUse, TypeOK
    <2>2. \A t \in Slots : /\ pid'[t] = IF t = s THEN next_pid ELSE pid[t]
                           /\ ppid'[t] = IF t = s THEN pid[current] ELSE ppid[t]
      BY <1>1 DEF TypeOK
    <2>3. \A t \in Slots : InUse(t) => pid[t] \in Nat /\ pid[t] < next_pid /\ ppid[t] < pid[t]
      BY DEF PidsDistinct, TypeOK
    <2>4. next_pid \in Nat /\ pid[current] \in Nat
      BY <1>4 DEF TypeOK
    <2> QED
      BY <1>2, <1>9, <2>1, <2>2, <2>3, <2>4 DEF PidsDistinct
  <1> QED
    BY <1>6, <1>7, <1>8, <1>10, <1>11, <1>12

\* The new address space replaces the current process's own.
LEMMA ExecveStep ==
    ASSUME IInv, Execve
    PROVE  IInv'
  <1> USE DEF IInv
  <1>1. PICK r \in Roots \ roots :
          /\ root_table' = [root_table EXCEPT ![current] = r]
          /\ roots' = (roots \cup {r}) \ {active_root}
          /\ active_root' = r
    BY DEF Execve, Without
  <1>2. /\ ~halted /\ SysRet(0)
        /\ UNCHANGED <<state, pid, ppid, exit_code, current, user_regs, call,
                       wait_pid, next_pid, halted, status_out>>
    BY DEF Execve, Running
  <1>3. state[current] = "RUNNABLE" /\ active_root = root_table[current]
    BY <1>2 DEF CurrentRunnable, ActiveRootOwn
  <1>4. trapframe' \in Regs /\ trapframe'.owner = trapframe.owner
    BY <1>2, MaxPidAssumption DEF TypeOK, SysRet, Regs
  <1>5. TypeOK'
    BY <1>1, <1>2, <1>4 DEF TypeOK
  <1>6. CurrentRunnable' /\ PidsDistinct'
    BY <1>2 DEF CurrentRunnable, PidsDistinct, InUse
  <1>7. ActiveRootOwn'
    BY <1>1, <1>2 DEF ActiveRootOwn, TypeOK
  <1>8. RootsOwned'
    <2>1. \A t \in Slots : root_table'[t] = IF t = current THEN r ELSE root_table[t]
      BY <1>1 DEF TypeOK
    <2>2. \A t \in Slots : InUse(t)' <=> InUse(t)
      BY <1>2 DEF InUse
    <2>3. InUse(current) /\ current \in Slots
      BY <1>3 DEF InUse, TypeOK
    <2>4. \A t \in Slots : root_table[t] # r
      BY <1>1, NoRootAssumption DEF RootsOwned
    <2>5. \A t \in Slots : root_table[t] = active_root => t = current
      BY <1>3, <2>3 DEF RootsOwned
    <2>6. roots' = {root_table'[t] : t \in {u \in Slots : InUse(u)'}}
      BY <1>1, <1>3, <2>1, <2>2, <2>3, <2>4, <2>5 DEF RootsOwned
    <2> QED
      BY <2>1, <2>2, <2>3, <2>4, <2>6 DEF RootsOwned
  <1>9. ContextOwn'
    BY <1>2, <1>4 DEF ContextOwn
  <1> QED
    BY <1>5, <1>6, <1>7, <1>8, <1>9

\* A RUNNABLE slot that becomes a ZOMBIE stays in use, with its root.
LEMMA ZombieStep ==
    ASSUME IInv, ~halted, NEW code \in ExitCodes,
           state' = [state EXCEPT ![current] = "ZOMBIE"],
           exit_code' = [exit_code EXCEPT ![current] = code],
           UNCHANGED <<pid, ppid, root_table, next_pid, roots>>
    PROVE  /\ state' \in [Slots -> ProcessState]
           /\ exit_code' \in [Slots -> ExitCodes \cup {0}]
           /\ RootsOwned' /\ PidsDistinct'
  <1>1. \A t \in Slots : InUse(t)' <=> InUse(t)
    BY DEF IInv, CurrentRunnable, InUse, TypeOK
  <1> QED
    BY <1>1 DEF IInv, TypeOK, ProcessState, RootsOwned, PidsDistinct

\* exit keeps the invariant.
LEMMA ExitGroupStep ==
    ASSUME IInv, NEW code \in ExitCodes, ExitGroup(code)
    PROVE  IInv'
  <1>1. PICK n \in Slots :
          /\ IsLowestRunnable(state', n)
          /\ current' = n
          /\ active_root' = root_table[n]
          /\ trapframe' = user_regs[n]
    BY DEF ExitGroup, ActivateAndRestore
  <1>2. /\ ~halted
        /\ state' = [state EXCEPT ![current] = "ZOMBIE"]
        /\ exit_code' = [exit_code EXCEPT ![current] = code]
        /\ UNCHANGED <<pid, ppid, root_table, user_regs, call, wait_pid,
                       next_pid, roots, halted, status_out>>
    BY DEF ExitGroup, Running
  <1>3. /\ state' \in [Slots -> ProcessState]
        /\ exit_code' \in [Slots -> ExitCodes \cup {0}]
        /\ RootsOwned' /\ PidsDistinct'
    BY <1>2, ZombieStep
  <1>4. state'[n] = "RUNNABLE" /\ n # current /\ state[n] = "RUNNABLE"
    BY <1>1, <1>2 DEF IsLowestRunnable, IInv, TypeOK
  <1>5. root_table[n] \in roots /\ roots \subseteq Roots
    BY <1>4, InUseRoot DEF InUse
  <1>6. TypeOK'
    BY <1>1, <1>2, <1>3, <1>5 DEF IInv, TypeOK
  <1>7. ContextOwn'
    BY <1>1, <1>2, <1>4 DEF IInv, TypeOK, ContextOwn
  <1>8. CurrentRunnable' /\ ActiveRootOwn'
    BY <1>1, <1>2, <1>4, <1>5 DEF CurrentRunnable, ActiveRootOwn
  <1> QED
    BY <1>3, <1>6, <1>7, <1>8 DEF IInv

\* The exit of the last RUNNABLE process keeps the invariant.
LEMMA ExitGroupLastStep ==
    ASSUME IInv, NEW code \in ExitCodes, ExitGroupLast(code)
    PROVE  IInv'
  <1>1. /\ ~halted /\ halted'
        /\ state' = [state EXCEPT ![current] = "ZOMBIE"]
        /\ exit_code' = [exit_code EXCEPT ![current] = code]
        /\ UNCHANGED <<pid, ppid, root_table, cpuVars, call, wait_pid, next_pid,
                       roots, status_out>>
    BY DEF ExitGroupLast, Running
  <1>2. /\ state' \in [Slots -> ProcessState]
        /\ exit_code' \in [Slots -> ExitCodes \cup {0}]
        /\ RootsOwned' /\ PidsDistinct'
    BY <1>1, ZombieStep
  <1>3. TypeOK'
    BY <1>1, <1>2 DEF IInv, TypeOK, cpuVars, ExitGroupLast
  <1>4. CurrentRunnable' /\ ActiveRootOwn' /\ ContextOwn'
    BY <1>1 DEF IInv, CurrentRunnable, ActiveRootOwn, ContextOwn, cpuVars
  <1> QED
    BY <1>2, <1>3, <1>4 DEF IInv

\* Stopping the machine keeps the invariant.
LEMMA HaltStep ==
    ASSUME IInv, Exit \/ HaltForever \/ UNCHANGED vars
    PROVE  IInv'
  <1>1. /\ halted => halted'
        /\ halted' \in BOOLEAN
        /\ UNCHANGED <<procVars, cpuVars, call, wait_pid, next_pid, roots,
                       status_out>>
    BY DEF Exit, HaltForever, vars, IInv, TypeOK
  <1>2. TypeOK'
    BY <1>1 DEF IInv, TypeOK, procVars, cpuVars
  <1>3. CurrentRunnable' /\ ActiveRootOwn' /\ RootsOwned' /\ ContextOwn' /\ PidsDistinct'
    BY <1>1 DEF IInv, CurrentRunnable, ActiveRootOwn, RootsOwned, ContextOwn,
               PidsDistinct, InUse, procVars, cpuVars
  <1> QED
    BY <1>2, <1>3 DEF IInv

\* A wait status is a natural number.
LEMMA WaitStatusNat ==
    ASSUME NEW e \in Nat
    PROVE  WaitStatus(e) \in Nat
  <1>1. e % 256 \in Nat
    OBVIOUS
  <1> QED
    BY <1>1 DEF WaitStatus

\* The zombie reaped is not the caller, which is RUNNABLE, so the address
\* space destroyed is not the active one.
LEMMA ReapStep ==
    ASSUME IInv, NEW w \in -1 .. MaxPid, Wait4Reap(w)
    PROVE  IInv'
  <1> USE DEF IInv
  <1>1. PICK s \in MatchingZombies(current, w) :
          /\ SysRet(pid[s])
          /\ status_out' = WaitStatus(exit_code[s])
          /\ roots' = roots \ {root_table[s]}
          /\ root_table' = [root_table EXCEPT ![s] = NoRoot]
          /\ state' = [state EXCEPT ![s] = "UNUSED"]
    BY DEF Wait4Reap, Without
  <1>2. /\ ~halted
        /\ call' = [call EXCEPT ![current] = "user"]
        /\ wait_pid' = [wait_pid EXCEPT ![current] = 0]
        /\ UNCHANGED <<pid, ppid, exit_code, current, active_root, user_regs,
                       next_pid, halted>>
    BY DEF Wait4Reap, InWait4, Running, LeaveWait4
  <1>3. s \in Slots /\ state[s] = "ZOMBIE" /\ s # current
    BY <1>1, <1>2 DEF MatchingZombies, MatchingChildren, CurrentRunnable
  <1>4. trapframe' \in Regs /\ trapframe'.owner = trapframe.owner
    BY <1>1, <1>3, MaxPidAssumption DEF TypeOK, SysRet, Regs
  <1>5. status_out' \in Nat
    BY <1>1, <1>3, WaitStatusNat, ExitCodesAssumption DEF TypeOK
  <1>6. TypeOK'
    BY <1>1, <1>2, <1>3, <1>4, <1>5, MaxPidAssumption DEF TypeOK, ProcessState, Calls
  <1>7. /\ \A t \in Slots : InUse(t)' <=> InUse(t) /\ t # s
        /\ \A t \in Slots : root_table'[t] = IF t = s THEN NoRoot ELSE root_table[t]
        /\ InUse(s)
    BY <1>1, <1>3 DEF InUse, TypeOK
  <1>8. \A t \in Slots : root_table[t] = root_table[s] => t = s
    BY <1>3, <1>7 DEF RootsOwned
  <1>9. CurrentRunnable'
    BY <1>1, <1>2, <1>3 DEF CurrentRunnable, TypeOK
  <1>10. ActiveRootOwn'
    BY <1>1, <1>2, <1>3, <1>7, <1>8 DEF ActiveRootOwn, TypeOK
  <1>11. RootsOwned'
    <2>1. roots' = {root_table'[t] : t \in {u \in Slots : InUse(u)'}}
      BY <1>1, <1>7, <1>8 DEF RootsOwned
    <2>2. \A t \in Slots : InUse(t) => root_table[t] # NoRoot
      BY InUseRoot, NoRootAssumption
    <2> QED
      BY <1>7, <2>1, <2>2 DEF RootsOwned
  <1>12. ContextOwn'
    BY <1>1, <1>2, <1>3, <1>4 DEF ContextOwn, TypeOK
  <1>13. PidsDistinct'
    BY <1>2, <1>7 DEF PidsDistinct
  <1> QED
    BY <1>6, <1>9, <1>10, <1>11, <1>12, <1>13

-----------------------------------------------------------------------------
\* Every step keeps the invariant.
LEMMA NextStep ==
    ASSUME IInv, [Next]_vars
    PROVE  IInv'
  <1> USE MaxPidAssumption DEF Calls
  <1>1. -1 \in -1 .. MaxPid /\ 0 \in -1 .. MaxPid
    OBVIOUS
  <1>2. TypeOK /\ current \in Slots
    BY DEF IInv, TypeOK
  <1>3. CASE SchedYield
    BY <1>2, <1>3, ScheduleStep DEF SchedYield, TableStep, Running, TypeOK
  <1>4. CASE NanosleepInvalid
    BY <1>1, <1>2, <1>4, ReturnStep DEF NanosleepInvalid, TableStep, Running, Errno, TypeOK
  <1>5. CASE NanosleepWait
    BY <1>2, <1>5, ScheduleStep DEF NanosleepWait, TableStep, Running, TypeOK
  <1>6. CASE ScheduleReturn
    BY <1>1, <1>2, <1>6, ReturnStep DEF ScheduleReturn, TableStep, Running, TypeOK
  <1>7. CASE ForkFails
    BY <1>1, <1>2, <1>7, ReturnStep DEF ForkFails, TableStep, Running, Errno, TypeOK
  <1>8. CASE Fork
    BY <1>8, ForkStep
  <1>9. CASE ExecveFails
    BY <1>1, <1>2, <1>9, ReturnStep DEF ExecveFails, TableStep, Running, Errno, TypeOK
  <1>10. CASE Execve
    BY <1>10, ExecveStep
  <1>11. ASSUME NEW code \in ExitCodes, ExitGroup(code) \/ ExitGroupLast(code)
         PROVE  IInv'
    BY <1>11, ExitGroupStep, ExitGroupLastStep
  <1>12. CASE Exit \/ HaltForever \/ UNCHANGED vars
    BY <1>12, HaltStep
  <1>13. ASSUME NEW w \in -1 .. MaxPid, Wait4Reap(w)
         PROVE  IInv'
    BY <1>13, ReapStep
  <1>14. ASSUME NEW w \in -1 .. MaxPid, Wait4NoChild(w)
         PROVE  IInv'
    BY <1>1, <1>2, <1>14, ReturnStep
       DEF Wait4NoChild, InWait4, LeaveWait4, TableStep, Running, Errno, TypeOK
  <1>15. ASSUME NEW w \in -1 .. MaxPid, Wait4NoHang(w)
         PROVE  IInv'
    BY <1>1, <1>2, <1>15, ReturnStep DEF Wait4NoHang, TableStep, Running, TypeOK
  <1>16. ASSUME NEW w \in -1 .. MaxPid, Wait4Schedule(w)
         PROVE  IInv'
    BY <1>2, <1>16, ScheduleStep
       DEF Wait4Schedule, InWait4, TableStep, Running, TypeOK
  <1> QED
    BY <1>3, <1>4, <1>5, <1>6, <1>7, <1>8, <1>9, <1>10, <1>11, <1>12, <1>13,
       <1>14, <1>15, <1>16 DEF Next

\* The inductive invariant holds in every state the process table reaches.
THEOREM Inductive == Spec => []IInv
  <1>1. Init => IInv
    BY InitStep
  <1>2. IInv /\ [Next]_vars => IInv'
    BY NextStep
  <1> QED
    BY <1>1, <1>2, PTL DEF Spec

(***************************************************************************)
(* The properties.                                                         *)
(***************************************************************************)
\* Every variable keeps its type: in particular a system call never leaves
\* satp pointing to something that is not a root table.
THEOREM TypeCorrect == Spec => []TypeOK
  BY Inductive, PTL DEF IInv

\* The process that runs is RUNNABLE, whatever exited or was reaped.
THEOREM CurrentIsRunnable == Spec => []CurrentRunnable
  BY Inductive, PTL DEF IInv

\* satp holds the running process's own root, and that root exists.
THEOREM ActiveRootIsOwn == Spec => []ActiveRootOwn
  BY Inductive, PTL DEF IInv

\* fork, execve, exit and wait4 neither leak nor share an address space.
THEOREM RootsAreOwned == Spec => []RootsOwned
  BY Inductive, PTL DEF IInv

\* A switch never mixes up the register files of two processes.
THEOREM ContextIsOwn == Spec => []ContextOwn
  BY Inductive, PTL DEF IInv

\* A pid names one process, and is greater than its parent's.
THEOREM PidsAreDistinct == Spec => []PidsDistinct
  BY Inductive, PTL DEF IInv

\* A slot only goes round UNUSED, RUNNABLE, ZOMBIE, and wait4 is what frees
\* it, with the child's pid and status delivered to its parent.
THEOREM SlotLifecycle == Spec => Lifecycle
  <1> DEFINE Step ==
        \A s \in Slots : state'[s] # state[s] =>
          \/ state[s] = "UNUSED" /\ state'[s] = "RUNNABLE"
          \/ state[s] = "RUNNABLE" /\ state'[s] = "ZOMBIE" /\ s = current
          \/ /\ state[s] = "ZOMBIE" /\ state'[s] = "UNUSED"
             /\ ppid[s] = pid[current]
             /\ trapframe'.a0 = pid[s]
             /\ status_out' = WaitStatus(exit_code[s])
  <1>1. ASSUME IInv, Next
        PROVE  Step
    <2> USE DEF IInv, TypeOK
    <2>1. CASE UNCHANGED state
      BY <2>1
    <2>2. CASE Fork
      BY <2>2 DEF Fork, IsFirstUnused
    <2>3. ASSUME NEW code \in ExitCodes, ExitGroup(code) \/ ExitGroupLast(code)
          PROVE  Step
      <3>1. state[current] = "RUNNABLE" /\ state' = [state EXCEPT ![current] = "ZOMBIE"]
        BY <1>1, <2>3 DEF ExitGroup, ExitGroupLast, CurrentRunnable, Running
      <3> QED
        BY <1>1, <3>1
    <2>4. ASSUME NEW w \in -1 .. MaxPid, Wait4Reap(w)
          PROVE  Step
      <3>1. PICK s \in MatchingZombies(current, w) :
              /\ SysRet(pid[s])
              /\ status_out' = WaitStatus(exit_code[s])
              /\ state' = [state EXCEPT ![s] = "UNUSED"]
        BY <2>4 DEF Wait4Reap
      <3>2. state[s] = "ZOMBIE" /\ ppid[s] = pid[current] /\ s \in Slots
        BY <3>1 DEF MatchingZombies, MatchingChildren
      <3>3. trapframe'.a0 = pid[s]
        BY <1>1, <3>1 DEF SysRet, Regs
      <3> QED
        BY <1>1, <3>1, <3>2, <3>3
    <2>5. UNCHANGED state \/ Fork
          \/ (\E code \in ExitCodes : ExitGroup(code) \/ ExitGroupLast(code))
          \/ (\E w \in -1 .. MaxPid : Wait4Reap(w))
      BY <1>1 DEF Next, procVars, vars, SchedYield, NanosleepInvalid, NanosleepWait,
         ScheduleReturn, ForkFails, ExecveFails, Execve, Exit, HaltForever,
         Wait4NoChild, Wait4NoHang, Wait4Schedule
    <2> HIDE DEF Step
    <2> QED
      BY <2>1, <2>2, <2>3, <2>4, <2>5
  <1>2. IInv /\ [Next]_vars => [Step]_vars
    BY <1>1
  <1> QED
    BY Inductive, <1>2, PTL DEF Spec, Lifecycle

\* A process goes on with the registers it had, whatever the others do.
THEOREM ContextIsKept == Spec => ContextKept
  <1> DEFINE Kept(s) ==
        /\ state[s] = "RUNNABLE" /\ state'[s] = "RUNNABLE"
        /\ s # current \/ current' # current
        => Context(s)' = Context(s)
  <1>1. ASSUME IInv, Next, NEW s \in Slots
        PROVE  Kept(s)
    <2>1. CASE UNCHANGED <<current, user_regs>>
      BY <2>1 DEF Context
    <2>2. CASE Schedule
      <3>1. PICK n \in Slots :
              IF n = current
              THEN UNCHANGED cpuVars
              ELSE /\ user_regs' = [user_regs EXCEPT ![current] = trapframe]
                   /\ current' = n
                   /\ trapframe' = user_regs'[n]
        BY <2>2 DEF Schedule, SaveTrapframe, ActivateAndRestore
      <3>2. user_regs \in [Slots -> Regs] /\ current \in Slots
        BY <1>1 DEF IInv, TypeOK
      <3> QED
        BY <3>1, <3>2 DEF cpuVars, Context
    <2>3. CASE Fork
      <3>1. PICK t \in Slots :
              /\ IsFirstUnused(state, t)
              /\ user_regs' = [user_regs EXCEPT ![t] = FreshRegs(next_pid)]
        BY <2>3 DEF Fork
      <3>2. state[t] = "UNUSED" /\ user_regs \in [Slots -> Regs] /\ current' = current
        BY <1>1, <2>3, <3>1 DEF IsFirstUnused, IInv, TypeOK, Fork
      <3> QED
        BY <3>1, <3>2 DEF Context
    <2>4. CASE \E code \in ExitCodes : ExitGroup(code)
      <3>1. PICK n \in Slots : current' = n /\ trapframe' = user_regs[n]
        BY <2>4 DEF ExitGroup, ActivateAndRestore
      <3>2. /\ UNCHANGED user_regs
            /\ state' = [state EXCEPT ![current] = "ZOMBIE"]
            /\ state \in [Slots -> ProcessState]
        BY <1>1, <2>4 DEF ExitGroup, IInv, TypeOK
      <3> QED
        BY <3>1, <3>2 DEF Context
    <2>5. \/ UNCHANGED <<current, user_regs>> \/ Schedule \/ Fork
          \/ \E code \in ExitCodes : ExitGroup(code)
      BY <1>1 DEF Next, cpuVars, vars, SchedYield, NanosleepInvalid, NanosleepWait,
         ScheduleReturn, ForkFails, ExecveFails, Execve, Exit, HaltForever,
         ExitGroupLast, Wait4Reap, Wait4NoChild, Wait4NoHang, Wait4Schedule
    <2> QED
      BY <2>1, <2>2, <2>3, <2>4, <2>5
  <1>2. IInv /\ [Next]_vars => [\A s \in Slots : Kept(s)]_vars
    BY <1>1
  <1> QED
    BY Inductive, <1>2, PTL DEF Spec, ContextKept

\* Of the RUNNABLE processes, the one of greatest pid cannot be kept in the
\* loop of wait4: its children have greater pids, so none is RUNNABLE.
LEMMA GreatestPidLeaves ==
    ASSUME IInv
    PROVE  NoMutualWait
  <1> DEFINE Run == {s \in Slots : state[s] = "RUNNABLE"}
             Gaps == {MaxPid - pid[s] : s \in Run}
  <1> SUFFICES ASSUME Run # {}
               PROVE  \E s \in Slots :
                        /\ state[s] = "RUNNABLE"
                        /\ \/ call[s] # "wait4"
                           \/ MatchingZombies(s, wait_pid[s]) # {}
                           \/ MatchingChildren(s, wait_pid[s]) = {}
    BY DEF NoMutualWait
  <1>1. \A s \in Slots : pid[s] \in 0 .. MaxPid /\ ppid[s] \in 0 .. MaxPid
    BY DEF IInv, TypeOK
  <1>2. Gaps \in SUBSET Nat /\ Gaps # {}
    BY <1>1, MaxPidAssumption
  <1>3. PICK s \in Run : \A t \in Run : MaxPid - pid[s] <= MaxPid - pid[t]
    <2>1. \E x \in Gaps : \A y \in Gaps : ~ (<<y, x>> \in OpToRel(<, Nat))
      <3> HIDE DEF Gaps
      <3> QED
        BY <1>2, NatLessThanWellFounded, WFMin
    <2>2. OpToRel(<, Nat) = {ss \in Nat \X Nat : ss[1] < ss[2]}
      BY Zenon DEF OpToRel
    <2>3. \E x \in Gaps : \A y \in Gaps : ~ (<<y, x>> \in {ss \in Nat \X Nat : ss[1] < ss[2]})
      <3> HIDE DEF Gaps
      <3> QED
        BY <2>1, <2>2, Zenon
    <2>4. PICK x \in Gaps : \A y \in Gaps : ~ (y < x)
      <3> HIDE DEF Gaps
      <3> QED
        BY <1>2, <2>3
    <2>5. PICK s \in Run : x = MaxPid - pid[s]
      OBVIOUS
    <2>6. ASSUME NEW t \in Run
          PROVE  MaxPid - pid[s] <= MaxPid - pid[t]
      <3>1. ~ (MaxPid - pid[t] < MaxPid - pid[s])
        BY <2>4, <2>5
      <3> QED
        BY <1>1, <3>1, MaxPidAssumption
    <2> QED
      BY <2>5, <2>6
  <1>4. \A t \in Run : pid[t] <= pid[s]
    BY <1>1, <1>3, MaxPidAssumption
  <1>5. \A t \in MatchingChildren(s, wait_pid[s]) : state[t] = "ZOMBIE"
    <2> SUFFICES ASSUME NEW t \in MatchingChildren(s, wait_pid[s])
                 PROVE  state[t] = "ZOMBIE"
      OBVIOUS
    <2>1. t \in Slots /\ state[t] # "UNUSED" /\ ppid[t] = pid[s]
      BY DEF MatchingChildren
    <2>2. ppid[t] < pid[t]
      BY <2>1 DEF IInv, PidsDistinct, InUse
    <2>3. t \notin Run
      BY <1>1, <1>4, <2>1, <2>2
    <2> QED
      BY <2>1, <2>3 DEF IInv, TypeOK, ProcessState
  <1> QED
    BY <1>5 DEF MatchingZombies

\* The processes are never all waiting for each other in wait4.
THEOREM NoMutualWaiting == Spec => []NoMutualWait
  <1>1. IInv => NoMutualWait
    BY GreatestPidLeaves
  <1> QED
    BY Inductive, <1>1, PTL

-----------------------------------------------------------------------------
(***************************************************************************)
(* Process implements Dispatch: the parent pids of the table amount to the *)
(* parent slots of the abstract one.                                       *)
(***************************************************************************)
\* The parent of a slot is the one slot in use that has its parent pid.
ParentsByPid ==
    /\ ParentSlot = [s \in Slots |-> ParentSlot[s]]
    /\ \A s \in Slots : ParentSlot[s] \in Slots \cup {-1}
    /\ \A s, t \in Slots :
          ParentSlot[s] = t <=> InUse(s) /\ InUse(t) /\ pid[t] = ppid[s]

\* A parent pid finds one slot at most.
LEMMA ParentsFound ==
    ASSUME IInv
    PROVE  ParentsByPid
  <1> DEFINE Has(s, t) == InUse(t) /\ pid[t] = ppid[s]
  <1>1. ASSUME NEW s \in Slots
        PROVE  /\ ParentSlot[s] \in Slots \cup {-1}
               /\ \A t \in Slots : ParentSlot[s] = t <=> InUse(s) /\ Has(s, t)
    <2>1. ParentSlot[s] = IF InUse(s) /\ \E t \in Slots : Has(s, t)
                          THEN CHOOSE t \in Slots : Has(s, t)
                          ELSE -1
      BY DEF ParentSlot
    <2>2. \A t, u \in Slots : Has(s, t) /\ Has(s, u) => t = u
      BY DEF IInv, PidsDistinct
    <2>3. -1 \notin Slots
      BY MaxProcessesAssumption DEF Slots
    <2>4. CASE InUse(s) /\ \E t \in Slots : Has(s, t)
      <3>1. ParentSlot[s] \in Slots /\ Has(s, ParentSlot[s])
        <4> HIDE DEF Has
        <4> QED
          BY <2>1, <2>4, Zenon
      <3> QED
        BY <2>2, <2>4, <3>1
    <2>5. CASE ~(InUse(s) /\ \E t \in Slots : Has(s, t))
      BY <2>1, <2>3, <2>5
    <2> QED
      BY <2>4, <2>5
  <1>2. ParentSlot = [s \in Slots |-> ParentSlot[s]]
    BY Zenon DEF ParentSlot
  <1> QED
    BY <1>1, <1>2 DEF ParentsByPid

\* Two parent tables with the same parents are the same table.
LEMMA SameParents ==
    ASSUME ParentsByPid', NEW f, f = [s \in Slots |-> f[s]],
           \A s \in Slots : f[s] \in Slots \cup {-1},
           \A s, t \in Slots : ParentSlot'[s] = t <=> f[s] = t
    PROVE  ParentSlot' = f
  <1>1. -1 \notin Slots
    BY MaxProcessesAssumption DEF Slots
  <1>2. /\ ParentSlot' = [s \in Slots |-> ParentSlot'[s]]
        /\ \A s \in Slots : ParentSlot'[s] \in Slots \cup {-1}
    BY DEF ParentsByPid
  <1>3. \A s \in Slots : ParentSlot'[s] = f[s]
    BY <1>1, <1>2
  <1> HIDE DEF ParentSlot
  <1> QED
    BY <1>2, <1>3

\* A step that frees and takes no slot changes no parent.
LEMMA ParentsKept ==
    ASSUME ParentsByPid, ParentsByPid', UNCHANGED <<pid, ppid>>,
           \A s \in Slots : InUse(s)' <=> InUse(s)
    PROVE  ParentSlot' = ParentSlot
  <1>1. \A s, t \in Slots : ParentSlot'[s] = t <=> ParentSlot[s] = t
    BY DEF ParentsByPid
  <1>2. /\ ParentSlot = [s \in Slots |-> ParentSlot[s]]
        /\ \A s \in Slots : ParentSlot[s] \in Slots \cup {-1}
    BY DEF ParentsByPid
  <1> QED
    BY <1>1, <1>2, SameParents

\* fork: the new pid is nobody's parent pid yet.
LEMMA ForkDispatched ==
    ASSUME IInv, ParentsByPid, ParentsByPid', Fork
    PROVE  D!Fork
  <1>1. PICK s \in Slots :
          /\ IsFirstUnused(state, s)
          /\ pid' = [pid EXCEPT ![s] = next_pid]
          /\ ppid' = [ppid EXCEPT ![s] = pid[current]]
          /\ state' = [state EXCEPT ![s] = "RUNNABLE"]
    BY DEF Fork
  <1>2. ~halted /\ UNCHANGED <<current, halted>>
    BY DEF Fork, Running
  <1>3. ~InUse(s) /\ InUse(current) /\ current \in Slots /\ s # current
    BY <1>1, <1>2 DEF IInv, TypeOK, CurrentRunnable, IsFirstUnused, InUse
  <1>4. \A t \in Slots : /\ InUse(t)' <=> InUse(t) \/ t = s
                         /\ pid'[t] = IF t = s THEN next_pid ELSE pid[t]
                         /\ ppid'[t] = IF t = s THEN pid[current] ELSE ppid[t]
    BY <1>1 DEF IInv, TypeOK, InUse
  <1>5. \A t \in Slots : InUse(t) => ppid[t] # next_pid /\ pid[t] # next_pid
    BY DEF IInv, TypeOK, PidsDistinct
  <1>6. \A t, u \in Slots : InUse(t) /\ InUse(u) /\ pid[t] = pid[u] => t = u
    BY DEF IInv, PidsDistinct
  <1> DEFINE f == [ParentSlot EXCEPT ![s] = current]
  <1>7. /\ f = [t \in Slots |-> f[t]]
        /\ \A t \in Slots : f[t] = IF t = s THEN current ELSE ParentSlot[t]
    BY DEF ParentsByPid
  <1>8. \A t \in Slots : f[t] \in Slots \cup {-1}
    BY <1>3, <1>7 DEF ParentsByPid
  <1>9. ASSUME NEW t \in Slots, NEW u \in Slots
        PROVE  ParentSlot'[t] = u <=> f[t] = u
    <2>1. ParentSlot'[t] = u <=> InUse(t)' /\ InUse(u)' /\ pid'[u] = ppid'[t]
      BY DEF ParentsByPid
    <2>2. ParentSlot[t] = u <=> InUse(t) /\ InUse(u) /\ pid[u] = ppid[t]
      BY DEF ParentsByPid
    <2>3. CASE t = s
      BY <1>3, <1>4, <1>5, <1>6, <1>7, <2>1, <2>3
    <2>4. CASE t # s
      BY <1>3, <1>4, <1>5, <1>7, <2>1, <2>2, <2>4
    <2> QED
      BY <2>3, <2>4
  <1>10. ParentSlot' = f
    <2> HIDE DEF f
    <2> QED
      BY <1>7, <1>8, <1>9, SameParents
  <1> QED
    BY <1>1, <1>2, <1>10 DEF D!Fork, D!Slots, Slots, D!IsFirstUnused, IsFirstUnused

\* wait4: who is reaped is a child of the caller, and its own children have
\* a parent pid that no process has any more.
LEMMA ReapDispatched ==
    ASSUME IInv, ParentsByPid, ParentsByPid', NEW w \in -1 .. MaxPid, Wait4Reap(w)
    PROVE  D!Reap
  <1>1. PICK s \in MatchingZombies(current, w) :
          state' = [state EXCEPT ![s] = "UNUSED"]
    BY DEF Wait4Reap
  <1>2. ~halted /\ UNCHANGED <<pid, ppid, current, halted>>
    BY DEF Wait4Reap, InWait4, Running
  <1>3. s \in Slots /\ state[s] = "ZOMBIE" /\ ppid[s] = pid[current]
    BY <1>1 DEF MatchingZombies, MatchingChildren
  <1>4. current \in Slots /\ InUse(current) /\ InUse(s)
    BY <1>2, <1>3 DEF IInv, TypeOK, CurrentRunnable, InUse
  <1>5. ParentSlot[s] = current
    BY <1>3, <1>4 DEF ParentsByPid
  <1>6. \A t \in Slots : InUse(t)' <=> InUse(t) /\ t # s
    BY <1>1, <1>3 DEF IInv, TypeOK, InUse
  <1> DEFINE f == [t \in Slots |-> IF t = s \/ ParentSlot[t] = s THEN -1 ELSE ParentSlot[t]]
  <1>7. /\ f = [t \in Slots |-> f[t]]
        /\ \A t \in Slots : f[t] \in Slots \cup {-1}
    BY DEF ParentsByPid
  <1>8. ASSUME NEW t \in Slots, NEW u \in Slots
        PROVE  ParentSlot'[t] = u <=> f[t] = u
    <2>1. ParentSlot'[t] = u <=> InUse(t)' /\ InUse(u)' /\ pid[u] = ppid[t]
      BY <1>2 DEF ParentsByPid
    <2>2. ParentSlot[t] = u <=> InUse(t) /\ InUse(u) /\ pid[u] = ppid[t]
      BY DEF ParentsByPid
    <2>3. f[t] = IF t = s \/ ParentSlot[t] = s THEN -1 ELSE ParentSlot[t]
      OBVIOUS
    <2>4. u # -1
      BY MaxProcessesAssumption DEF Slots
    <2> QED
      BY <1>6, <2>1, <2>2, <2>3, <2>4
  <1>9. ParentSlot' = f
    <2> HIDE DEF f
    <2> QED
      BY <1>7, <1>8, SameParents
  <1>10. f = D!Orphaned(s)
    BY DEF D!Orphaned, D!Slots, Slots, D!NoParent
  <1> HIDE DEF f
  <1> QED
    BY <1>1, <1>2, <1>3, <1>5, <1>9, <1>10 DEF D!Reap, D!Slots, Slots

\* exit_group: the first RUNNABLE slot comes up, or the machine stops.
LEMMA ExitDispatched ==
    ASSUME IInv, ParentsByPid, ParentsByPid', NEW code \in ExitCodes,
           ExitGroup(code) \/ ExitGroupLast(code)
    PROVE  D!Exit
  <1>1. /\ ~halted /\ state' = [state EXCEPT ![current] = "ZOMBIE"]
        /\ UNCHANGED <<pid, ppid>>
    BY DEF ExitGroup, ExitGroupLast, Running
  <1>2. \A t \in Slots : InUse(t)' <=> InUse(t)
    BY <1>1 DEF IInv, TypeOK, CurrentRunnable, InUse
  <1>3. ParentSlot' = ParentSlot
    BY <1>1, <1>2, ParentsKept
  <1> HIDE DEF ParentSlot
  <1>4. CASE ExitGroup(code)
    BY <1>1, <1>3, <1>4
       DEF ExitGroup, D!Exit, D!Slots, Slots, D!IsLowestRunnable, IsLowestRunnable
  <1>5. CASE ExitGroupLast(code)
    <2>1. \A t \in Slots : state'[t] # "RUNNABLE"
      BY <1>1, <1>5 DEF ExitGroupLast, IInv, TypeOK
    <2> QED
      BY <1>1, <1>3, <1>5, <2>1 DEF ExitGroupLast, cpuVars, D!Exit, D!Slots, Slots
  <1> QED
    BY <1>4, <1>5

\* What a step is to Dispatch: one that leaves the table alone may give the
\* processor to the next slot.
Dispatched ==
    \/ UNCHANGED <<state, pid, ppid, halted>> /\ (UNCHANGED current \/ (~halted /\ Schedule))
    \/ Fork
    \/ \E code \in ExitCodes : ExitGroup(code) \/ ExitGroupLast(code)
    \/ \E w \in -1 .. MaxPid : Wait4Reap(w)
    \/ Exit

\* What a step changes of that which Dispatch has.
LEMMA NextDispatched ==
    ASSUME [Next]_vars
    PROVE  Dispatched
  <1>1. CASE SchedYield \/ NanosleepWait \/ \E w \in -1 .. MaxPid : Wait4Schedule(w)
    BY <1>1 DEF Dispatched, SchedYield, NanosleepWait, Wait4Schedule, InWait4,
                Running, procVars
  <1>2. CASE \/ NanosleepInvalid \/ ScheduleReturn \/ ForkFails \/ ExecveFails
             \/ Execve \/ HaltForever \/ UNCHANGED vars
             \/ \E w \in -1 .. MaxPid : Wait4NoChild(w) \/ Wait4NoHang(w)
    <2>1. UNCHANGED <<state, pid, ppid, halted, current>>
      BY <1>2 DEF NanosleepInvalid, ScheduleReturn, ForkFails, ExecveFails, Execve,
                  HaltForever, Wait4NoChild, Wait4NoHang, vars, procVars, cpuVars
    <2> QED
      BY <2>1 DEF Dispatched
  <1>3. CASE \/ Fork \/ Exit
             \/ \E code \in ExitCodes : ExitGroup(code) \/ ExitGroupLast(code)
             \/ \E w \in -1 .. MaxPid : Wait4Reap(w)
    BY <1>3 DEF Dispatched
  <1> QED
    BY <1>1, <1>2, <1>3 DEF Next

\* Every step of the table is a step of Dispatch, or changes nothing that
\* Dispatch sees.
LEMMA StepDispatched ==
    ASSUME IInv, ParentsByPid, ParentsByPid', Dispatched
    PROVE  [D!Next]_(D!vars)
  <1>1. CASE UNCHANGED <<state, pid, ppid, halted>> /\ (UNCHANGED current \/ (~halted /\ Schedule))
    <2>1. ParentSlot' = ParentSlot
      BY <1>1, ParentsKept DEF InUse
    <2> HIDE DEF ParentSlot
    <2>2. CASE UNCHANGED current
      BY <1>1, <2>1, <2>2 DEF D!vars
    <2>3. CASE ~halted /\ Schedule
      <3>1. PICK n \in Slots : IsNextRunnable(state, current, n) /\ current' = n
        BY <2>3 DEF Schedule, cpuVars
      <3>2. D!IsNextRunnable(state, current, n)
        BY <3>1 DEF D!IsNextRunnable, IsNextRunnable, D!After, After
      <3>3. D!Yield
        BY <1>1, <2>1, <2>3, <3>1, <3>2 DEF D!Yield, D!Slots, Slots
      <3> QED
        BY <3>3 DEF D!Next
    <2> QED
      BY <1>1, <2>2, <2>3
  <1>2. CASE Fork
    BY <1>2, ForkDispatched DEF D!Next
  <1>3. CASE \E code \in ExitCodes : ExitGroup(code) \/ ExitGroupLast(code)
    BY <1>3, ExitDispatched DEF D!Next
  <1>4. CASE \E w \in -1 .. MaxPid : Wait4Reap(w)
    BY <1>4, ReapDispatched DEF D!Next
  <1>5. CASE Exit
    <2>1. UNCHANGED <<state, pid, ppid, current>> /\ ~halted /\ halted'
      BY <1>5 DEF Exit, Running, procVars, cpuVars
    <2>2. ParentSlot' = ParentSlot
      BY <2>1, ParentsKept DEF InUse
    <2> HIDE DEF ParentSlot
    <2>3. D!Halt
      BY <2>1, <2>2 DEF D!Halt
    <2> QED
      BY <2>3 DEF D!Next
  <1> QED
    BY <1>1, <1>2, <1>3, <1>4, <1>5 DEF Dispatched

\* At boot no process has a parent: pids start at 1, and kmain's have 0 for
\* a parent pid.
LEMMA BootDispatched ==
    ASSUME Init, ParentsByPid
    PROVE  D!Init
  <1>1. /\ state = [s \in Slots |-> IF s \in Booted THEN "RUNNABLE" ELSE "UNUSED"]
        /\ pid = [s \in Slots |-> IF s \in Booted THEN s + 1 ELSE 0]
        /\ ppid = [s \in Slots |-> 0]
        /\ current = 0 /\ halted = FALSE
    BY DEF Init
  <1>2. \A s \in Slots : s \in Booted <=> s < BootProcs
    BY MaxProcessesAssumption, BootProcsAssumption DEF Slots, Booted
  <1>3. \A t \in Slots : InUse(t) => pid[t] # 0
    BY <1>1, MaxProcessesAssumption DEF InUse, Slots
  <1>4. \A s \in Slots : ParentSlot[s] = -1
    BY <1>1, <1>3 DEF ParentsByPid
  <1>5. ParentSlot = [s \in Slots |-> -1]
    <2>1. ParentSlot = [s \in Slots |-> ParentSlot[s]]
      BY DEF ParentsByPid
    <2> HIDE DEF ParentSlot
    <2> QED
      BY <1>4, <2>1
  <1>6. state = [s \in Slots |-> IF s < BootProcs THEN "RUNNABLE" ELSE "UNUSED"]
    BY <1>1, <1>2
  <1> HIDE DEF ParentSlot
  <1> QED
    BY <1>1, <1>5, <1>6 DEF D!Init, D!Slots, Slots, D!NoParent

\* The table with its pids dispatches as the abstract one with its parent
\* slots does: in particular a wait4 reaps a child of its caller only.
THEOREM DispatchImplemented == Spec => ImplementsDispatch
  <1>1. IInv => ParentsByPid
    BY ParentsFound
  <1>2. Init /\ ParentsByPid => D!Init
    BY BootDispatched
  <1>3. IInv /\ ParentsByPid /\ ParentsByPid' /\ [Next]_vars => [D!Next]_(D!vars)
    BY NextDispatched, StepDispatched
  <1>4. Init => IInv
    BY InitStep
  <1> QED
    BY Inductive, <1>1, <1>2, <1>3, <1>4, PTL DEF Spec, ImplementsDispatch, D!Spec
=============================================================================
