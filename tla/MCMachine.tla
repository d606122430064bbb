----------------------------- MODULE MCMachine ------------------------------
(***************************************************************************)
(* The emulated machine and what the kernel does with it, one part at a    *)
(* time: traps and timer, address translation, the devices with their      *)
(* hosts, and the console's line discipline.  The parts share no state, so *)
(* that a behaviour is a behaviour of one of them.                         *)
(***************************************************************************)
EXTENDS Console

CONSTANTS
    StepMax, BatchSizes, TimeAdvances, Procs, Delta, TICKS_PER_SWITCH, TOTAL_SWITCHES,
    Roots, VPages, Slots, EditedRoots,
    UART_CAP, CounterMod, MaxBytes, Urls, MaxFetches

VARIABLES
    part,
    cpu, loop, regs, tf, userRegs, state, cont, current, want, task,
    pt, satp, priv, sum, tlb, fetch, edited,
    rx, tx, accepted, got, printed, shown, dev, guest, worker, running

Pte(flags, to) == [flags |-> flags, to |-> to]
Ptes == {Pte({}, 0), Pte({"R", "X", "A"}, 1), Pte({"R", "W", "U"}, 1), Pte({"R", "X", "U"}, 2)}

BootTables == [r \in Roots |-> [v \in VPages |->
    IF v = 0 THEN Pte({"R", "X", "A"}, 1) ELSE Pte({"R", "X", "U"}, r)]]

T == INSTANCE Traps
M == INSTANCE Mmu
H == INSTANCE Host

ASSUME TrapsConstants == T!TrapsConstants
ASSUME MmuConstants == M!MmuConstants
ASSUME HostConstants == H!HostConstants

trapVars == <<cpu, loop, regs, tf, userRegs, state, cont, current, want, task>>
mmuVars == <<pt, satp, priv, sum, tlb, fetch, edited>>
hostVars == <<rx, tx, accepted, got, printed, shown, dev, guest, worker, running>>
mcVars == <<part, vars, trapVars, mmuVars, hostVars>>

NoTraps ==
    /\ cpu = 0 /\ loop = 0 /\ regs = 0 /\ tf = 0 /\ userRegs = 0
    /\ state = 0 /\ cont = 0 /\ current = 0 /\ want = 0 /\ task = 0
NoMmu ==
    /\ pt = 0 /\ satp = 0 /\ priv = 0 /\ sum = 0 /\ tlb = 0
    /\ fetch = 0 /\ edited = 0
NoHost ==
    /\ rx = 0 /\ tx = 0 /\ accepted = 0 /\ got = 0 /\ printed = 0
    /\ shown = 0 /\ dev = 0 /\ guest = 0 /\ worker = 0 /\ running = 0

MCInit ==
    \/ part = "console" /\ Init /\ NoTraps /\ NoMmu /\ NoHost
    \/ part = "traps" /\ T!Init /\ Init /\ NoMmu /\ NoHost
    \/ part = "mmu" /\ M!Init /\ Init /\ NoTraps /\ NoHost
    \/ part = "host" /\ H!Init /\ Init /\ NoTraps /\ NoMmu

TrapsStep == part = "traps" /\ T!Next /\ UNCHANGED <<part, vars, mmuVars, hostVars>>

MCNext ==
    \/ part = "console" /\ Next /\ UNCHANGED <<part, trapVars, mmuVars, hostVars>>
    \/ TrapsStep
    \/ part = "mmu" /\ M!Next /\ UNCHANGED <<part, vars, trapVars, hostVars>>
    \/ part = "host" /\ H!Next /\ UNCHANGED <<part, vars, trapVars, mmuVars>>

MCSpec ==
    /\ MCInit /\ [][MCNext]_mcVars
    /\ WF_trapVars(TrapsStep)
    /\ WF_hostVars(part = "host" /\ H!ChunkStarts)
    /\ WF_hostVars(part = "host" /\ H!ChunkEnds)
    /\ WF_hostVars(part = "host" /\ H!Output)
    /\ SF_hostVars(part = "host" /\ H!GuestTakes)
    /\ SF_hostVars(part = "host" /\ (H!Answers \/ H!Fails))

-----------------------------------------------------------------------------
(* What the parts promise.                                                 *)

\* Every process and both kernel tasks find their own registers again after
\* a trap, although one trap frame and one hart carry them all
\* (riscv64_trap_entry, process_arch_save_trapframe(), switch_context).
ContextsKept == part = "traps" => T!ContextsKept

\* The countdown of rv_run() tells the time: no instruction runs past the
\* comparison value with the interrupt enabled, and none is interrupted
\* before it, whatever the batches are and however the timer is set again.
TimerOnTime == part = "traps" => T!TimerOnTime

\* What the TLB and the fetch page answer is what a walk would answer now,
\* after every change of satp, of the privilege, of SUM and of a table that
\* the kernel makes (translate(), flush_tlb(), paging_map_page_in()).
CachesFresh == part = "mmu" => M!CachesFresh

\* The rings of the UART are queues, full, empty and when their counters
\* wrap round (physical_read(), physical_write(), rv_input()).
RingsAreQueues == part = "host" => H!RingsAreQueues

\* A fetch gets the answer to its own request, although the page answers
\* asynchronously and requests may fail (sys_ouro_fetch(), serviceFetch()).
FetchAnswersOwn == part = "host" => H!FetchAnswersOwn

\* The boot comes to user mode: the two tasks of the test build hand over to
\* each other by timer until it is over (timer_task_test(), process_run()).
BootConcludes == <>(part = "traps" => cpu.priv = "U")

\* A process that polls the fetch device gets out of its loop, if the page
\* answers or fails in the end (sys_ouro_fetch()).
FetchReturns == part = "host" /\ guest.at = "poll" ~> part = "host" /\ guest.at = "idle"
=============================================================================
