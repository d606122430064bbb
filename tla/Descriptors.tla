---------------------------- MODULE Descriptors -----------------------------
(***************************************************************************)
(* The per-process descriptor tables of kernel/sched/process.c and the     *)
(* reference counts of the kernel's pipes, under every system call that    *)
(* moves a descriptor: openat, close, dup2/dup3, fcntl(F_DUPFD), pipe2,    *)
(* fork and exit.  execve leaves the table alone (there is no              *)
(* close-on-exec), so it is not an action here.                            *)
(*                                                                         *)
(* Descriptors 0..NStdio-1 are stdio_override[], the others are fds[]: the *)
(* number of an entry is the descriptor number user code sees.             *)
(*                                                                         *)
(* A system call on descriptors runs to its end without a switch, except   *)
(* for reads and writes of a pipe, whose wait is entered and left by       *)
(* actions of their own.  Which RUNNABLE process makes the next call is    *)
(* left open: by yielding, the others let any of them come up.  A call     *)
(* that fails before it changes anything is a step that changes nothing.   *)
(***************************************************************************)
EXTENDS RunQueue, FiniteSets

CONSTANTS
    NStdio,     \* entries of stdio_override[], 3 in the code
    MaxFds,     \* MAX_FDS, 32 in the code
    Pipes,      \* indices of pipes[], 0 .. MAX_PIPES - 1
    NoPipe,     \* a null struct pipe *
    OpenShapes  \* what openat() opens: some of Shapes

\* A fixed file, a directory (is_dir), a dynamic file (dynfile set).
Shapes == {"fixed", "dir", "dynamic"}

ASSUME NStdioAssumption == NStdio \in Nat
ASSUME MaxFdsAssumption == MaxFds \in Nat
ASSUME PipesAssumption == Pipes \subseteq Nat /\ IsFiniteSet(Pipes)
ASSUME NoPipeAssumption == NoPipe \notin Pipes
ASSUME OpenShapesAssumption == OpenShapes \subseteq Shapes

Fds == 0 .. NStdio + MaxFds - 1
StdioFds == {f \in Fds : f < NStdio}
TableFds == {f \in Fds : f >= NStdio}

\* struct fd_entry.  `shape' stands for is_dir and dynfile, which keep their
\* values when an entry is released.
Entry == [used : BOOLEAN, pipe : Pipes \cup {NoPipe}, pipe_write : BOOLEAN,
          shape : Shapes]

VARIABLES
    state,   \* processes[s].state
    fds,     \* fds[s][f]: the descriptors of the process in slot s
    refs,    \* refs[q][TRUE]: pipes[q].writers, refs[q][FALSE]: readers
    in_pipe  \* the pipe that slot s is reading or writing, or NoPipe

vars == <<state, fds, refs, in_pipe>>

TypeOK ==
    /\ state \in [Slots -> ProcessState]
    /\ fds \in [Slots -> [Fds -> Entry]]
    /\ refs \in [Pipes -> [BOOLEAN -> Nat]]
    /\ in_pipe \in [Slots -> Pipes \cup {NoPipe}]

\* A zeroed struct fd_entry.
FreeEntry == [used |-> FALSE, pipe |-> NoPipe, pipe_write |-> FALSE,
              shape |-> "fixed"]

\* One process, created by process_create_from_elf_argv() in slot 0.
Init ==
    /\ state = [s \in Slots |-> IF s = 0 THEN "RUNNABLE" ELSE "UNUSED"]
    /\ fds = [s \in Slots |-> [f \in Fds |-> FreeEntry]]
    /\ refs = [q \in Pipes |-> [w \in BOOLEAN |-> 0]]
    /\ in_pipe = [s \in Slots |-> NoPipe]

-----------------------------------------------------------------------------
(***************************************************************************)
(* The helpers on entries.                                                 *)
(***************************************************************************)
\* An entry that holds a reference on the w side of pipe q.
Holds(en, q, w) == en.used /\ en.pipe = q /\ en.pipe_write = w

\* The number of references that entry en holds there.
HeldBy(en, q, w) == IF Holds(en, q, w) THEN 1 ELSE 0

\* "if (*refs) (*refs)--", n times.
Minus(a, n) == IF n <= a THEN a - n ELSE 0

\* fd_entry_release(): what it leaves of the entry.  pipe_write means nothing
\* without a pipe, and is FALSE then.
Released(en) == [en EXCEPT !.used = FALSE, !.pipe = NoPipe, !.pipe_write = FALSE]

\* Mutant: the copy does not count.
RefsAfter_NoCount(en, cp) ==
    [q \in Pipes |-> [w \in BOOLEAN |-> Minus(refs[q][w], HeldBy(en, q, w))]]

\* The counters once en is released and then cp copied (fd_entry_copy()).
RefsAfter(en, cp) ==
    [q \in Pipes |-> [w \in BOOLEAN |->
        Minus(refs[q][w], HeldBy(en, q, w)) + HeldBy(cp, q, w)]]

\* process_fd_alloc() of the process in slot s returns f.
IsFreeFd(s, f) ==
    /\ f \in TableFds
    /\ ~fds[s][f].used
    /\ \A g \in TableFds : ~fds[s][g].used => f <= g

\* Slot s is running user code and may make a system call.
CanCall(s) == state[s] = "RUNNABLE" /\ in_pipe[s] = NoPipe

-----------------------------------------------------------------------------
\* openat(), once the path is resolved to something of shape sh.  The entry
\* keeps the pipe pointer it had.
Openat(s, sh) ==
    /\ CanCall(s)
    /\ \E f \in Fds :
          /\ IsFreeFd(s, f)
          /\ fds' = [fds EXCEPT ![s][f].used = TRUE, ![s][f].shape = sh]
    /\ UNCHANGED <<state, refs, in_pipe>>

\* close(): of an fds[] entry in use, or of any stdio descriptor.
Close(s, f) ==
    /\ CanCall(s)
    /\ f \in StdioFds \/ fds[s][f].used
    /\ refs' = RefsAfter(fds[s][f], FreeEntry)
    /\ fds' = [fds EXCEPT ![s][f] = Released(fds[s][f])]
    /\ UNCHANGED <<state, in_pipe>>

\* dup3(old, new), and dup2 of two different descriptors: process_fd_set()
\* or process_stdio_set().
Dup(s, old, new) ==
    /\ CanCall(s)
    /\ old # new
    /\ fds[s][old].used
    /\ refs' = RefsAfter(fds[s][new], fds[s][old])
    /\ fds' = [fds EXCEPT ![s][new] = fds[s][old]]
    /\ UNCHANGED <<state, in_pipe>>

\* fcntl(old, F_DUPFD)
FcntlDupFd(s, old) ==
    /\ CanCall(s)
    /\ old \in TableFds /\ fds[s][old].used
    /\ \E f \in Fds :
          /\ IsFreeFd(s, f)
          /\ refs' = RefsAfter(FreeEntry, fds[s][old])
          /\ fds' = [fds EXCEPT ![s][f] = fds[s][old]]
    /\ UNCHANGED <<state, in_pipe>>

\* The first pipe nobody refers to.
IsFreePipe(q) ==
    /\ q \in Pipes
    /\ refs[q] = [w \in BOOLEAN |-> 0]
    /\ \A p \in Pipes : refs[p] = [w \in BOOLEAN |-> 0] => q <= p

\* The entry process_fd_alloc() found, made an end of pipe q; its shape is
\* whatever the entry was last used for.
PipeEnd(en, q, w) == [en EXCEPT !.used = TRUE, !.pipe = q, !.pipe_write = w]

\* pipe2() with two entries free.
Pipe2(s) ==
    /\ CanCall(s)
    /\ \E q \in Pipes, rd, wr \in Fds :
          /\ IsFreePipe(q)
          /\ IsFreeFd(s, rd)
          /\ wr \in TableFds \ {rd}
          /\ ~fds[s][wr].used
          /\ \A g \in TableFds \ {rd} : ~fds[s][g].used => wr <= g
          /\ refs' = [refs EXCEPT ![q] = [w \in BOOLEAN |-> 1]]
          /\ fds' = [fds EXCEPT ![s][rd] = PipeEnd(fds[s][rd], q, FALSE),
                                ![s][wr] = PipeEnd(fds[s][wr], q, TRUE)]
    /\ UNCHANGED <<state, in_pipe>>

\* pipe2() with one entry free: it is taken for the read end and closed.
Pipe2OneFd(s) ==
    /\ CanCall(s)
    /\ \E q \in Pipes, rd \in Fds :
          /\ IsFreePipe(q)
          /\ IsFreeFd(s, rd)
          /\ \A g \in TableFds \ {rd} : fds[s][g].used
          /\ refs' = RefsAfter([fds[s][rd] EXCEPT !.used = TRUE], FreeEntry)
          /\ fds' = [fds EXCEPT ![s][rd] = Released(fds[s][rd])]
    /\ UNCHANGED <<state, in_pipe>>

-----------------------------------------------------------------------------
\* The descriptors of slot s that refer to the w side of q.
HeldIn(s, q, w) == {f \in Fds : Holds(fds[s][f], q, w)}

\* process_fork(): every entry is copied, used or not.
Fork(s) ==
    /\ CanCall(s)
    /\ \E c \in Slots :
          /\ IsFirstUnused(state, c)
          /\ state' = [state EXCEPT ![c] = "RUNNABLE"]
          /\ fds' = [fds EXCEPT ![c] = fds[s]]
    /\ refs' = [q \in Pipes |-> [w \in BOOLEAN |->
                   refs[q][w] + Cardinality(HeldIn(s, q, w))]]
    /\ UNCHANGED in_pipe

\* process_exit_current(): every entry is released.
Exit(s) ==
    /\ CanCall(s)
    /\ state' = [state EXCEPT ![s] = "ZOMBIE"]
    /\ fds' = [fds EXCEPT ![s] = [f \in Fds |-> Released(fds[s][f])]]
    /\ refs' = [q \in Pipes |-> [w \in BOOLEAN |->
                   Minus(refs[q][w], Cardinality(HeldIn(s, q, w)))]]
    /\ UNCHANGED in_pipe

\* process_wait4() of another process (Process keeps track of the parents).
Reap(s) ==
    /\ state[s] = "ZOMBIE"
    /\ \E t \in Slots : CanCall(t)
    /\ state' = [state EXCEPT ![s] = "UNUSED"]
    /\ UNCHANGED <<fds, refs, in_pipe>>

-----------------------------------------------------------------------------
\* read() or write() on a pipe end of the right kind: from here on the
\* process holds a struct pipe * across process_schedule().
EnterPipe(s, f) ==
    /\ CanCall(s)
    /\ fds[s][f].used
    /\ fds[s][f].pipe # NoPipe
    /\ in_pipe' = [in_pipe EXCEPT ![s] = fds[s][f].pipe]
    /\ UNCHANGED <<state, fds, refs>>

LeavePipe(s) ==
    /\ state[s] = "RUNNABLE"
    /\ in_pipe[s] # NoPipe
    /\ in_pipe' = [in_pipe EXCEPT ![s] = NoPipe]
    /\ UNCHANGED <<state, fds, refs>>

\* process_halt(), once the last process has exited.
HaltForever ==
    /\ \A s \in Slots : state[s] # "RUNNABLE"
    /\ UNCHANGED vars

Next ==
    \/ HaltForever
    \/ \E s \in Slots :
        \/ \E sh \in OpenShapes : Openat(s, sh)
        \/ \E f \in Fds : Close(s, f)
        \/ \E old, new \in Fds : Dup(s, old, new)
        \/ \E old \in Fds : FcntlDupFd(s, old)
        \/ Pipe2(s)
        \/ Pipe2OneFd(s)
        \/ Fork(s)
        \/ Exit(s)
        \/ Reap(s)
        \/ \E f \in Fds : EnterPipe(s, f)
        \/ LeavePipe(s)

Spec == Init /\ [][Next]_vars

-----------------------------------------------------------------------------
(***************************************************************************)
(* Correctness.                                                            *)
(***************************************************************************)
\* All the descriptors in the system that refer to the w side of pipe q.
RefsTo(q, w) == {x \in Slots \X Fds : Holds(fds[x[1]][x[2]], q, w)}

\* readers and writers count the descriptors, through every sequence of
\* dup, fork, close and exit: a count too low frees a pipe in use, a count
\* too high means a reader that never sees end of file.
RefsExact == \A q \in Pipes, w \in BOOLEAN : refs[q][w] = Cardinality(RefsTo(q, w))

\* A released entry does not remember its pipe: openat() takes a free entry
\* over without clearing the pointer, and a file would turn into a pipe.
FreeEntriesReleased ==
    \A s \in Slots, f \in Fds : ~fds[s][f].used => fds[s][f].pipe = NoPipe

\* A zombie, and a slot that fork may take, holds no descriptor.
DeadHoldNothing ==
    \A s \in Slots, f \in Fds : state[s] # "RUNNABLE" => ~fds[s][f].used

\* The pipe a process is blocked on is not handed out again by pipe2().
BlockedPipeLive ==
    \A s \in Slots : in_pipe[s] # NoPipe =>
        \E w \in BOOLEAN : refs[in_pipe[s]][w] > 0

\* What every open, dup, fork, close, pipe2 and exit leaves behind: exact
\* counts, free entries without a pipe, nothing held by the dead, and no pipe
\* given away under a call that is blocked on it (fd_entry_release(),
\* fd_entry_copy()).
DescriptorsOK ==
    TypeOK /\ RefsExact /\ FreeEntriesReleased /\ DeadHoldNothing /\ BlockedPipeLive

\* "Two shapes, distinguished by `dynfile`": an open dynamic file has it
\* set, and nothing else; only a directory has is_dir (struct fd_entry).
\* The code does not keep it: pipe2 takes over entries without clearing them.
PipesHaveNoShape ==
    \A s \in Slots, f \in Fds :
        fds[s][f].used /\ fds[s][f].pipe # NoPipe => fds[s][f].shape = "fixed"
=============================================================================
