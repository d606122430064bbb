-------------------------------- MODULE Pipe --------------------------------
(***************************************************************************)
(* The data path of one pipe: process_pipe_read() and process_pipe_write() *)
(* of kernel/sched/process.c, with the waits inside them and the scheduler *)
(* they wait through.  Any number of processes hold its ends.              *)
(*                                                                         *)
(* `read' and `write' count bytes in unsigned ints that wrap round, and    *)
(* index data[] modulo PIPE_SIZE.  readers and writers are the numbers of  *)
(* processes with the end open: Descriptors shows the counters to be exact *)
(* and here a process has an end once or not at all.                       *)
(***************************************************************************)
EXTENDS RunQueue, FiniteSets, Sequences

CONSTANTS
    PipeSize,    \* PIPE_SIZE, 4096 in the code
    CounterMod,  \* the range of unsigned int, 2^32 in the code
    Bytes,       \* the byte values that are told apart
    MaxCount     \* bound on the count argument of read and write

ASSUME PipeSizeAssumption == PipeSize \in Nat \ {0}
ASSUME CounterModAssumption ==
    /\ CounterMod \in Nat
    /\ CounterMod > PipeSize
    /\ CounterMod % PipeSize = 0
ASSUME BytesAssumption == Bytes # {}
ASSUME MaxCountAssumption == MaxCount \in Nat

VARIABLES
    state,    \* processes[s].state
    current,  \* index of current_process
    ends,     \* the ends of the pipe that slot s has open: "r", "w"
    read,     \* p->read
    write,    \* p->write
    data,     \* p->data
    call,     \* the system call that slot s is in
    out       \* the last byte stored in a reader's buffer

pipeVars == <<read, write, data, out>>
vars == <<state, current, ends, pipeVars, call>>

\* In user code, or in process_pipe_read/write with `n' of `count' bytes done.
UserMode == [op |-> "user", n |-> 0, count |-> 0]
Calls == [op : {"user", "read", "write"}, n : 0 .. MaxCount, count : 0 .. MaxCount]

Counter == 0 .. CounterMod - 1

Readers == {s \in Slots : "r" \in ends[s]}
Writers == {s \in Slots : "w" \in ends[s]}

\* pipe2() has been called and its ends handed on by fork and close; all
\* the processes exist, and no byte has been written.
Init ==
    /\ state = [s \in Slots |-> "RUNNABLE"]
    /\ current = 0
    /\ ends \in [Slots -> SUBSET {"r", "w"}]
    /\ read = 0
    /\ write = 0
    /\ data \in [0 .. PipeSize - 1 -> Bytes]
    /\ call = [s \in Slots |-> UserMode]
    /\ out \in Bytes

-----------------------------------------------------------------------------
\* p->write - p->read, in unsigned arithmetic.
Used == (write + CounterMod - read) % CounterMod

\* x++ on an unsigned int.
Inc(x) == (x + 1) % CounterMod

\* Mutant: every byte but the last of data[] is used twice.
At_Short(x) == x % (PipeSize - 1)

\* The place in data[] that a counter points at.
At(x) == x % PipeSize

Empty == read = write

\* Mutant: the indices are compared, not the counters, so that an empty pipe
\* looks full.
Full_Indices == At(write) = At(read)

Full == Used = PipeSize

\* process_schedule()
Schedule == \E n \in Slots : IsNextRunnable(state, current, n) /\ current' = n

In(op) == state[current] = "RUNNABLE" /\ call[current].op = op

Unfinished == call[current].n < call[current].count

Return == call' = [call EXCEPT ![current] = UserMode]

Advance == call' = [call EXCEPT ![current].n = @ + 1]

-----------------------------------------------------------------------------
(***************************************************************************)
(* process_pipe_read()                                                     *)
(***************************************************************************)
Read(k) ==
    /\ In("user")
    /\ current \in Readers
    /\ call' = [call EXCEPT ![current] = [op |-> "read", n |-> 0, count |-> k]]
    /\ UNCHANGED <<state, current, ends, pipeVars>>

\* Empty with a writer left: wait.
ReadSchedule ==
    /\ In("read") /\ Unfinished
    /\ Empty /\ Writers # {}
    /\ Schedule
    /\ UNCHANGED <<state, ends, pipeVars, call>>

ReadByte ==
    /\ In("read") /\ Unfinished
    /\ ~Empty
    /\ out' = data[At(read)]
    /\ read' = Inc(read)
    /\ Advance
    /\ UNCHANGED <<state, current, ends, write, data>>

\* All of the count, or end of file.
ReadReturn ==
    /\ In("read")
    /\ Unfinished => (Empty /\ Writers = {})
    /\ Return
    /\ UNCHANGED <<state, current, ends, pipeVars>>

(***************************************************************************)
(* process_pipe_write()                                                    *)
(***************************************************************************)
Write(k) ==
    /\ In("user")
    /\ current \in Writers
    /\ call' = [call EXCEPT ![current] = [op |-> "write", n |-> 0, count |-> k]]
    /\ UNCHANGED <<state, current, ends, pipeVars>>

\* Full with a reader left: wait.
WriteSchedule ==
    /\ In("write") /\ Unfinished
    /\ Full /\ Readers # {}
    /\ Schedule
    /\ UNCHANGED <<state, ends, pipeVars, call>>

WriteByte(b) ==
    /\ In("write") /\ Unfinished
    /\ Readers # {} /\ ~Full
    /\ data' = [data EXCEPT ![At(write)] = b]
    /\ write' = Inc(write)
    /\ Advance
    /\ UNCHANGED <<state, current, ends, read, out>>

\* All of the count, or no reader left (EPIPE if nothing was written).
WriteReturn ==
    /\ In("write")
    /\ Unfinished => Readers = {}
    /\ Return
    /\ UNCHANGED <<state, current, ends, pipeVars>>

(***************************************************************************)
(* What else the processes do.                                             *)
(***************************************************************************)
SchedYield ==
    /\ In("user")
    /\ Schedule
    /\ UNCHANGED <<state, ends, pipeVars, call>>

CloseEnd(e) ==
    /\ In("user")
    /\ e \in ends[current]
    /\ ends' = [ends EXCEPT ![current] = @ \ {e}]
    /\ UNCHANGED <<state, current, pipeVars, call>>

\* process_exit_current()
Exit ==
    /\ In("user")
    /\ ends' = [ends EXCEPT ![current] = {}]
    /\ state' = [state EXCEPT ![current] = "ZOMBIE"]
    /\ \/ \E n \in Slots : IsLowestRunnable(state', n) /\ current' = n
       \/ (\A s \in Slots : state'[s] # "RUNNABLE") /\ UNCHANGED current
    /\ UNCHANGED <<pipeVars, call>>

HaltForever ==
    /\ \A s \in Slots : state[s] # "RUNNABLE"
    /\ UNCHANGED vars

\* A step of process_pipe_read or process_pipe_write once it is entered.
Transfer ==
    \/ ReadSchedule \/ ReadByte \/ ReadReturn
    \/ WriteSchedule \/ (\E b \in Bytes : WriteByte(b)) \/ WriteReturn

Next ==
    \/ Transfer
    \/ \E k \in 0 .. MaxCount : Read(k) \/ Write(k)
    \/ SchedYield
    \/ \E e \in {"r", "w"} : CloseEnd(e)
    \/ Exit
    \/ HaltForever

Spec == Init /\ [][Next]_vars

\* Kernel code runs on, and user code sooner or later yields or exits: the
\* kernel is cooperative.
FairSpec == Spec /\ WF_vars(Transfer) /\ SF_vars(SchedYield \/ Exit)

-----------------------------------------------------------------------------
(***************************************************************************)
(* Correctness.                                                            *)
(***************************************************************************)
\* The bytes in the pipe, oldest first.
Contents == [i \in 1 .. Used |-> data[At((read + i - 1) % CounterMod)]]

\* The pipe is a bounded queue of bytes, through any mixture of readers and
\* writers switched in the middle of their calls, and through the wrapping
\* of the counters.
Stream == INSTANCE ByteStream WITH Capacity <- PipeSize, queue <- Contents
IsByteStream == Stream!Spec

\* A reader of a pipe without writers gets to its end of file.
EofDelivered(s) ==
    (call[s].op = "read" /\ Writers = {}) ~> (call[s].op # "read")

\* A writer to a pipe without readers gets out, with EPIPE or a short count.
BrokenPipeDelivered(s) ==
    (call[s].op = "write" /\ Readers = {}) ~> (call[s].op # "write")

\* A read and a write in progress on the same pipe do not wait for each
\* other: one of the two returns.
PairProgresses(s, t) ==
    (call[s].op = "read" /\ call[t].op = "write") ~>
        (call[s].op # "read" \/ call[t].op # "write")

\* The polling loops of process_pipe_read() and process_pipe_write() come to
\* an end when the other side is gone, or when it is at work itself.
BlockedCallsReturn ==
    \A s \in Slots :
        /\ EofDelivered(s) /\ BrokenPipeDelivered(s)
        /\ \A t \in Slots : PairProgresses(s, t)
=============================================================================
