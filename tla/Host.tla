--------------------------------- MODULE Host ---------------------------------
(* The devices of the emulated machine and the two hosts that drive them: the  *)
(* UART's rings (rv64.c, riscv64_serial.c, host_io() of runner.c), and the     *)
(* fetch device, through which the kernel's sys_ouro_fetch() asks the page's   *)
(* worker (web/worker.js, web/host.js) for a URL and polls for the answer.     *)
(* The guest runs in chunks (rv_run); the host's own work, and the completion  *)
(* of an asynchronous fetch, happen between chunks.                            *)
EXTENDS Naturals, Sequences, SequencesExt

CONSTANTS
    UART_CAP,       \* ring size
    CounterMod,     \* 2^32 in the code, a multiple of UART_CAP
    MaxBytes,       \* bytes each direction carries in a run; three values in turn
    Urls,           \* what a process may fetch
    MaxFetches      \* fetches a process makes

\* UART_CAP divides the range of the counters and is smaller.
HostConstants ==
    /\ UART_CAP \in Nat \ {0} /\ CounterMod \in Nat \ {0}
    /\ UART_CAP < CounterMod /\ CounterMod % UART_CAP = 0
    /\ MaxBytes \in Nat /\ MaxFetches \in Nat

VARIABLES
    rx, tx,         \* the rings: [buf, read, write]
    accepted, got,  \* history: bytes the device took from the host; the guest read
    printed, shown, \* history: bytes the device took from the guest; the host read
    dev,            \* the fetch registers: [status, url, length], and the buffer
    guest,          \* sys_ouro_fetch: where it is, its URL, what it returned
    worker,         \* serviceFetch: fetching, and the URLs under way
    running         \* a chunk is executing

uart == <<rx, tx, accepted, got, printed, shown>>
fetchVars == <<dev, guest, worker>>
vars == <<uart, fetchVars, running>>

NoRing == [buf |-> [i \in 0 .. UART_CAP - 1 |-> 0], read |-> 0, write |-> 0]
NoUrl == "none"

Init ==
    /\ rx = NoRing /\ tx = NoRing
    /\ accepted = <<>> /\ got = <<>> /\ printed = <<>> /\ shown = <<>>
    /\ dev = [status |-> 0, url |-> NoUrl, length |-> 0, buffer |-> NoUrl]
    /\ guest = [at |-> "idle", url |-> NoUrl, left |-> MaxFetches, result |-> NoUrl]
    /\ worker = [fetching |-> FALSE, flights |-> <<>>]
    /\ running = FALSE

-----------------------------------------------------------------------------
(* The rings.  Counters run on modulo CounterMod and index modulo UART_CAP.    *)

Count(q) == (q.write + CounterMod - q.read) % CounterMod
HasRoom_OneMore(q) == Count(q) <= UART_CAP

HasRoom(q) == Count(q) < UART_CAP

Push(q, b) ==
    [buf |-> [q.buf EXCEPT ![q.write % UART_CAP] = b], read |-> q.read,
     write |-> (q.write + 1) % CounterMod]
Oldest(q) == q.buf[q.read % UART_CAP]
NextByte(q) == 1 + (Len(q) % 3)
Popped(q) == [q EXCEPT !.read = (@ + 1) % CounterMod]

\* rv_input, from host_io or an input message: a byte that finds the ring full
\* is dropped.
Input ==
    /\ ~running /\ Len(accepted) < MaxBytes
    /\ IF HasRoom(rx) THEN rx' = Push(rx, NextByte(accepted))
                          /\ accepted' = Append(accepted, NextByte(accepted))
       ELSE UNCHANGED <<rx, accepted>>
    /\ UNCHANGED <<tx, got, printed, shown, fetchVars, running>>

\* serial_rx_ready and serial_getc: the data register is read when the line
\* status says there is a byte.
GuestReads ==
    /\ running /\ Count(rx) # 0
    /\ rx' = Popped(rx) /\ got' = Append(got, Oldest(rx))
    /\ UNCHANGED <<tx, accepted, printed, shown, fetchVars, running>>

\* serial_putc: the line status always says the transmitter is empty, and the
\* device drops what does not fit.
GuestPrints ==
    /\ running /\ Len(printed) < MaxBytes
    /\ IF HasRoom(tx) THEN tx' = Push(tx, NextByte(printed))
                          /\ printed' = Append(printed, NextByte(printed))
       ELSE UNCHANGED <<tx, printed>>
    /\ UNCHANGED <<rx, accepted, got, shown, fetchVars, running>>

\* host_io and flushOutput: everything that waits is taken.
Output ==
    /\ ~running /\ Count(tx) # 0
    /\ tx' = Popped(tx) /\ shown' = Append(shown, Oldest(tx))
    /\ UNCHANGED <<rx, accepted, got, printed, fetchVars, running>>

-----------------------------------------------------------------------------
(* The fetch device.                                                           *)

\* sys_ouro_fetch: the registers, then the command.
GuestAsks(u) ==
    /\ running /\ guest.at = "idle" /\ guest.left > 0
    /\ dev' = [dev EXCEPT !.url = u, !.status = 1]
    /\ guest' = [guest EXCEPT !.at = "poll", !.url = u, !.left = @ - 1, !.result = NoUrl]
    /\ UNCHANGED <<uart, worker, running>>

\* while (FETCH[0] == 1)
GuestPolls == running /\ guest.at = "poll" /\ dev.status = 1 /\ UNCHANGED vars

\* The answer is stored in a file; EIO when the host failed, ENOMEM when there is
\* no room for the file.  The device is released every time.
GuestTakes ==
    /\ running /\ guest.at = "poll" /\ dev.status # 1
    /\ \E stored \in BOOLEAN :
         guest' = [guest EXCEPT !.at = "idle",
                     !.result = IF dev.status = 2 /\ stored THEN dev.buffer ELSE "error"]
    /\ dev' = [dev EXCEPT !.status = 0]
    /\ UNCHANGED <<uart, worker, running>>

\* serviceFetch is called after a chunk: unless a fetch is under way, a waiting
\* command is started, with the URL the registers name now.
MayService_Anyway == Len(worker.flights) < 2 /\ dev.status = 1
MayService == ~worker.fetching /\ dev.status = 1

Service ==
    IF MayService THEN worker' = [fetching |-> TRUE, flights |-> Append(worker.flights, dev.url)]
    ELSE UNCHANGED worker

Landed(i) == [fetching |-> FALSE, flights |-> RemoveAt(worker.flights, i)]

\* Mutant: the failure is reported, the command not completed.
Failed_Unanswered == dev
Failed == [dev EXCEPT !.status = 3]

\* The response is written to the guest's buffer and the command completed.
Answers ==
    /\ ~running
    /\ \E i \in DOMAIN worker.flights :
         /\ dev' = [dev EXCEPT !.buffer = worker.flights[i], !.status = 2]
         /\ worker' = Landed(i)
    /\ UNCHANGED <<uart, guest, running>>

\* HTTP error, a response too large, a network failure.  host.js and worker.js
\* both complete the command, with no chunk in between.
Fails ==
    /\ ~running
    /\ \E i \in DOMAIN worker.flights : dev' = Failed /\ worker' = Landed(i)
    /\ UNCHANGED <<uart, guest, running>>

\* runChunk: rv_run, then flushOutput and serviceFetch, then the next one.
ChunkStarts == ~running /\ Count(tx) = 0 /\ running' = TRUE /\ UNCHANGED <<uart, fetchVars>>
ChunkEnds == running /\ running' = FALSE /\ Service /\ UNCHANGED <<uart, dev, guest>>

Next ==
    \/ Input \/ GuestPrints \/ GuestReads \/ Output
    \/ \E u \in Urls : GuestAsks(u)
    \/ GuestPolls \/ GuestTakes
    \/ Answers \/ Fails
    \/ ChunkStarts \/ ChunkEnds

\* Chunks follow one another, each long enough for the poll to look; a fetch
\* that was started ends some way.
Fairness ==
    /\ WF_vars(ChunkStarts) /\ WF_vars(ChunkEnds) /\ WF_vars(Output)
    /\ SF_vars(GuestTakes) /\ SF_vars(Answers \/ Fails)

Spec == Init /\ [][Next]_vars /\ Fairness

-----------------------------------------------------------------------------
\* Both rings are queues at every fill level and across the wrap of the
\* counters: the reader gets the bytes the device took, in order, once.
Waiting(q) == [i \in 1 .. Count(q) |-> q.buf[(q.read + i - 1) % UART_CAP]]
RingsAreQueues ==
    /\ got \o Waiting(rx) = accepted
    /\ shown \o Waiting(tx) = printed

\* A process that fetches gets the answer to its own request or an error, never
\* the answer to an earlier one.
FetchAnswersOwn == guest.at = "idle" /\ guest.result # NoUrl => guest.result \in {guest.url, "error"}

\* Every fetch returns, although the kernel polls with nothing else running.
FetchReturns == (guest.at = "poll") ~> (guest.at = "idle")
=============================================================================
