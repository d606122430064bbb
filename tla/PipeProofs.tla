----------------------------- MODULE PipeProofs ------------------------------
(* Pipe implements ByteStream, for every size of the buffer, every range of    *)
(* the counters that it divides, and any number of readers and writers.  What  *)
(* the mapping needs to know of a state is that the counters are in range and  *)
(* at most PIPE_SIZE apart: RingArithmetic does the rest.                      *)
EXTENDS Pipe, RingArithmetic

\* What is proved to be inductive.
PipeInv ==
    /\ read \in Counter /\ write \in Counter
    /\ data \in [0 .. PipeSize - 1 -> Bytes]
    /\ out \in Bytes
    /\ Used <= PipeSize

\* The sizes, as RingArithmetic has them.
LEMMA Sizes ==
    /\ PipeSize \in Nat \ {0} /\ CounterMod \in Nat \ {0}
    /\ PipeSize < CounterMod /\ CounterMod % PipeSize = 0
BY PipeSizeAssumption, CounterModAssumption

\* The buffer is one of the rings RingArithmetic is about, and Contents is what
\* is queued in it.
LEMMA PipeRing ==
    ASSUME PipeInv
    PROVE  /\ IsRing(PipeSize, CounterMod, Bytes, data, read, write)
           /\ Used = Filled(read, write, CounterMod) /\ Used \in Nat
           /\ Used = 0 <=> read = write
           /\ Contents = Queued(data, read, write, PipeSize, CounterMod)
           /\ Contents \in Seq(Bytes) /\ Len(Contents) = Used
<1>1. IsRing(PipeSize, CounterMod, Bytes, data, read, write)
  BY Sizes DEF PipeInv, Counter, IsRing
<1>2. Used = Filled(read, write, CounterMod) BY DEF Used, Filled
<1>3. Used \in Nat /\ (Used = 0 <=> read = write) BY <1>1, <1>2, RingCounts
<1>4. \A i \in 1 .. Used : At((read + i - 1) % CounterMod) = (read + i - 1) % PipeSize
  <2> SUFFICES ASSUME NEW i \in 1 .. Used
               PROVE  At((read + i - 1) % CounterMod) = (read + i - 1) % PipeSize
    OBVIOUS
  <2> DEFINE a == read + i - 1
  <2>1. a \in Int BY <1>3, Sizes DEF PipeInv, Counter
  <2> HIDE DEF a
  <2>2. (a % CounterMod) % PipeSize = a % PipeSize BY <2>1, Sizes, Reduced
  <2> QED BY <2>2 DEF At, a
<1>5. Contents = Queued(data, read, write, PipeSize, CounterMod)
  BY <1>2, <1>4 DEF Contents, Queued
<1>6. Contents \in Seq(Bytes) /\ Len(Contents) = Used BY <1>1, <1>2, <1>5, QueuedType
<1> QED BY <1>1, <1>2, <1>3, <1>5, <1>6

\* The same of the state after a step.
LEMMA NextContents ==
    PipeInv' => (Contents = Queued(data, read, write, PipeSize, CounterMod))'
<1>1. PipeInv => Contents = Queued(data, read, write, PipeSize, CounterMod) BY PipeRing
<1> QED BY <1>1, PTL

\* Steps that leave the pipe alone.
LEMMA PipeIdle ==
    ASSUME PipeInv, UNCHANGED pipeVars
    PROVE  PipeInv' /\ Contents' = Contents /\ out' = out
BY DEF PipeInv, pipeVars, Used, Contents, At

\* A byte read is the oldest.
LEMMA ReadByteGets ==
    ASSUME PipeInv, ReadByte
    PROVE  PipeInv' /\ Stream!Get
<1>1. /\ read # write /\ out' = data[At(read)] /\ read' = Inc(read)
      /\ write' = write /\ data' = data
  BY DEF ReadByte, Empty
<1>2. /\ IsRing(PipeSize, CounterMod, Bytes, data, read, write)
      /\ Used = Filled(read, write, CounterMod) /\ Used \in Nat /\ Used # 0
      /\ Contents = Queued(data, read, write, PipeSize, CounterMod)
      /\ Contents \in Seq(Bytes)
  BY <1>1, PipeRing
<1>3. /\ Contents # <<>> /\ data[read % PipeSize] = Head(Contents)
      /\ Queued(data, (read + 1) % CounterMod, write, PipeSize, CounterMod) = Tail(Contents)
  BY <1>1, <1>2, RingPop
<1>4. Filled(read', write', CounterMod) = Used - 1
  BY <1>1, <1>2, RingCounts DEF Inc
<1>5. PipeInv'
  <2>1. read' \in Counter BY <1>1, Sizes DEF PipeInv, Counter, Inc
  <2>2. out' \in Bytes BY <1>1, Sizes DEF PipeInv, Counter, At
  <2>3. Used' <= PipeSize
    <3>1. Used' = Used - 1 BY <1>4 DEF Used, Filled
    <3> QED BY <1>2, <3>1, Sizes DEF PipeInv
  <2> QED BY <1>1, <2>1, <2>2, <2>3 DEF PipeInv
<1>6. Contents' = Tail(Contents)
  <2>1. Contents' = Queued(data', read', write', PipeSize, CounterMod) BY <1>5, NextContents
  <2> QED BY <1>1, <1>3, <2>1 DEF Inc
<1>7. out' = Head(Contents) BY <1>1, <1>3 DEF At
<1> QED BY <1>3, <1>5, <1>6, <1>7 DEF Stream!Get

\* A byte written goes to the end, and there is room for it.
LEMMA WriteBytePuts ==
    ASSUME PipeInv, NEW b \in Bytes, WriteByte(b)
    PROVE  PipeInv' /\ Stream!Put(b)
<1>1. /\ Used # PipeSize /\ data' = [data EXCEPT ![At(write)] = b] /\ write' = Inc(write)
      /\ read' = read /\ out' = out
  BY DEF WriteByte, Full
<1>2. /\ IsRing(PipeSize, CounterMod, Bytes, data, read, write)
      /\ Used = Filled(read, write, CounterMod) /\ Used \in Nat
      /\ Contents = Queued(data, read, write, PipeSize, CounterMod)
      /\ Contents \in Seq(Bytes) /\ Len(Contents) = Used
  BY PipeRing
<1>3. Used < PipeSize BY <1>1, <1>2, Sizes DEF PipeInv
<1>4. Queued(Stored(data, write, PipeSize, b), read, (write + 1) % CounterMod, PipeSize, CounterMod)
        = Append(Contents, b)
  BY <1>2, <1>3, RingPush
<1>5. Filled(read', write', CounterMod) = Used + 1
  BY <1>1, <1>2, <1>3, RingCounts DEF Inc
<1>6. PipeInv'
  <2>1. write' \in Counter BY <1>1, Sizes DEF PipeInv, Counter, Inc
  <2>2. data' \in [0 .. PipeSize - 1 -> Bytes] BY <1>1 DEF PipeInv
  <2>3. Used' <= PipeSize
    <3>1. Used' = Used + 1 BY <1>5 DEF Used, Filled
    <3> QED BY <1>2, <1>3, <3>1, Sizes
  <2> QED BY <1>1, <2>1, <2>2, <2>3 DEF PipeInv
<1>7. Contents' = Append(Contents, b)
  <2>1. Contents' = Queued(data', read', write', PipeSize, CounterMod) BY <1>6, NextContents
  <2> QED BY <1>1, <1>4, <2>1 DEF Inc, At, Stored
<1> QED BY <1>1, <1>2, <1>3, <1>6, <1>7 DEF Stream!Put

\* Every step is one of the queue's, or none.
LEMMA PipeStep ==
    ASSUME PipeInv, [Next]_vars
    PROVE  PipeInv' /\ [Stream!Next]_(Stream!vars)
<1>1. CASE UNCHANGED pipeVars
  BY <1>1, PipeIdle DEF Stream!vars
<1>2. CASE ReadByte
  BY <1>2, ReadByteGets DEF Stream!Next
<1>3. ASSUME NEW b \in Bytes, WriteByte(b)
      PROVE  PipeInv' /\ [Stream!Next]_(Stream!vars)
  BY <1>3, WriteBytePuts DEF Stream!Next
<1> QED BY <1>1, <1>2, <1>3
        DEF Next, vars, Transfer, ReadSchedule, ReadReturn, WriteSchedule, WriteReturn,
            Read, Write, SchedYield, CloseEnd, Exit, HaltForever

\* The pipe starts empty.
LEMMA PipeInit == ASSUME Init PROVE PipeInv /\ Stream!Init
<1>1. read \in Counter /\ write \in Counter /\ read = write
  BY Sizes DEF Init, Counter
<1>2. Filled(read, write, CounterMod) = 0
  BY <1>1, Sizes, FilledSteps DEF Counter
<1>3. Used = 0 BY <1>2 DEF Used, Filled
<1>4. PipeInv BY <1>1, <1>3, Sizes DEF Init, PipeInv
<1>5. Contents \in Seq(Bytes) /\ Len(Contents) = 0 BY <1>3, <1>4, PipeRing
<1>6. Contents = <<>> BY <1>5, EmptySeq
<1> QED BY <1>4, <1>6 DEF Stream!Init, Init

-----------------------------------------------------------------------------
\* No byte is ever overwritten before it is read: the counters are at most
\* PIPE_SIZE apart, in unsigned arithmetic (process_pipe_write()).
THEOREM NeverOverrun == Spec => [](Used <= PipeSize)
<1>1. Init => PipeInv BY PipeInit
<1>2. PipeInv /\ [Next]_vars => PipeInv' BY PipeStep
<1>3. PipeInv => Used <= PipeSize BY DEF PipeInv
<1> QED BY <1>1, <1>2, <1>3, PTL DEF Spec

\* The pipe is a bounded queue of bytes, for every size of the buffer and every
\* range of the counters, through any mixture of readers and writers switched in
\* the middle of their calls (process_pipe_read(), process_pipe_write()).
THEOREM PipeIsQueue == Spec => IsByteStream
<1>1. Init => PipeInv /\ Stream!Init BY PipeInit
<1>2. PipeInv /\ [Next]_vars => PipeInv' /\ [Stream!Next]_(Stream!vars) BY PipeStep
<1> QED BY <1>1, <1>2, PTL DEF Spec, IsByteStream, Stream!Spec
=============================================================================
