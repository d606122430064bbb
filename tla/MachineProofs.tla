---------------------------- MODULE MachineProofs ----------------------------
(* The devices of the machine for every size: the console's line with any      *)
(* number of readers, the translation caches with any number of tables, pages  *)
(* and slots, the UART's rings of any power of two, and the fetch device with  *)
(* any number of requests; then one trap frame and one hart for every context, *)
(* and a countdown instead of a clock, for any number of processes, any        *)
(* batches and any steps of time.  Each part of MCMachine keeps an invariant   *)
(* of its own: LineOK, TranslationOK, UartOK, FetchOK, TrapsOK and TimerOK.    *)
EXTENDS MCMachine, RingArithmetic, FiniteSetTheorems, NaturalsInduction,
        WellFoundedInduction, TLAPS

-----------------------------------------------------------------------------
(* THE CONSOLE.  A released line grows only by the readers that were waiting   *)
(* when it was released, so that its length is far from the end of the         *)
(* unsigned range and what is left of it is a difference of integers.          *)

\* What is proved to be inductive.
LineOK == LineKept /\ ReleasedBound

-----------------------------------------------------------------------------
(* Operators.                                                                  *)

\* Readers are counted.
LEMMA PollingFinite ==
    ASSUME TypeOK
    PROVE  /\ IsFiniteSet(Polling) /\ Cardinality(Polling) \in Nat
           /\ Cardinality(Readers) \in Nat /\ Cardinality(Polling) <= Cardinality(Readers)
BY ReadersAssumption, FS_Subset, FS_CardinalityType DEF Polling

\* A reader that leaves its loop is one fewer that waits.
LEMMA OneLeaves ==
    ASSUME TypeOK, NEW r \in Readers, polls[r] > 0, polls' = [polls EXCEPT ![r] = 0]
    PROVE  /\ Cardinality(Polling') = Cardinality(Polling) - 1
           /\ Cardinality(Polling') < Cardinality(Readers)
           /\ Cardinality(Polling') \in Nat
<1>1. Polling' = Polling \ {r} /\ r \in Polling
  BY CountAssumption DEF TypeOK, Polling
<1>2. IsFiniteSet(Polling) /\ Cardinality(Polling) \in Nat /\ Cardinality(Polling) <= Cardinality(Readers)
      /\ Cardinality(Readers) \in Nat
  BY PollingFinite
<1>3. IsFiniteSet(Polling') /\ Cardinality(Polling') = Cardinality(Polling) - 1
  BY <1>1, <1>2, FS_RemoveElement
<1>4. Cardinality(Polling') \in Nat
  BY <1>3, FS_CardinalityType
<1> QED BY <1>2, <1>3, <1>4

\* A line that is in bounds is far from the end of the unsigned range.
LEMMA LineInWord ==
    ASSUME LineOK
    PROVE  Len(line) \in Nat /\ Len(line) + 1 < Word
<1>1. Cardinality(Polling) \in Nat /\ Cardinality(Readers) \in Nat
  BY PollingFinite DEF LineOK, LineKept
<1>2. Len(line) \in Nat /\ LineSize \in Nat /\ MaxCount \in Nat /\ Word \in Nat
      /\ ByteMax \in Nat /\ LineSize + ByteMax + Cardinality(Readers) + MaxCount < Word
  BY WordAssumption, LineSizeAssumption, CountAssumption, ByteAssumption
  DEF LineOK, LineKept, TypeOK
<1>3. \/ Len(line) + Cardinality(Polling) < LineSize + ByteMax + Cardinality(Readers)
      \/ Len(line) < LineSize
  BY DEF LineOK, LineKept, RoomLeft, ReleasedBound
<1> QED BY <1>1, <1>2, <1>3

\* The end of console_read(): either the line is used up and cleared, or the
\* reader got all it asked for and something is left; nothing is returned only
\* if nothing was left.
LEMMA TakeOutcome ==
    ASSUME TypeOK, NEW l \in Seq(Bytes), NEW count \in 1 .. MaxCount,
           offset <= Len(l), Len(l) < Word, Take(l, count)
    PROVE  /\ out' \in Seq(Bytes)
           /\ out' = <<>> => offset = Len(l)
           /\ \/ line' = <<>> /\ offset' = 0 /\ ready' = FALSE
              \/ line' = l /\ offset' \in Nat /\ offset' < Len(l) /\ ready' = TRUE
<1>1. offset \in Nat /\ Len(l) \in Nat /\ count \in Nat \ {0} /\ Word \in Nat
  BY WordAssumption, CountAssumption DEF TypeOK
<1>2. Left(l) = Len(l) - offset
  BY <1>1 DEF Left
<1> DEFINE n == IF count < Left(l) THEN count ELSE Left(l)
<1>3. n \in Nat /\ offset + n <= Len(l) /\ (n = 0 => offset = Len(l))
  BY <1>1, <1>2
<1>4. /\ out' = [i \in 1 .. n |-> IF offset + i <= Len(l) THEN l[offset + i] ELSE Junk]
      /\ line' = IF offset + n = Len(l) THEN <<>> ELSE l
      /\ offset' = IF offset + n = Len(l) THEN 0 ELSE offset + n
      /\ ready' = ~(offset + n = Len(l))
  BY DEF Take
<1> HIDE DEF n
<1>5. \A i \in 1 .. n : offset + i <= Len(l) /\ l[offset + i] \in Bytes
  BY <1>1, <1>3, ElementOfSeq
<1>6. out' \in [1 .. n -> Bytes] BY <1>4, <1>5
<1>7. out' \in Seq(Bytes) /\ Len(out') = n BY <1>3, <1>6
<1>8. out' = <<>> => n = 0 BY <1>7, EmptySeq
<1>9. CASE offset + n = Len(l) BY <1>3, <1>4, <1>7, <1>8, <1>9
<1>10. CASE offset + n # Len(l)
  <2>1. line' = l /\ offset' = offset + n /\ ready' = TRUE BY <1>4, <1>10
  <2>2. offset + n \in Nat /\ offset + n < Len(l) BY <1>1, <1>3, <1>10
  <2> QED BY <1>3, <1>7, <1>8, <2>1, <2>2
<1> QED BY <1>9, <1>10

\* A byte makes the line longer by itself, but for one that lands on the length;
\* an erase takes one byte away.
LEMMA EditedLine ==
    ASSUME TypeOK, NEW c \in Keys, NEW l \in Edited(c)
    PROVE  /\ l \in Seq(Bytes)
           /\ Len(l) \in Nat /\ Len(line) \in Nat
           /\ Len(l) <= Len(line) + 1 \/ (Len(line) = LineSize /\ Len(l) <= LineSize + ByteMax)
           /\ Len(line) <= Len(l) + 1
           /\ line = <<>> => Len(line) <= Len(l)
           /\ c # "erase" => Len(line) <= Len(l)
           /\ c # "newline" /\ Len(line) < LineSize => Len(l) < LineSize
<1>0. LineSize \in Nat /\ LineSize > 1 /\ ByteMax \in Nat
  BY LineSizeAssumption, ByteAssumption
<1>1. line \in Seq(Bytes) /\ Len(line) \in Nat BY DEF TypeOK
<1>2. CASE c = "erase" /\ line # <<>>
  <2>1. l = SubSeq(line, 1, Len(line) - 1)
    BY <1>2 DEF Edited, Erased, Front
  <2>2. Len(line) \in Nat \ {0} BY <1>1, <1>2, EmptySeq
  <2>3. \A i \in 1 .. Len(line) - 1 : line[i] \in Bytes BY <1>1, <2>2, ElementOfSeq
  <2>4. l \in Seq(Bytes) /\ Len(l) = Len(line) - 1
    <3>1. 1 \in Int /\ Len(line) - 1 \in Int BY <2>2
    <3> DEFINE f == SubSeq(line, 1, Len(line) - 1)
    <3>2. f \in Seq(Bytes) /\ Len(f) = IF 1 <= Len(line) - 1 THEN Len(line) - 1 - 1 + 1 ELSE 0
      BY <2>3, <3>1, SubSeqProperties
    <3>3. l = f BY <2>1
    <3> HIDE DEF f
    <3>4. Len(f) = Len(line) - 1
      <4>1. CASE Len(line) = 1 BY <3>2, <4>1
      <4>2. CASE Len(line) # 1
        <5>1. \A k \in Nat \ {0} : k # 1 => 1 <= k - 1 OBVIOUS
        <5>2. 1 <= Len(line) - 1 BY <2>2, <4>2, <5>1, Zenon
        <5> QED BY <2>2, <3>2, <5>2
      <4> QED BY <4>1, <4>2
    <3> QED BY <3>2, <3>3, <3>4
  <2> QED BY <1>0, <1>2, <2>2, <2>4
<1>3. CASE c = "erase" /\ line = <<>>
  <2>1. l = line BY <1>3 DEF Edited, Erased
  <2>2. c = "erase" BY <1>3
  <2> HIDE <1>3
  <2> QED BY <1>0, <1>1, <2>1, <2>2
<1>4. CASE c = "eof"
  <2>1. l = line BY <1>4 DEF Edited
  <2> QED BY <1>0, <1>1, <1>4, <2>1
<1>5. CASE c \notin {"erase", "eof"}
  <2>1. c \in Bytes /\ Junk \in Bytes BY <1>5 DEF Keys, Bytes
  <2>2. CASE NoRoom(c)
    <3>1. l = line BY <1>5, <2>2 DEF Edited
    <3> QED BY <1>0, <1>1, <3>1
  <2>3. CASE ~NoRoom(c)
    <3>1. l \in AfterStore(c) BY <1>5, <2>3 DEF Edited
    <3>2. CASE Len(line) < LineSize
      <4>1. l = Append(line, c) BY <3>1, <3>2 DEF AfterStore
      <4>2. l \in Seq(Bytes) /\ Len(l) = Len(line) + 1 BY <1>1, <2>1, <4>1, AppendProperties
      <4>3. c # "newline" => Len(line) # LineSize - 1 BY <2>3 DEF NoRoom
      <4> QED BY <1>0, <1>1, <1>5, <3>2, <4>2, <4>3
    <3>3. CASE Len(line) = LineSize
      <4>1. PICK b \in 0 .. ByteMax : l = Reaching(LineSize + b) BY <1>0, <3>1, <3>3 DEF AfterStore
      <4>2. LineSize + b \in Nat /\ LineSize <= LineSize + b /\ LineSize + b <= LineSize + ByteMax
        BY <1>0
      <4> DEFINE m == LineSize + b
      <4> HIDE DEF m
      <4>3. \A i \in 1 .. m : i <= LineSize => line[i] \in Bytes
        BY <1>0, <1>1, <3>3, <4>2, ElementOfSeq DEF m
      <4>4. l \in [1 .. m -> Bytes]
        BY <2>1, <4>1, <4>3 DEF Reaching, m
      <4>5. l \in Seq(Bytes) /\ Len(l) = m BY <4>2, <4>4 DEF m
      <4> QED BY <1>0, <1>1, <3>3, <4>2, <4>5, EmptySeq DEF m
    <3>4. CASE ~(Len(line) < LineSize) /\ Len(line) # LineSize
      <4>1. l = Append(line, Junk) BY <3>1, <3>4 DEF AfterStore
      <4>2. l \in Seq(Bytes) /\ Len(l) = Len(line) + 1 BY <1>1, <2>1, <4>1, AppendProperties
      <4> QED BY <1>0, <1>1, <1>5, <3>4, <4>2
    <3> QED BY <3>2, <3>3, <3>4
  <2> QED BY <2>2, <2>3
<1> QED BY <1>2, <1>3, <1>4, <1>5

-----------------------------------------------------------------------------
(* The steps.                                                                  *)

\* What the rest of read() makes of line l, if the reader is in its loop no more.
LEMMA TakeKept ==
    ASSUME TypeOK, NEW l \in Seq(Bytes), NEW count \in 1 .. MaxCount,
           offset <= Len(l), Len(l) < Word, Take(l, count),
           polls' \in [Readers -> 0 .. MaxCount],
           Len(l) + Cardinality(Polling') < LineSize + ByteMax + Cardinality(Readers)
    PROVE  LineOK'
<1>1. /\ out' \in Seq(Bytes)
      /\ \/ line' = <<>> /\ offset' = 0 /\ ready' = FALSE
         \/ line' = l /\ offset' \in Nat /\ offset' < Len(l) /\ ready' = TRUE
  BY TakeOutcome
<1>2. Len(l) \in Nat OBVIOUS
<1>3. TypeOK'
  <2>1. line' \in Seq(Bytes) BY <1>1, EmptySeq
  <2>2. offset' \in Nat /\ ready' \in BOOLEAN
    <3>1. 0 \in Nat OBVIOUS
    <3> QED BY <1>1, <3>1, Zenon
  <2>3. out' \in Seq(Bytes) BY <1>1
  <2> QED BY <2>1, <2>2, <2>3 DEF TypeOK
<1>4. OffsetInLine'
  BY <1>1, <1>2, EmptySeq DEF OffsetInLine
<1>5. RoomLeft'
  BY <1>1, EmptySeq, LineSizeAssumption DEF RoomLeft
<1>6. ReleasedBound'
  BY <1>1 DEF ReleasedBound
<1> QED BY <1>3, <1>4, <1>5, <1>6 DEF LineOK, LineKept

\* read() with a line ready.
LEMMA ReadReadyKept ==
    ASSUME LineOK, NEW r \in Readers, NEW count \in 1 .. MaxCount, ReadReady(r, count)
    PROVE  LineOK'
<1>1. line \in Seq(Bytes) /\ offset <= Len(line) /\ Len(line) < Word
  BY LineInWord, WordAssumption DEF LineOK, LineKept, TypeOK, OffsetInLine
<1>2. Polling' = Polling /\ polls' \in [Readers -> 0 .. MaxCount]
  BY DEF ReadReady, Polling, LineOK, LineKept, TypeOK
<1>3. Len(line) + Cardinality(Polling') < LineSize + ByteMax + Cardinality(Readers)
  BY <1>2 DEF LineOK, ReleasedBound, ReadReady
<1> QED BY <1>1, <1>2, <1>3, TakeKept DEF ReadReady, LineOK, LineKept

\* read() without.
LEMMA ReadWaitKept ==
    ASSUME LineOK, NEW r \in Readers, NEW count \in 1 .. MaxCount, ReadWait(r, count)
    PROVE  LineOK'
<1>1. polls' \in [Readers -> 0 .. MaxCount]
  BY CountAssumption DEF ReadWait, LineOK, LineKept, TypeOK
<1> QED BY <1>1 DEF ReadWait, LineOK, LineKept, TypeOK, OffsetInLine, RoomLeft, ReleasedBound

\* A byte from the UART.
LEMMA KeyKept ==
    ASSUME LineOK, NEW r \in Readers, NEW c \in Keys, Key(r, c)
    PROVE  LineOK'
<1>0. TypeOK /\ polls[r] \in 1 .. MaxCount /\ Len(line) + 1 < Word /\ Len(line) \in Nat
  BY LineInWord, CountAssumption DEF LineOK, LineKept, TypeOK, Key
<1>1. LineSize \in Nat /\ ByteMax \in Nat /\ Word \in Nat /\ MaxCount \in Nat
      /\ LineSize + ByteMax + Cardinality(Readers) + MaxCount < Word
      /\ Cardinality(Readers) \in Nat /\ Cardinality(Polling) \in Nat
  BY <1>0, LineSizeAssumption, ByteAssumption, WordAssumption, CountAssumption, PollingFinite
<1>2. offset \in Nat /\ offset <= Len(line) /\ (ready => offset < Len(line)) /\ (~ready => offset = 0)
  BY DEF LineOK, LineKept, TypeOK, OffsetInLine
<1>3. CASE IsEof(c)
  <2>1. /\ out' = <<>> /\ polls' = [polls EXCEPT ![r] = 0]
        /\ UNCHANGED <<line, offset, ready>>
    BY <1>3 DEF Key
  <2>2. Cardinality(Polling') <= Cardinality(Polling) /\ Cardinality(Polling') \in Nat
    <3>1. polls[r] > 0 BY DEF Key
    <3>2. Cardinality(Polling') = Cardinality(Polling) - 1 /\ Cardinality(Polling') \in Nat
      BY <1>0, <2>1, <3>1, OneLeaves
    <3> QED BY <1>1, <3>2
  <2>3. TypeOK'
    BY <1>0, <2>1, EmptySeq, CountAssumption DEF TypeOK
  <2>4. ReleasedBound'
    BY <1>0, <1>1, <2>1, <2>2 DEF ReleasedBound, LineOK
  <2> QED BY <2>1, <2>3, <2>4 DEF LineOK, LineKept, OffsetInLine, RoomLeft
<1>4. CASE ~IsEof(c) /\ Releases(c)
  <2>1. PICK l \in Edited(c) : Take(l, polls[r])
    BY <1>4 DEF Key
  <2>2. polls' = [polls EXCEPT ![r] = 0]
    BY <1>4 DEF Key
  <2>3. /\ l \in Seq(Bytes) /\ Len(l) \in Nat
        /\ Len(l) <= Len(line) + 1 \/ (Len(line) = LineSize /\ Len(l) <= LineSize + ByteMax)
        /\ Len(line) <= Len(l) + 1
        /\ c # "erase" => Len(line) <= Len(l)
    BY <1>0, EditedLine
  <2>4. /\ Cardinality(Polling') = Cardinality(Polling) - 1
        /\ Cardinality(Polling') < Cardinality(Readers) /\ Cardinality(Polling') \in Nat
    <3>1. polls[r] > 0 BY DEF Key
    <3> QED BY <1>0, <2>2, <3>1, OneLeaves
  <2>5. Len(l) + Cardinality(Polling') < LineSize + ByteMax + Cardinality(Readers)
    <3>1. CASE ready
      <4>1. Len(line) + Cardinality(Polling) < LineSize + ByteMax + Cardinality(Readers)
        BY <3>1 DEF LineOK, ReleasedBound
      <4> QED BY <4>1, <1>0, <1>1, <2>3, <2>4
    <3>2. CASE ~ready
      <4>1. Len(line) < LineSize BY <3>2 DEF LineOK, LineKept, RoomLeft
      <4> QED BY <4>1, <1>0, <1>1, <2>3, <2>4
    <3> QED BY <3>1, <3>2
  <2>6. Len(l) < Word
    BY <1>1, <2>3, <2>4, <2>5
  <2>7. offset <= Len(l)
    BY <1>0, <1>2, <2>3
  <2>8. polls' \in [Readers -> 0 .. MaxCount]
    BY <1>0, <2>2, CountAssumption DEF TypeOK
  <2> QED BY <1>0, <2>1, <2>3, <2>5, <2>6, <2>7, <2>8, TakeKept
<1>5. CASE ~IsEof(c) /\ ~Releases(c)
  <2>1. line' \in Edited(c) /\ UNCHANGED <<offset, ready, polls, out>> /\ ~ready /\ c # "newline"
    BY <1>5 DEF Key, Releases
  <2>2. line' \in Seq(Bytes) /\ Len(line') \in Nat
        /\ (c # "newline" /\ Len(line) < LineSize => Len(line') < LineSize)
    BY <1>0, <2>1, EditedLine
  <2>3. Len(line') < LineSize
    BY <2>1, <2>2 DEF LineOK, LineKept, RoomLeft
  <2>4. TypeOK' BY <1>0, <2>1, <2>2 DEF TypeOK
  <2>5. OffsetInLine' BY <1>2, <2>1, <2>2 DEF OffsetInLine
  <2> QED BY <2>1, <2>3, <2>4, <2>5 DEF LineOK, LineKept, RoomLeft, ReleasedBound
<1> QED BY <1>3, <1>4, <1>5

\* At boot there is no line and nobody waits.
LEMMA InitKept == ASSUME Init PROVE LineOK
<1>1. <<>> \in Seq(Bytes) /\ Len(<<>>) = 0 BY EmptySeq
<1>2. TypeOK
  <2>1. line \in Seq(Bytes) /\ out \in Seq(Bytes) BY <1>1 DEF Init
  <2>2. offset \in Nat /\ ready \in BOOLEAN BY DEF Init
  <2>3. polls \in [Readers -> 0 .. MaxCount] BY CountAssumption DEF Init
  <2> QED BY <2>1, <2>2, <2>3 DEF TypeOK
<1>3. OffsetInLine BY <1>1 DEF Init, OffsetInLine
<1>4. RoomLeft BY <1>1, LineSizeAssumption DEF Init, RoomLeft
<1>5. ReleasedBound BY DEF Init, ReleasedBound
<1> QED BY <1>2, <1>3, <1>4, <1>5 DEF LineOK, LineKept

\* Every step.
LEMMA NextKept == ASSUME LineOK, [Next]_vars PROVE LineOK'
<1>1. CASE UNCHANGED vars
  BY <1>1 DEF vars, LineOK, LineKept, TypeOK, OffsetInLine, RoomLeft, ReleasedBound, Polling
<1>2. ASSUME NEW r \in Readers, NEW count \in 1 .. MaxCount,
             ReadReady(r, count) \/ ReadWait(r, count)
      PROVE  LineOK'
  BY <1>2, ReadReadyKept, ReadWaitKept
<1>3. ASSUME NEW r \in Readers, NEW c \in Keys, Key(r, c)
      PROVE  LineOK'
  BY <1>3, KeyKept
<1> QED BY <1>1, <1>2, <1>3 DEF Next

\* A read that ends without a byte ends for one of the two reasons.
LEMMA EofStep == ASSUME LineOK, [Next]_vars PROVE EofHonestStep
<1> SUFFICES ASSUME NEW s \in Readers, polls[s] > 0, polls'[s] = 0, out' = <<>>,
                    line # <<>>, ~ready
             PROVE  FALSE
  BY DEF EofHonestStep
<1>0. TypeOK /\ polls[s] # 0 BY DEF LineOK, LineKept, TypeOK
<1>1. PICK r \in Readers : \/ \E count \in 1 .. MaxCount : ReadReady(r, count) \/ ReadWait(r, count)
                           \/ \E c \in Keys : Key(r, c)
  BY <1>0 DEF Next, vars
<1>2. ASSUME NEW count \in 1 .. MaxCount, ReadReady(r, count) \/ ReadWait(r, count) PROVE FALSE
  BY <1>0, <1>2 DEF ReadReady, ReadWait, TypeOK
<1>3. ASSUME NEW c \in Keys, Key(r, c) PROVE FALSE
  <2>0. polls[r] \in 1 .. MaxCount /\ Len(line) + 1 < Word
    BY <1>3, LineInWord, CountAssumption DEF LineOK, LineKept, TypeOK, Key
  <2>1. ~IsEof(c) BY DEF IsEof
  <2>2. Releases(c)
    BY <1>0, <1>3, <2>1 DEF Key
  <2>3. PICK l \in Edited(c) : Take(l, polls[r]) BY <1>3, <2>1, <2>2 DEF Key
  <2>4. c # "erase" BY <2>2 DEF Releases
  <2>5. l \in Seq(Bytes) /\ Len(line) <= Len(l) /\ Len(l) \in Nat /\ Len(line) \in Nat
        /\ (Len(l) <= Len(line) + 1 \/ Len(line) = LineSize)
    BY <1>0, <2>4, EditedLine
  <2>6. offset = 0 /\ Len(line) < LineSize BY DEF LineOK, LineKept, OffsetInLine, RoomLeft
  <2>7. Len(line) # 0 BY <1>0, EmptySeq DEF TypeOK
  <2>8. Len(l) < Word /\ offset <= Len(l)
    BY <2>0, <2>5, <2>6, WordAssumption, LineSizeAssumption
  <2>9. out' = <<>> => offset = Len(l)
    BY <1>0, <2>0, <2>3, <2>5, <2>8, TakeOutcome
  <2> QED BY <2>5, <2>6, <2>7, <2>9
<1> QED BY <1>1, <1>2, <1>3

\* A process that reads the console alone.
Alone == \A r, s \in Readers : r = s

\* It does not wait for a byte while there is a line.
AloneOK == LineOK /\ InsideBuffer /\ (ready => \A r \in Readers : ~(polls[r] > 0))

LEMMA AloneKept ==
    ASSUME Alone, AloneOK, [Next]_vars
    PROVE  AloneOK' /\ (ready /\ ready' => line' = line)
<1>0. LineOK' /\ LineOK /\ TypeOK BY NextKept DEF AloneOK, LineOK, LineKept
<1>1. Len(line) \in Nat /\ LineSize \in Nat /\ Len(line) <= LineSize
  BY <1>0, LineSizeAssumption DEF TypeOK, AloneOK, InsideBuffer
<1>2. CASE UNCHANGED vars
  BY <1>0, <1>2 DEF vars, AloneOK, InsideBuffer
<1>3. ASSUME NEW r \in Readers, NEW count \in 1 .. MaxCount, ReadReady(r, count)
      PROVE  AloneOK' /\ (ready /\ ready' => line' = line)
  <2>1. line \in Seq(Bytes) /\ offset <= Len(line) /\ Len(line) < Word
    BY <1>0, LineInWord, WordAssumption DEF LineOK, LineKept, TypeOK, OffsetInLine
  <2>2. \/ line' = <<>> /\ ready' = FALSE
        \/ line' = line /\ ready' = TRUE
    BY <1>0, <1>3, <2>1, TakeOutcome DEF ReadReady
  <2>3. Len(line') <= LineSize BY <1>1, <2>2, EmptySeq
  <2>4. polls' = polls /\ ready BY <1>3 DEF ReadReady
  <2> QED BY <1>0, <2>2, <2>3, <2>4 DEF AloneOK, InsideBuffer
<1>4. ASSUME NEW r \in Readers, NEW count \in 1 .. MaxCount, ReadWait(r, count)
      PROVE  AloneOK' /\ (ready /\ ready' => line' = line)
  BY <1>0, <1>4 DEF ReadWait, AloneOK, InsideBuffer
<1>5. ASSUME NEW r \in Readers, NEW c \in Keys, Key(r, c)
      PROVE  AloneOK' /\ (ready /\ ready' => line' = line)
  <2>1. polls[r] > 0 /\ ~ready BY <1>5 DEF Key, AloneOK
  <2>2. Len(line) < LineSize /\ offset = 0
    BY <1>0, <2>1 DEF LineOK, LineKept, RoomLeft, OffsetInLine
  <2>3. ASSUME NEW l \in Edited(c)
        PROVE  l \in Seq(Bytes) /\ Len(l) \in Nat /\ Len(l) <= LineSize
    BY <1>0, <1>1, <2>2, <2>3, EditedLine
  <2>4. CASE IsEof(c)
    BY <1>0, <1>5, <2>1, <2>4 DEF Key, AloneOK, InsideBuffer
  <2>5. CASE ~IsEof(c) /\ Releases(c)
    <3>1. PICK l \in Edited(c) : Take(l, polls[r]) BY <1>5, <2>5 DEF Key
    <3>2. polls' = [polls EXCEPT ![r] = 0] BY <1>5, <2>5 DEF Key
    <3>3. line' = <<>> \/ line' = l BY <3>1 DEF Take
    <3>4. Len(line') <= LineSize BY <1>1, <2>3, <3>3, EmptySeq
    <3>5. \A s \in Readers : ~(polls'[s] > 0)
      BY <1>0, <3>2 DEF Alone, TypeOK
    <3> QED BY <1>0, <2>1, <3>4, <3>5 DEF AloneOK, InsideBuffer
  <2>6. CASE ~IsEof(c) /\ ~Releases(c)
    <3>1. line' \in Edited(c) /\ ready' = ready BY <1>5, <2>6 DEF Key
    <3> QED BY <1>0, <2>1, <2>3, <3>1 DEF AloneOK, InsideBuffer
  <2> QED BY <2>4, <2>5, <2>6
<1> QED BY <1>2, <1>3, <1>4, <1>5 DEF Next

-----------------------------------------------------------------------------
\* For any number of readers and any size of the buffer, erasing never takes
\* away what a reader has taken, and a line that is not released has a place
\* left, so that only a reader which waited while another one released the line
\* can store a byte behind the buffer (console_read()).
THEOREM LineSafe == Spec => []LineKept
<1>1. Init => LineOK BY InitKept
<1>2. LineOK /\ [Next]_vars => LineOK' BY NextKept
<1>3. LineOK => LineKept BY DEF LineOK
<1> QED BY <1>1, <1>2, <1>3, PTL DEF Spec

\* A process that reads the console alone keeps the line inside console_line[],
\* and edits no line that it has released (console_read()).
THEOREM AloneSafe == Alone => (Spec => []InsideBuffer /\ ReleasedLineKept)
<1> SUFFICES ASSUME Alone PROVE Spec => []InsideBuffer /\ ReleasedLineKept
  OBVIOUS
<1>1. Init => AloneOK
  <2> SUFFICES ASSUME Init PROVE AloneOK OBVIOUS
  <2>1. Len(line) = 0 /\ ~ready BY EmptySeq DEF Init
  <2>2. InsideBuffer BY <2>1, LineSizeAssumption DEF InsideBuffer
  <2> QED BY <2>1, <2>2, InitKept DEF AloneOK
<1>2. AloneOK /\ [Next]_vars => AloneOK' /\ [ready /\ ready' => line' = line]_vars
  BY AloneKept
<1>3. AloneOK => InsideBuffer BY DEF AloneOK
<1> QED BY <1>1, <1>2, <1>3, PTL DEF Spec, ReleasedLineKept

\* A read of the console returns nothing only if end of file was typed on an
\* empty line or another reader had released the line (console_read()).
THEOREM EofSafe == Spec => EofHonest
<1>1. Init => LineOK BY InitKept
<1>2. LineOK /\ [Next]_vars => LineOK' /\ [EofHonestStep]_vars BY NextKept, EofStep
<1> QED BY <1>1, <1>2, PTL DEF Spec, EofHonest

-----------------------------------------------------------------------------
(* ADDRESS TRANSLATION.  CachesFresh is inductive with the types: what a walk  *)
(* fills in is fresh, a mark that it sets changes no other answer, and every   *)
(* other change either flushes or is an edit that is remembered as one.        *)

\* What is proved to be inductive.
TranslationOK == M!TypeOK /\ M!CachesFresh

-----------------------------------------------------------------------------
(* The entry of the table.                                                     *)

\* The bits a walk sets do not change what another walk allows or where it
\* leads, and no bit that a walk would set is lost by them (translate()).
LEMMA MarkedLeaf ==
    ASSUME NEW e \in M!Leaf, NEW a \in M!Access
    PROVE  /\ M!Marked(e, a) \in M!Leaf
           /\ M!Marked(e, a).to = e.to
           /\ M!Marked(M!Marked(e, a), a) = M!Marked(e, a)
           /\ \A b \in M!Access : M!Marked(e, b) = e => M!Marked(M!Marked(e, a), b) = M!Marked(e, a)
           /\ \A b \in M!Access : \A p, s : M!Allowed(e, b, p, s) => M!Allowed(M!Marked(e, a), b, p, s)
<1> DEFINE X(b) == {"A"} \cup (IF b = "store" THEN {"D"} ELSE {})
<1>1. \A b \in M!Access, f \in M!Leaf :
         M!Marked(f, b) \in M!Leaf /\ M!Marked(f, b).to = f.to /\ M!Marked(f, b).flags = f.flags \cup X(b)
  BY DEF M!Marked, M!Leaf, M!Flags, M!Access
<1>2. \A f, g \in M!Leaf : f.to = g.to /\ f.flags = g.flags => f = g
  BY DEF M!Leaf
<1> HIDE DEF X
<1>3. M!Marked(M!Marked(e, a), a) = M!Marked(e, a)
  <2>1. M!Marked(e, a).flags \cup X(a) = M!Marked(e, a).flags
    BY <1>1
  <2> QED BY <2>1, <1>1, <1>2
<1>4. ASSUME NEW b \in M!Access, M!Marked(e, b) = e PROVE M!Marked(M!Marked(e, a), b) = M!Marked(e, a)
  <2>1. e.flags \cup X(b) = e.flags
    BY <1>1, <1>4
  <2>2. M!Marked(e, a).flags \cup X(b) = M!Marked(e, a).flags
    BY <2>1, <1>1
  <2> DEFINE f == M!Marked(e, a)
             g == M!Marked(f, b)
  <2>3. f \in M!Leaf BY <1>1
  <2>4. g \in M!Leaf /\ g.to = f.to /\ g.flags = f.flags \cup X(b)
    <3> HIDE DEF f
    <3> QED BY <1>1, <2>3
  <2>5. g.flags = f.flags BY <2>2, <2>4
  <2> HIDE DEF f, g
  <2>6. g = f BY <1>2, <2>3, <2>4, <2>5
  <2> QED BY <2>6 DEF f, g
<1>5. ASSUME NEW b \in M!Access, NEW p, NEW s, M!Allowed(e, b, p, s)
      PROVE  M!Allowed(M!Marked(e, a), b, p, s)
  <2>1. \A f \in {"R", "W", "X", "U"} : f \in M!Marked(e, a).flags <=> f \in e.flags
    BY <1>1 DEF X
  <2> QED BY <1>5, <2>1 DEF M!Allowed, M!Access
<1> QED BY <1>1, <1>3, <1>4, <1>5

-----------------------------------------------------------------------------
(* The steps.                                                                  *)

\* A page has its slot in the TLB (`slot' of translate()).
LEMMA SlotsExist ==
    ASSUME M!MmuConstants, NEW v \in VPages, NEW acc \in M!Access
    PROVE  M!Slot(v, acc) \in M!SlotIds
<1>1. v \in Nat /\ Slots \in Nat /\ Slots > 0 BY DEF M!MmuConstants
<1>2. ASSUME NEW a \in Nat, NEW n \in Nat, n > 0 PROVE a % n \in 0 .. n - 1
  BY <1>2
<1>3. v % Slots \in 0 .. Slots - 1 BY <1>1, <1>2
<1> QED BY <1>3 DEF M!Slot, M!SlotIds

\* After a flush nothing is cached and nothing is edited (flush_tlb()).
LEMMA FlushFresh ==
    ASSUME M!MmuConstants, M!TypeOK, M!FlushTlb,
           pt' = pt, satp' \in Roots \cup {M!Bare}, priv' \in {"S", "U"}, sum' \in BOOLEAN
    PROVE  TranslationOK'
<1>1. \A v \in VPages, acc \in M!Access : M!Slot(v, acc) \in M!SlotIds
  BY SlotsExist
<1>2. M!TypeOK'
  BY DEF M!TypeOK, M!FlushTlb, M!NoTlb
<1>3. \A v \in VPages, acc \in M!Access : ~M!Hit(v, acc)'
  BY <1>1 DEF M!Hit, M!Slot, M!FlushTlb, M!NoTlb, M!None
<1>4. M!CachesFresh'
  BY <1>3 DEF M!CachesFresh, M!FlushTlb, M!None
<1> QED BY <1>2, <1>4 DEF TranslationOK

\* A walk leaves the caches as fresh as they were, and what it adds is fresh.
LEMMA WalkFresh ==
    ASSUME M!MmuConstants, TranslationOK, NEW v \in VPages, NEW acc \in M!Access,
           M!WalkFills(v, acc), UNCHANGED <<satp, priv, sum, edited>>,
           \/ fetch' = fetch
           \/ acc = "fetch" /\ M!Fetched(v, pt[satp][v].to)
    PROVE  TranslationOK'
<1> DEFINE e == pt[satp][v]
<1>0. /\ satp \in Roots /\ e \in M!Leaf /\ pt \in [Roots -> [VPages -> M!Leaf]]
      /\ tlb \in [M!SlotIds -> M!TlbEntry \cup {M!None}] /\ M!Slot(v, acc) \in M!SlotIds
  <2>1. satp \in Roots /\ pt \in [Roots -> [VPages -> M!Leaf]]
    BY DEF TranslationOK, M!TypeOK, M!WalkFills
  <2>2. M!Slot(v, acc) \in M!SlotIds BY SlotsExist
  <2> QED BY <2>1, <2>2 DEF TranslationOK, M!TypeOK
<1>1. M!Marked(e, acc) \in M!Leaf /\ M!Marked(e, acc).to = e.to
  BY <1>0, MarkedLeaf
<1>2. /\ pt' \in [Roots -> [VPages -> M!Leaf]]
      /\ pt'[satp][v] = M!Marked(e, acc)
      /\ \A w \in VPages \ {v} : pt'[satp][w] = pt[satp][w]
  BY <1>0, <1>1 DEF M!WalkFills
<1> DEFINE new == [page |-> "page", tag |-> M!Tag(v), acc |-> acc, to |-> e.to]
<1>3. new \in M!TlbEntry
  <2>1. e.to \in Nat BY <1>0 DEF M!Leaf
  <2> QED BY <2>1 DEF M!TlbEntry, M!Tag, TranslationOK, M!TypeOK
<1>4. tlb' = [tlb EXCEPT ![M!Slot(v, acc)] = new]
  BY DEF M!WalkFills
<1>5. fetch' \in M!FetchPage \cup {M!None}
  <2>1. e.to \in Nat BY <1>0 DEF M!Leaf
  <2> QED BY <2>1 DEF TranslationOK, M!TypeOK, M!Fetched, M!FetchPage
<1>6. M!TypeOK'
  <2>1. tlb' \in [M!SlotIds -> M!TlbEntry \cup {M!None}] BY <1>0, <1>3, <1>4
  <2> QED BY <1>2, <1>5, <2>1 DEF TranslationOK, M!TypeOK
<1>7. ASSUME NEW w \in VPages \ edited', NEW b \in M!Access, M!Hit(w, b)'
      PROVE  /\ satp' # M!Bare /\ M!Allowed(pt'[satp'][w], b, priv', sum')
             /\ tlb'[M!Slot(w, b)].to = pt'[satp'][w].to
             /\ M!Marked(pt'[satp'][w], b) = pt'[satp'][w]
  <2>1. M!Slot(w, b) \in M!SlotIds
    BY DEF M!MmuConstants, M!Slot, M!SlotIds
  <2>2. CASE M!Slot(w, b) = M!Slot(v, acc)
    <3>1. tlb'[M!Slot(w, b)] = new BY <2>2, <1>0, <1>4
    <3>2. w = v /\ b = acc
      <4>1. M!Tag(v).page = M!Tag(w)'.page BY <3>1, <1>7 DEF M!Hit, M!Slot
      <4> QED BY <4>1, <2>2 DEF M!Tag, M!Slot
    <3>3. M!Allowed(e, acc, priv, sum) /\ satp # M!Bare BY DEF M!WalkFills
    <3>4. M!Allowed(M!Marked(e, acc), acc, priv, sum) /\ M!Marked(M!Marked(e, acc), acc) = M!Marked(e, acc)
      BY <3>3, <1>0, MarkedLeaf
    <3> QED BY <3>1, <3>2, <3>3, <3>4, <1>1, <1>2
  <2>3. CASE M!Slot(w, b) # M!Slot(v, acc)
    <3>1. tlb'[M!Slot(w, b)] = tlb[M!Slot(w, b)] BY <2>1, <2>3, <1>0, <1>4
    <3>2. M!Hit(w, b)
      BY <3>1, <1>7 DEF M!Hit, M!Slot, M!Tag
    <3>3. /\ satp # M!Bare /\ M!Allowed(pt[satp][w], b, priv, sum)
          /\ tlb[M!Slot(w, b)].to = pt[satp][w].to
          /\ M!Marked(pt[satp][w], b) = pt[satp][w]
      BY <3>2 DEF TranslationOK, M!CachesFresh
    <3>4. CASE w = v
      <4>1. M!Allowed(M!Marked(e, acc), b, priv, sum) /\ M!Marked(M!Marked(e, acc), b) = M!Marked(e, acc)
        BY <3>3, <3>4, <1>0, MarkedLeaf
      <4> QED BY <4>1, <3>1, <3>3, <3>4, <1>1, <1>2
    <3>5. CASE w # v
      BY <3>1, <3>3, <3>5, <1>2
    <3> QED BY <3>4, <3>5
  <2> QED BY <2>2, <2>3
<1>8. ASSUME fetch'.page # "none", fetch'.v \notin edited'
      PROVE  /\ satp' # M!Bare /\ M!Allowed(pt'[satp'][fetch'.v], "fetch", priv', sum')
             /\ fetch'.to = pt'[satp'][fetch'.v].to
  <2>1. CASE fetch' = fetch
    <3>1. /\ satp # M!Bare /\ M!Allowed(pt[satp][fetch.v], "fetch", priv, sum)
          /\ fetch.to = pt[satp][fetch.v].to
      BY <2>1, <1>8 DEF TranslationOK, M!CachesFresh
    <3>2. fetch.v \in VPages
      BY <2>1, <1>8 DEF TranslationOK, M!TypeOK, M!FetchPage, M!None
    <3>3. CASE fetch.v = v
      <4>1. M!Allowed(M!Marked(e, acc), "fetch", priv, sum)
        BY <3>1, <3>3, <1>0, MarkedLeaf DEF M!Access
      <4> QED BY <4>1, <3>1, <3>3, <2>1, <1>1, <1>2
    <3>4. CASE fetch.v # v
      BY <3>1, <3>2, <3>4, <2>1, <1>2
    <3> QED BY <3>3, <3>4
  <2>2. CASE acc = "fetch" /\ M!Fetched(v, e.to)
    <3>1. fetch'.v = v /\ fetch'.to = e.to BY <2>2 DEF M!Fetched
    <3>2. M!Allowed(M!Marked(e, acc), "fetch", priv, sum)
      BY <2>2, <1>0, MarkedLeaf DEF M!WalkFills
    <3> QED BY <3>1, <3>2, <1>0, <1>1, <1>2 DEF M!WalkFills
  <2> QED BY <2>1, <2>2
<1>9. M!CachesFresh'
  BY <1>7, <1>8 DEF TranslationOK, M!CachesFresh
<1> QED BY <1>6, <1>9 DEF TranslationOK

\* A new entry outdates only the caches of its own page, which is noted.
LEMMA EditFresh ==
    ASSUME M!MmuConstants, TranslationOK, NEW r \in EditedRoots, NEW v \in VPages, NEW e \in Ptes,
           M!EditPte(r, v, e)
    PROVE  TranslationOK'
<1>1. r \in Roots /\ e \in M!Leaf
  BY DEF M!MmuConstants
<1>2. M!TypeOK'
  BY <1>1 DEF TranslationOK, M!TypeOK, M!EditPte
<1>3. priv' = "U" => edited' = {}
  BY DEF M!EditPte
<1>4. \A w \in VPages \ edited' : satp \in Roots => pt'[satp][w] = pt[satp][w] /\ w \notin edited
  BY <1>1 DEF TranslationOK, M!TypeOK, M!EditPte
<1>5. \A w \in VPages, b \in M!Access : M!Hit(w, b)' <=> M!Hit(w, b)
  BY DEF M!Hit, M!Slot, M!Tag, M!EditPte
<1>6. \A w \in VPages \ edited', b \in M!Access :
         M!Hit(w, b)' =>
           /\ satp' # M!Bare /\ M!Allowed(pt'[satp'][w], b, priv', sum')
           /\ tlb'[M!Slot(w, b)].to = pt'[satp'][w].to
           /\ M!Marked(pt'[satp'][w], b) = pt'[satp'][w]
  <2> SUFFICES ASSUME NEW w \in VPages \ edited', NEW b \in M!Access, M!Hit(w, b)'
               PROVE  /\ satp' # M!Bare /\ M!Allowed(pt'[satp'][w], b, priv', sum')
                      /\ tlb'[M!Slot(w, b)].to = pt'[satp'][w].to
                      /\ M!Marked(pt'[satp'][w], b) = pt'[satp'][w]
    OBVIOUS
  <2>1. w \notin edited BY DEF M!EditPte
  <2>2. /\ satp # M!Bare /\ M!Allowed(pt[satp][w], b, priv, sum)
        /\ tlb[M!Slot(w, b)].to = pt[satp][w].to
        /\ M!Marked(pt[satp][w], b) = pt[satp][w]
    BY <1>5, <2>1 DEF TranslationOK, M!CachesFresh
  <2>3. pt'[satp][w] = pt[satp][w] BY <1>4, <2>2 DEF TranslationOK, M!TypeOK
  <2> QED BY <2>2, <2>3 DEF M!EditPte
<1>7. fetch'.page # "none" /\ fetch'.v \notin edited' =>
         /\ satp' # M!Bare /\ M!Allowed(pt'[satp'][fetch'.v], "fetch", priv', sum')
         /\ fetch'.to = pt'[satp'][fetch'.v].to
  <2> SUFFICES ASSUME fetch.page # "none", fetch.v \notin edited'
               PROVE  /\ satp # M!Bare /\ M!Allowed(pt'[satp][fetch.v], "fetch", priv, sum)
                      /\ fetch.to = pt'[satp][fetch.v].to
    BY DEF M!EditPte
  <2>1. fetch.v \in VPages \ edited' BY DEF TranslationOK, M!TypeOK, M!FetchPage, M!None
  <2>2. fetch.v \notin edited BY DEF M!EditPte
  <2>3. /\ satp # M!Bare /\ M!Allowed(pt[satp][fetch.v], "fetch", priv, sum)
        /\ fetch.to = pt[satp][fetch.v].to
    BY <2>2 DEF TranslationOK, M!CachesFresh
  <2> QED BY <1>4, <2>1, <2>3 DEF TranslationOK, M!TypeOK
<1>8. M!CachesFresh'
  BY <1>3, <1>6, <1>7 DEF M!CachesFresh
<1> QED BY <1>2, <1>8 DEF TranslationOK

\* A step that changes nothing.
LEMMA StutterFresh == ASSUME TranslationOK, UNCHANGED M!vars PROVE TranslationOK'
BY DEF TranslationOK, M!TypeOK, M!CachesFresh, M!Hit, M!Slot, M!Tag, M!vars

\* A trap flushes.
LEMMA TrapFresh == ASSUME M!MmuConstants, TranslationOK, M!Trapped PROVE TranslationOK'
BY FlushFresh DEF TranslationOK, M!TypeOK, M!Trapped

\* Loads and stores.
LEMMA LoadOrStoreFresh ==
    ASSUME M!MmuConstants, TranslationOK, NEW v \in VPages, NEW acc \in M!Access, M!LoadOrStore(v, acc)
    PROVE  TranslationOK'
<1>1. CASE UNCHANGED M!vars BY <1>1, StutterFresh
<1>2. CASE M!WalkFills(v, acc) /\ UNCHANGED <<satp, priv, sum, fetch, edited>>
  BY <1>2, WalkFresh
<1>3. CASE M!Trapped BY <1>3, TrapFresh
<1> QED BY <1>1, <1>2, <1>3 DEF M!LoadOrStore

\* Instruction fetches.
LEMMA FetchFresh ==
    ASSUME M!MmuConstants, TranslationOK, NEW v \in VPages, M!Fetch(v)
    PROVE  TranslationOK'
<1>1. CASE UNCHANGED M!vars BY <1>1, StutterFresh
<1>2. CASE M!Trapped BY <1>2, TrapFresh
<1>3. CASE M!WalkFills(v, "fetch") /\ M!Fetched(v, pt[satp][v].to) /\ UNCHANGED <<satp, priv, sum, edited>>
  <2>1. "fetch" \in M!Access BY DEF M!Access
  <2> QED BY <1>3, <2>1, WalkFresh
<1>4. CASE /\ M!Hit(v, "fetch") /\ M!Fetched(v, tlb[M!Slot(v, "fetch")].to)
           /\ UNCHANGED <<pt, satp, priv, sum, tlb, edited>>
  <2>1. M!Slot(v, "fetch") \in M!SlotIds /\ "fetch" \in M!Access
    BY DEF M!MmuConstants, M!Slot, M!SlotIds, M!Access
  <2>2. tlb[M!Slot(v, "fetch")] \in M!TlbEntry
    BY <1>4, <2>1 DEF TranslationOK, M!TypeOK, M!Hit, M!None
  <2>3. fetch' = [page |-> "page", v |-> v, to |-> tlb[M!Slot(v, "fetch")].to]
    BY <1>4 DEF M!Fetched
  <2>4. M!TypeOK'
    <3>1. tlb[M!Slot(v, "fetch")].to \in Nat BY <2>2 DEF M!TlbEntry
    <3>2. fetch' \in M!FetchPage BY <2>3, <3>1 DEF M!FetchPage
    <3> QED BY <1>4, <3>2 DEF TranslationOK, M!TypeOK
  <2>5. v \notin edited =>
          /\ satp # M!Bare /\ M!Allowed(pt[satp][v], "fetch", priv, sum)
          /\ tlb[M!Slot(v, "fetch")].to = pt[satp][v].to
    BY <1>4, <2>1 DEF TranslationOK, M!CachesFresh
  <2>6. \A w \in VPages, b \in M!Access : M!Hit(w, b)' <=> M!Hit(w, b)
    BY <1>4 DEF M!Hit, M!Slot, M!Tag
  <2>7. M!CachesFresh'
    <3>1. fetch'.v = v /\ fetch'.to = tlb[M!Slot(v, "fetch")].to BY <2>3
    <3>2. \A w \in VPages, b \in M!Access : M!Slot(w, b)' = M!Slot(w, b) BY DEF M!Slot
    <3> QED BY <1>4, <2>5, <2>6, <3>1, <3>2 DEF TranslationOK, M!CachesFresh
  <2> QED BY <2>4, <2>7 DEF TranslationOK
<1> QED BY <1>1, <1>2, <1>3, <1>4 DEF M!Fetch

\* Every step.
LEMMA NextFresh == ASSUME M!MmuConstants, TranslationOK, [M!Next]_(M!vars) PROVE TranslationOK'
<1>1. CASE UNCHANGED M!vars BY <1>1, StutterFresh
<1>2. ASSUME NEW v \in VPages, M!Fetch(v) \/ M!LoadOrStore(v, "load") \/ M!LoadOrStore(v, "store")
      PROVE  TranslationOK'
  BY <1>2, FetchFresh, LoadOrStoreFresh DEF M!Access
<1>3. CASE M!TakeTrap BY <1>3, TrapFresh DEF M!TakeTrap
<1>4. CASE M!Sret BY <1>4, FlushFresh DEF TranslationOK, M!TypeOK, M!Sret, M!ReturnFlush
<1>5. CASE M!SetSatp BY <1>5, FlushFresh DEF TranslationOK, M!TypeOK, M!SetSatp
<1>6. CASE M!SetSum BY <1>6, FlushFresh DEF TranslationOK, M!TypeOK, M!SetSum
<1>7. CASE M!Sfence BY <1>7, FlushFresh DEF TranslationOK, M!TypeOK, M!Sfence
<1>8. ASSUME NEW r \in EditedRoots, NEW v \in VPages, NEW e \in Ptes, M!EditPte(r, v, e)
      PROVE  TranslationOK'
  BY <1>8, EditFresh
<1> QED BY <1>1, <1>2, <1>3, <1>4, <1>5, <1>6, <1>7, <1>8 DEF M!Next

\* The caches are empty at reset.
LEMMA InitFresh == ASSUME M!MmuConstants, M!Init PROVE TranslationOK
<1>1. \A v \in VPages, acc \in M!Access : M!Slot(v, acc) \in M!SlotIds
  BY SlotsExist
<1>2. M!TypeOK
  BY DEF M!Init, M!TypeOK, M!NoTlb, M!MmuConstants
<1>3. \A v \in VPages, acc \in M!Access : ~M!Hit(v, acc)
  BY <1>1 DEF M!Hit, M!Init, M!NoTlb, M!None
<1>4. M!CachesFresh
  BY <1>3 DEF M!CachesFresh, M!Init, M!None
<1> QED BY <1>2, <1>4 DEF TranslationOK

-----------------------------------------------------------------------------
\* An answer of the TLB or of the fetch page is the answer of a walk made now,
\* for every number of tables, pages and slots: whatever changes satp, the
\* privilege or SUM flushes first, and only pages that the kernel has edited
\* since are excepted, none of them in user mode (translate(), flush_tlb()).
THEOREM TranslationsFresh == MCSpec => []CachesFresh
<1> DEFINE Here == part = "mmu"
<1>1. MCInit /\ Here => TranslationOK
  BY MmuConstants, InitFresh DEF MCInit
<1>2. TranslationOK /\ Here /\ [MCNext]_mcVars => TranslationOK' /\ Here'
  BY MmuConstants, NextFresh DEF MCNext, TrapsStep, mcVars, mmuVars, M!vars
<1>3. ~Here /\ [MCNext]_mcVars => ~Here'
  BY DEF MCNext, TrapsStep, mcVars
<1>4. (Here => TranslationOK) => CachesFresh
  BY DEF CachesFresh, TranslationOK
<1> HIDE DEF Here
<1> QED BY <1>1, <1>2, <1>3, <1>4, PTL DEF MCSpec

-----------------------------------------------------------------------------
(* DEVICES.  A ring holds what is in flight between two counters that wrap; it *)
(* is one of the rings of RingArithmetic.                                      *)

Byte == 0 .. 3

\* A ring with its counters in range and no more bytes than it has places.
RingOK(q) ==
    /\ q \in [buf : [0 .. UART_CAP - 1 -> Byte], read : 0 .. CounterMod - 1,
              write : 0 .. CounterMod - 1]
    /\ H!Count(q) <= UART_CAP

\* What is proved to be inductive about the UART: what one side took is what the
\* other has got, and what is on the way.
UartOK ==
    /\ RingOK(rx) /\ RingOK(tx)
    /\ accepted \in Seq(Byte) /\ got \in Seq(Byte)
    /\ printed \in Seq(Byte) /\ shown \in Seq(Byte)
    /\ H!RingsAreQueues

\* The registers, the poll and the page agree: a fetch is under way only while
\* the command waits, the command waits only while the process polls, and then
\* all three mean the same URL.
FetchOK ==
    /\ dev \in [status : {0, 1, 2, 3}, url : Urls \cup {H!NoUrl}, length : {0},
                buffer : Urls \cup {H!NoUrl}]
    /\ guest \in [at : {"idle", "poll"}, url : Urls \cup {H!NoUrl}, left : Nat,
                  result : Urls \cup {H!NoUrl, "error"}]
    /\ worker \in [fetching : BOOLEAN, flights : {<<>>} \cup {<<u>> : u \in Urls \cup {H!NoUrl}}]
    /\ ~worker.fetching => worker.flights = <<>>
    /\ worker.fetching => worker.flights = <<guest.url>> /\ dev.status = 1
    /\ dev.status = 1 => guest.at = "poll" /\ dev.url = guest.url
    /\ guest.at = "poll" /\ dev.status = 2 => dev.buffer = guest.url
    /\ H!FetchAnswersOwn

-----------------------------------------------------------------------------
(* Sequences.                                                                  *)

\* A byte at the end of the second part is at the end of the whole.
LEMMA AppendSecond ==
    ASSUME NEW S, NEW g \in Seq(S), NEW q \in Seq(S), NEW b \in S
    PROVE  g \o Append(q, b) = Append(g \o q, b)
<1>1. <<b>> \in Seq(S) /\ g \o q \in Seq(S) BY ConcatProperties
<1>2. g \o (q \o <<b>>) = (g \o q) \o <<b>> BY <1>1, ConcatAssociative
<1> QED BY <1>1, <1>2, AppendIsConcat

\* The oldest byte of the second part may as well be the last of the first.
LEMMA MoveHead ==
    ASSUME NEW S, NEW g \in Seq(S), NEW q \in Seq(S), q # <<>>
    PROVE  Append(g, Head(q)) \o Tail(q) = g \o q
<1>1. Head(q) \in S /\ Tail(q) \in Seq(S) /\ Len(q) \in Nat \ {0}
  BY HeadTailProperties, EmptySeq
<1>2. <<Head(q)>> \in Seq(S) BY <1>1
<1>3. q = <<Head(q)>> \o Tail(q)
  <2>1. 1 \in 1 .. Len(q) /\ Len(q) \in 1 .. Len(q) BY <1>1
  <2>2. SubSeq(q, 1, Len(q)) = <<q[1]>> \o SubSeq(q, 1 + 1, Len(q))
    BY <2>1, SubSeqRecursiveFirst
  <2>3. SubSeq(q, 1, Len(q)) = q BY SubSeqFull
  <2>4. Tail(q) = SubSeq(q, 2, Len(q)) BY TailIsSubSeq
  <2>5. Head(q) = q[1] /\ 1 + 1 = 2 OBVIOUS
  <2> QED BY <2>2, <2>3, <2>4, <2>5
<1>4. (g \o <<Head(q)>>) \o Tail(q) = g \o (<<Head(q)>> \o Tail(q))
  BY <1>1, <1>2, ConcatAssociative
<1>5. Append(g, Head(q)) = g \o <<Head(q)>> BY <1>1, AppendIsConcat
<1> QED BY <1>3, <1>4, <1>5

-----------------------------------------------------------------------------
(* The rings.                                                                  *)

\* A ring is one of those RingArithmetic is about.
LEMMA HostRing ==
    ASSUME H!HostConstants, NEW q, RingOK(q)
    PROVE  /\ IsRing(UART_CAP, CounterMod, Byte, q.buf, q.read, q.write)
           /\ H!Count(q) = Filled(q.read, q.write, CounterMod)
           /\ H!Waiting(q) = Queued(q.buf, q.read, q.write, UART_CAP, CounterMod)
           /\ H!Waiting(q) \in Seq(Byte) /\ H!Count(q) \in Nat
           /\ H!Count(q) = 0 <=> q.read = q.write
<1>1. IsRing(UART_CAP, CounterMod, Byte, q.buf, q.read, q.write)
  BY DEF H!HostConstants, RingOK, IsRing
<1>2. H!Count(q) = Filled(q.read, q.write, CounterMod) BY DEF H!Count, Filled
<1>3. H!Waiting(q) = Queued(q.buf, q.read, q.write, UART_CAP, CounterMod)
  BY <1>2 DEF H!Waiting, Queued
<1>4. H!Waiting(q) \in Seq(Byte) /\ H!Count(q) \in Nat BY <1>1, <1>2, <1>3, QueuedType
<1>5. H!Count(q) = 0 <=> q.read = q.write
  BY <1>1, <1>2, RingCounts
<1> QED BY <1>1, <1>2, <1>3, <1>4, <1>5

\* A byte that fits goes to the end (rv_input(), physical_write()).
LEMMA HostPush ==
    ASSUME H!HostConstants, NEW q, RingOK(q), H!HasRoom(q), NEW b \in Byte
    PROVE  RingOK(H!Push(q, b)) /\ H!Waiting(H!Push(q, b)) = Append(H!Waiting(q), b)
<1> DEFINE N == UART_CAP
           W == CounterMod
           p == H!Push(q, b)
<1>0. /\ N \in Nat \ {0} /\ W \in Nat \ {0} /\ N < W /\ W % N = 0
      /\ q.buf \in [0 .. N - 1 -> Byte] /\ q.read \in 0 .. W - 1 /\ q.write \in 0 .. W - 1
  BY DEF H!HostConstants, RingOK
<1>1. /\ IsRing(N, W, Byte, q.buf, q.read, q.write) /\ H!Count(q) \in Nat
      /\ H!Count(q) = Filled(q.read, q.write, W)
      /\ H!Waiting(q) = Queued(q.buf, q.read, q.write, N, W)
  BY HostRing
<1>2. /\ p.buf = [q.buf EXCEPT ![q.write % N] = b]
      /\ p.read = q.read /\ p.write = (q.write + 1) % W
      /\ p = [buf |-> p.buf, read |-> p.read, write |-> p.write]
  BY DEF H!Push
<1>3. q.write % N \in 0 .. N - 1 /\ p.write \in 0 .. W - 1 BY <1>0, <1>2
<1> HIDE DEF p
<1>4. p \in [buf : [0 .. N - 1 -> Byte], read : 0 .. W - 1, write : 0 .. W - 1]
  <2>1. p.buf \in [0 .. N - 1 -> Byte] BY <1>0, <1>2, <1>3
  <2> QED BY <1>0, <1>2, <1>3, <2>1
<1>5. Filled(q.read, q.write, W) < N BY <1>1 DEF H!HasRoom
<1>6. Filled(q.read, p.write, W) = Filled(q.read, q.write, W) + 1
  BY <1>1, <1>2, <1>5, RingCounts
<1>7. H!Count(p) = H!Count(q) + 1 BY <1>1, <1>2, <1>6 DEF H!Count, Filled
<1>8. RingOK(p)
  <2>1. H!Count(p) <= N BY <1>0, <1>1, <1>7 DEF H!HasRoom
  <2> QED BY <1>4, <2>1 DEF RingOK
<1>9. Queued(p.buf, p.read, p.write, N, W) = Append(H!Waiting(q), b)
  <2>1. Queued(Stored(q.buf, q.write, N, b), q.read, (q.write + 1) % W, N, W)
          = Append(Queued(q.buf, q.read, q.write, N, W), b)
    BY <1>1, <1>5, RingPush
  <2> QED BY <1>1, <1>2, <2>1 DEF Stored
<1>10. H!Waiting(p) = Queued(p.buf, p.read, p.write, N, W) BY <1>8, HostRing
<1> QED BY <1>8, <1>9, <1>10 DEF p

\* The oldest byte is the one taken (physical_read(), rv_output()).
LEMMA HostPop ==
    ASSUME H!HostConstants, NEW q, RingOK(q), H!Count(q) # 0
    PROVE  /\ RingOK(H!Popped(q)) /\ H!Waiting(q) # <<>>
           /\ H!Oldest(q) = Head(H!Waiting(q)) /\ H!Oldest(q) \in Byte
           /\ H!Waiting(H!Popped(q)) = Tail(H!Waiting(q))
<1> DEFINE N == UART_CAP
           W == CounterMod
           p == H!Popped(q)
<1>0. /\ N \in Nat \ {0} /\ W \in Nat \ {0} /\ N < W /\ W % N = 0
      /\ q.buf \in [0 .. N - 1 -> Byte] /\ q.read \in 0 .. W - 1 /\ q.write \in 0 .. W - 1
  BY DEF H!HostConstants, RingOK
<1>1. /\ IsRing(N, W, Byte, q.buf, q.read, q.write) /\ H!Count(q) \in Nat /\ q.read # q.write
      /\ H!Count(q) = Filled(q.read, q.write, W)
      /\ H!Waiting(q) = Queued(q.buf, q.read, q.write, N, W) /\ H!Waiting(q) \in Seq(Byte)
  BY HostRing
<1>2. /\ p.buf = q.buf /\ p.read = (q.read + 1) % W /\ p.write = q.write
      /\ p = [buf |-> p.buf, read |-> p.read, write |-> p.write]
  BY DEF H!Popped, RingOK
<1>3. p.read \in 0 .. W - 1 BY <1>0, <1>2
<1> HIDE DEF p
<1>4. p \in [buf : [0 .. N - 1 -> Byte], read : 0 .. W - 1, write : 0 .. W - 1]
  BY <1>0, <1>2, <1>3
<1>5. H!Count(p) = H!Count(q) - 1
  <2>1. Filled((q.read + 1) % W, q.write, W) = Filled(q.read, q.write, W) - 1
    BY <1>1, RingCounts
  <2> QED BY <1>1, <1>2, <2>1 DEF H!Count, Filled
<1>6. RingOK(p)
  <2>1. H!Count(p) <= N BY <1>0, <1>1, <1>5 DEF RingOK
  <2> QED BY <1>4, <2>1 DEF RingOK
<1>7. /\ H!Waiting(q) # <<>> /\ H!Oldest(q) = Head(H!Waiting(q))
      /\ Queued(p.buf, p.read, p.write, N, W) = Tail(H!Waiting(q))
  BY <1>1, <1>2, RingPop DEF H!Oldest
<1>8. H!Waiting(p) = Queued(p.buf, p.read, p.write, N, W) BY <1>6, HostRing
<1>9. Head(H!Waiting(q)) \in Byte BY <1>1, <1>7, HeadTailProperties
<1> QED BY <1>6, <1>7, <1>8, <1>9 DEF p

\* At reset both are empty.
LEMMA NoRingOK == ASSUME H!HostConstants PROVE RingOK(H!NoRing) /\ H!Waiting(H!NoRing) = <<>>
<1>1. /\ UART_CAP \in Nat \ {0} /\ CounterMod \in Nat \ {0} BY DEF H!HostConstants
<1>2. H!NoRing.read = 0 /\ H!NoRing.write = 0 BY DEF H!NoRing
<1>3. 0 \in 0 .. CounterMod - 1 BY <1>1
<1>4. Filled(0, 0, CounterMod) = 0 BY <1>1, <1>3, FilledSteps
<1>5. H!Count(H!NoRing) = 0 BY <1>2, <1>4 DEF H!Count, Filled
<1>6. H!NoRing \in [buf : [0 .. UART_CAP - 1 -> Byte], read : 0 .. CounterMod - 1,
                  write : 0 .. CounterMod - 1]
  BY <1>3 DEF H!NoRing, Byte
<1>7. RingOK(H!NoRing) BY <1>1, <1>5, <1>6 DEF RingOK
<1>8. H!Waiting(H!NoRing) = Queued(H!NoRing.buf, 0, 0, UART_CAP, CounterMod)
      /\ IsRing(UART_CAP, CounterMod, Byte, H!NoRing.buf, 0, 0)
  BY <1>2, <1>7, HostRing
<1>9. H!Waiting(H!NoRing) \in Seq(Byte) /\ Len(H!Waiting(H!NoRing)) = 0
  BY <1>4, <1>8, QueuedType
<1> QED BY <1>7, <1>9, EmptySeq

-----------------------------------------------------------------------------
(* The steps of the UART.                                                      *)

\* Bytes that the host types and the guest prints.
LEMMA ByteType == ASSUME NEW q \in Seq(Byte) PROVE H!NextByte(q) \in Byte
<1>1. Len(q) \in Nat OBVIOUS
<1>2. Len(q) % 3 \in 0 .. 2 BY <1>1
<1> QED BY <1>2 DEF H!NextByte, Byte

\* What is taken in is behind everything that was.
LEMMA Received ==
    ASSUME H!HostConstants, NEW q, RingOK(q), H!HasRoom(q), NEW b \in Byte,
           NEW g \in Seq(Byte), NEW a \in Seq(Byte), g \o H!Waiting(q) = a
    PROVE  RingOK(H!Push(q, b)) /\ g \o H!Waiting(H!Push(q, b)) = Append(a, b) /\ Append(a, b) \in Seq(Byte)
<1>1. H!Waiting(q) \in Seq(Byte) BY HostRing
<1>2. RingOK(H!Push(q, b)) /\ H!Waiting(H!Push(q, b)) = Append(H!Waiting(q), b) BY HostPush
<1>3. g \o Append(H!Waiting(q), b) = Append(a, b) BY <1>1, AppendSecond
<1>4. Append(a, b) \in Seq(Byte) BY AppendProperties
<1> QED BY <1>2, <1>3, <1>4

\* What is taken out is the next.
LEMMA Delivered ==
    ASSUME H!HostConstants, NEW q, RingOK(q), H!Count(q) # 0,
           NEW g \in Seq(Byte), NEW a \in Seq(Byte), g \o H!Waiting(q) = a
    PROVE  /\ RingOK(H!Popped(q)) /\ Append(g, H!Oldest(q)) \in Seq(Byte)
           /\ Append(g, H!Oldest(q)) \o H!Waiting(H!Popped(q)) = a
<1>1. H!Waiting(q) \in Seq(Byte) BY HostRing
<1>2. /\ RingOK(H!Popped(q)) /\ H!Waiting(q) # <<>>
      /\ H!Oldest(q) = Head(H!Waiting(q)) /\ H!Oldest(q) \in Byte
      /\ H!Waiting(H!Popped(q)) = Tail(H!Waiting(q))
  BY HostPop
<1>3. Append(g, Head(H!Waiting(q))) \o Tail(H!Waiting(q)) = g \o H!Waiting(q)
  BY <1>1, <1>2, MoveHead
<1>4. Append(g, H!Oldest(q)) \in Seq(Byte) BY <1>2, AppendProperties
<1> QED BY <1>2, <1>3, <1>4

\* Steps that leave the UART alone.
LEMMA UartIdle == ASSUME UartOK, UNCHANGED H!uart PROVE UartOK'
<1>1. rx' = rx /\ tx' = tx /\ accepted' = accepted /\ got' = got
      /\ printed' = printed /\ shown' = shown
  BY DEF H!uart
<1> QED BY <1>1 DEF UartOK, H!RingsAreQueues

\* rv_input
LEMMA InputOK == ASSUME H!HostConstants, UartOK, H!Input PROVE UartOK'
<1>1. H!NextByte(accepted) \in Byte BY ByteType DEF UartOK
<1>2. CASE H!HasRoom(rx)
  <2>1. rx' = H!Push(rx, H!NextByte(accepted)) /\ accepted' = Append(accepted, H!NextByte(accepted))
        /\ UNCHANGED <<tx, got, printed, shown>>
    BY <1>2 DEF H!Input
  <2>2. RingOK(rx') /\ got \o H!Waiting(rx') = accepted' /\ accepted' \in Seq(Byte)
    <3> DEFINE b == H!NextByte(accepted)
    <3>1. RingOK(rx) /\ got \o H!Waiting(rx) = accepted /\ accepted \in Seq(Byte) /\ got \in Seq(Byte)
      BY DEF UartOK, H!RingsAreQueues
    <3>2. b \in Byte BY <1>1
    <3> HIDE DEF b
    <3>3. RingOK(H!Push(rx, b)) /\ got \o H!Waiting(H!Push(rx, b)) = Append(accepted, b)
          /\ Append(accepted, b) \in Seq(Byte)
      BY <1>2, <3>1, <3>2, Received
    <3> QED BY <2>1, <3>3 DEF b
  <2> QED BY <2>1, <2>2 DEF UartOK, H!RingsAreQueues
<1>3. CASE ~H!HasRoom(rx)
  BY <1>3, UartIdle DEF H!Input, H!uart
<1> QED BY <1>2, <1>3

\* serial_putc
LEMMA GuestPrintsOK == ASSUME H!HostConstants, UartOK, H!GuestPrints PROVE UartOK'
<1>1. H!NextByte(printed) \in Byte BY ByteType DEF UartOK
<1>2. CASE H!HasRoom(tx)
  <2>1. tx' = H!Push(tx, H!NextByte(printed)) /\ printed' = Append(printed, H!NextByte(printed))
        /\ UNCHANGED <<rx, accepted, got, shown>>
    BY <1>2 DEF H!GuestPrints
  <2>2. RingOK(tx') /\ shown \o H!Waiting(tx') = printed' /\ printed' \in Seq(Byte)
    <3> DEFINE b == H!NextByte(printed)
    <3>1. RingOK(tx) /\ shown \o H!Waiting(tx) = printed /\ printed \in Seq(Byte) /\ shown \in Seq(Byte)
      BY DEF UartOK, H!RingsAreQueues
    <3>2. b \in Byte BY <1>1
    <3> HIDE DEF b
    <3>3. RingOK(H!Push(tx, b)) /\ shown \o H!Waiting(H!Push(tx, b)) = Append(printed, b)
          /\ Append(printed, b) \in Seq(Byte)
      BY <1>2, <3>1, <3>2, Received
    <3> QED BY <2>1, <3>3 DEF b
  <2> QED BY <2>1, <2>2 DEF UartOK, H!RingsAreQueues
<1>3. CASE ~H!HasRoom(tx)
  BY <1>3, UartIdle DEF H!GuestPrints, H!uart
<1> QED BY <1>2, <1>3

\* serial_getc
LEMMA GuestReadsOK == ASSUME H!HostConstants, UartOK, H!GuestReads PROVE UartOK'
<1>1. rx' = H!Popped(rx) /\ got' = Append(got, H!Oldest(rx)) /\ H!Count(rx) # 0
      /\ UNCHANGED <<tx, accepted, printed, shown>>
  BY DEF H!GuestReads
<1>2. RingOK(rx') /\ got' \in Seq(Byte) /\ got' \o H!Waiting(rx') = accepted
  BY <1>1, Delivered DEF UartOK, H!RingsAreQueues
<1> QED BY <1>1, <1>2 DEF UartOK, H!RingsAreQueues

\* rv_output
LEMMA OutputOK == ASSUME H!HostConstants, UartOK, H!Output PROVE UartOK'
<1>1. tx' = H!Popped(tx) /\ shown' = Append(shown, H!Oldest(tx)) /\ H!Count(tx) # 0
      /\ UNCHANGED <<rx, accepted, got, printed>>
  BY DEF H!Output
<1>2. RingOK(tx') /\ shown' \in Seq(Byte) /\ shown' \o H!Waiting(tx') = printed
  BY <1>1, Delivered DEF UartOK, H!RingsAreQueues
<1> QED BY <1>1, <1>2 DEF UartOK, H!RingsAreQueues

\* Every step.
LEMMA UartStep == ASSUME H!HostConstants, UartOK, [H!Next]_(H!vars) PROVE UartOK'
<1>1. CASE UNCHANGED H!uart BY <1>1, UartIdle
<1>2. CASE H!Input BY <1>2, InputOK
<1>3. CASE H!GuestPrints BY <1>3, GuestPrintsOK
<1>4. CASE H!GuestReads BY <1>4, GuestReadsOK
<1>5. CASE H!Output BY <1>5, OutputOK
<1> QED BY <1>1, <1>2, <1>3, <1>4, <1>5
        DEF H!Next, H!vars, H!GuestAsks, H!GuestPolls, H!GuestTakes, H!Answers, H!Fails, H!ChunkStarts, H!ChunkEnds

\* At reset.
LEMMA UartInit == ASSUME H!HostConstants, H!Init PROVE UartOK
<1>1. RingOK(H!NoRing) /\ H!Waiting(H!NoRing) = <<>> BY NoRingOK
<1>2. <<>> \in Seq(Byte) /\ <<>> \o <<>> = <<>> BY EmptySeq, ConcatEmptySeq
<1> QED BY <1>1, <1>2 DEF H!Init, UartOK, H!RingsAreQueues

-----------------------------------------------------------------------------
\* For every ring size, and every range of the counters that it divides, the
\* reader gets exactly the bytes that the device took, in order, whatever the
\* fill level and across the wrap of the counters (physical_read(),
\* physical_write(), rv_input(), rv_output()).
THEOREM RingsSafe == MCSpec => []RingsAreQueues
<1> DEFINE Here == part = "host"
<1>1. MCInit /\ Here => UartOK
  BY HostConstants, UartInit DEF MCInit
<1>2. UartOK /\ Here /\ [MCNext]_mcVars => UartOK' /\ Here'
  BY HostConstants, UartStep
     DEF MCNext, TrapsStep, mcVars, hostVars, H!vars, H!uart, H!fetchVars
<1>3. ~Here /\ [MCNext]_mcVars => ~Here'
  BY DEF MCNext, TrapsStep, mcVars
<1>4. (Here => UartOK) => RingsAreQueues
  BY DEF RingsAreQueues, UartOK
<1> HIDE DEF Here
<1> QED BY <1>1, <1>2, <1>3, <1>4, PTL DEF MCSpec

-----------------------------------------------------------------------------
(* The steps of the fetch device.                                              *)

\* The one flight lands, and none is left.
LEMMA LastLands == ASSUME NEW u, NEW i \in DOMAIN <<u>> PROVE i = 1 /\ H!RemoveAt(<<u>>, i) = <<>>
<1>1. i = 1 OBVIOUS
<1>2. SubSeq(<<u>>, 1, 0) = <<>> /\ SubSeq(<<u>>, 2, 1) = <<>> BY SubSeqEmpty
<1>3. <<>> \o <<>> = <<>> BY EmptySeq, ConcatEmptySeq
<1>4. H!RemoveAt(<<u>>, 1) = SubSeq(<<u>>, 1, 0) \o SubSeq(<<u>>, 2, 1)
  BY DEF H!RemoveAt
<1> QED BY <1>1, <1>2, <1>3, <1>4

\* Steps that leave it alone.
LEMMA FetchIdle == ASSUME FetchOK, UNCHANGED H!fetchVars PROVE FetchOK'
<1>1. dev' = dev /\ guest' = guest /\ worker' = worker BY DEF H!fetchVars
<1> QED BY <1>1 DEF FetchOK, H!FetchAnswersOwn

\* sys_ouro_fetch, the command.
LEMMA GuestAsksOK == ASSUME FetchOK, NEW u \in Urls, H!GuestAsks(u) PROVE FetchOK'
<1>1. ~worker.fetching /\ worker' = worker
  BY DEF FetchOK, H!GuestAsks
<1>2. /\ dev' \in [status : {0, 1, 2, 3}, url : Urls \cup {H!NoUrl}, length : {0},
                   buffer : Urls \cup {H!NoUrl}]
      /\ dev'.status = 1 /\ dev'.url = u
  BY DEF FetchOK, H!GuestAsks
<1>3. /\ guest' \in [at : {"idle", "poll"}, url : Urls \cup {H!NoUrl}, left : Nat,
                     result : Urls \cup {H!NoUrl, "error"}]
      /\ guest'.at = "poll" /\ guest'.url = u
  <2>1. guest' = [at |-> "poll", url |-> u, left |-> guest.left - 1, result |-> H!NoUrl]
    BY DEF FetchOK, H!GuestAsks
  <2>2. guest.left - 1 \in Nat BY DEF FetchOK, H!GuestAsks
  <2> QED BY <2>1, <2>2
<1> QED BY <1>1, <1>2, <1>3 DEF FetchOK, H!FetchAnswersOwn

\* sys_ouro_fetch, the answer.
LEMMA GuestTakesOK == ASSUME FetchOK, H!GuestTakes PROVE FetchOK'
<1>1. \E x : /\ guest' = [guest EXCEPT !.at = "idle", !.result = x]
             /\ (x = dev.buffer /\ dev.status = 2) \/ x = "error"
  <2>1. PICK stored \in BOOLEAN :
           guest' = [guest EXCEPT !.at = "idle",
                       !.result = IF dev.status = 2 /\ stored THEN dev.buffer ELSE "error"]
    BY DEF H!GuestTakes
  <2>2. CASE dev.status = 2 /\ stored BY <2>1, <2>2
  <2>3. CASE ~(dev.status = 2 /\ stored) BY <2>1, <2>3
  <2> QED BY <2>2, <2>3
<1>2. ~worker.fetching /\ worker' = worker
  BY DEF FetchOK, H!GuestTakes
<1>3. /\ dev' \in [status : {0, 1, 2, 3}, url : Urls \cup {H!NoUrl}, length : {0},
                   buffer : Urls \cup {H!NoUrl}]
      /\ dev'.status = 0
  BY DEF FetchOK, H!GuestTakes
<1>4. dev.status = 2 => dev.buffer = guest.url
  BY DEF FetchOK, H!GuestTakes
<1>5. /\ guest' \in [at : {"idle", "poll"}, url : Urls \cup {H!NoUrl}, left : Nat,
                     result : Urls \cup {H!NoUrl, "error"}]
      /\ guest'.at = "idle" /\ guest'.result \in {guest'.url, "error"}
  <2>1. PICK x : /\ guest' = [guest EXCEPT !.at = "idle", !.result = x]
                 /\ (x = dev.buffer /\ dev.status = 2) \/ x = "error"
    BY <1>1
  <2>2. guest' = [at |-> "idle", url |-> guest.url, left |-> guest.left, result |-> x]
    BY <2>1 DEF FetchOK
  <2>3. x \in {guest.url, "error"} /\ x \in Urls \cup {H!NoUrl, "error"}
    BY <1>4, <2>1 DEF FetchOK
  <2>4. guest.url \in Urls \cup {H!NoUrl} /\ guest.left \in Nat BY DEF FetchOK
  <2> QED BY <2>2, <2>3, <2>4
<1> QED BY <1>2, <1>3, <1>5 DEF FetchOK, H!FetchAnswersOwn

\* The page's answer, or its failure.
LEMMA LandsOK ==
    ASSUME FetchOK, H!Answers \/ H!Fails
    PROVE  FetchOK'
<1>1. PICK i \in DOMAIN worker.flights :
         /\ worker' = H!Landed(i)
         /\ \/ dev' = [dev EXCEPT !.buffer = worker.flights[i], !.status = 2]
            \/ dev' = [dev EXCEPT !.status = 3]
  BY DEF H!Answers, H!Fails, H!Failed
<1>2. worker.fetching /\ worker.flights = <<guest.url>> /\ dev.status = 1
  BY <1>1 DEF FetchOK
<1>3. i = 1 /\ H!RemoveAt(worker.flights, i) = <<>> BY <1>1, <1>2, LastLands
<1>4. worker.flights[i] = guest.url BY <1>2, <1>3
<1>5. worker' = [fetching |-> FALSE, flights |-> <<>>] BY <1>1, <1>3 DEF H!Landed
<1>6. /\ dev' \in [status : {0, 1, 2, 3}, url : Urls \cup {H!NoUrl}, length : {0},
                   buffer : Urls \cup {H!NoUrl}]
      /\ dev'.status \in {2, 3} /\ (dev'.status = 2 => dev'.buffer = guest.url)
  <2>1. CASE dev' = [dev EXCEPT !.buffer = worker.flights[i], !.status = 2]
    <3>1. dev' = [status |-> 2, url |-> dev.url, length |-> dev.length, buffer |-> guest.url]
      BY <1>4, <2>1 DEF FetchOK
    <3>2. guest.url \in Urls \cup {H!NoUrl} /\ dev.url \in Urls \cup {H!NoUrl} /\ dev.length = 0
      BY DEF FetchOK
    <3> QED BY <3>1, <3>2
  <2>2. CASE dev' = [dev EXCEPT !.status = 3]
    BY <2>2 DEF FetchOK
  <2> QED BY <1>1, <2>1, <2>2
<1>7. guest' = guest BY DEF H!Answers, H!Fails
<1> QED BY <1>2, <1>5, <1>6, <1>7 DEF FetchOK, H!FetchAnswersOwn

\* serviceFetch after a chunk.
LEMMA ServiceOK == ASSUME FetchOK, H!Service, UNCHANGED <<dev, guest>> PROVE FetchOK'
<1>1. CASE H!MayService
  <2>1. worker.flights = <<>> /\ dev.status = 1 /\ dev.url = guest.url
    BY <1>1 DEF FetchOK, H!MayService
  <2>2. Append(<<>>, dev.url) = <<dev.url>> OBVIOUS
  <2>3. worker' = [fetching |-> TRUE, flights |-> <<guest.url>>]
    BY <1>1, <2>1, <2>2 DEF H!Service
  <2>4. guest.url \in Urls \cup {H!NoUrl} BY DEF FetchOK
  <2> QED BY <2>1, <2>3, <2>4 DEF FetchOK, H!FetchAnswersOwn
<1>2. CASE ~H!MayService
  BY <1>2, FetchIdle DEF H!Service, H!fetchVars
<1> QED BY <1>1, <1>2

\* Every step.
LEMMA FetchStep == ASSUME FetchOK, [H!Next]_(H!vars) PROVE FetchOK'
<1>1. CASE UNCHANGED H!fetchVars BY <1>1, FetchIdle
<1>2. ASSUME NEW u \in Urls, H!GuestAsks(u) PROVE FetchOK' BY <1>2, GuestAsksOK
<1>3. CASE H!GuestTakes BY <1>3, GuestTakesOK
<1>4. CASE H!Answers \/ H!Fails BY <1>4, LandsOK
<1>5. CASE H!ChunkEnds BY <1>5, ServiceOK DEF H!ChunkEnds
<1> QED BY <1>1, <1>2, <1>3, <1>4, <1>5
        DEF H!Next, H!vars, H!Input, H!GuestPrints, H!GuestReads, H!Output, H!GuestPolls, H!ChunkStarts

\* At reset.
LEMMA FetchInit == ASSUME H!HostConstants, H!Init PROVE FetchOK
BY DEF H!HostConstants, H!Init, FetchOK, H!FetchAnswersOwn

\* Whatever the number of URLs and of fetches, a process gets the answer to its
\* own request or an error: the page has one fetch under way at most, and only
\* while the process that asked for it still polls (sys_ouro_fetch(),
\* serviceFetch(), rv_fetch_complete()).
THEOREM FetchSafe == MCSpec => []FetchAnswersOwn
<1> DEFINE Here == part = "host"
<1>1. MCInit /\ Here => FetchOK
  BY HostConstants, FetchInit DEF MCInit
<1>2. FetchOK /\ Here /\ [MCNext]_mcVars => FetchOK' /\ Here'
  BY FetchStep DEF MCNext, TrapsStep, mcVars, hostVars, H!vars, H!uart, H!fetchVars
<1>3. ~Here /\ [MCNext]_mcVars => ~Here'
  BY DEF MCNext, TrapsStep, mcVars
<1>4. (Here => FetchOK) => FetchAnswersOwn
  BY DEF FetchAnswersOwn, FetchOK
<1> HIDE DEF Here
<1> QED BY <1>1, <1>2, <1>3, <1>4, PTL DEF MCSpec

-----------------------------------------------------------------------------
(* TRAPS.  The invariant follows the registers of the interrupted context from *)
(* the hart to the frame and back, label by label: TrapsOK says at each label  *)
(* where they are and that the return from there leads to their owner.         *)
(* TimerOK relates the countdown to the time left and to what is left of the   *)
(* batch.                                                                      *)

-----------------------------------------------------------------------------
(* Labels and types.                                                           *)

\* Where the tasks run, where interrupts are on, the boot before and after, and
\* the trap path: with the return state in the frame, or still or again in the
\* hart.
TaskLabels == {"task_check", "task_wfi", "task_count", "task_yield"}
OpenLabels == TaskLabels \cup {"td_read", "td_write"}
StartLabels == {"boot", "ebreak", "booted", "ti_read", "ti_arm", "ti_stie", "ti_sie"}
BootLabels == StartLabels \cup {"enter_usermode", "eu_sret", "create"}
FrameLabels == {"dispatch", "irq_read", "irq_arm", "irq_tick", "syscall", "ret_sepc", "ret_status"}
TrapLabels == FrameLabels \cup {"entry_regs", "entry_csrs", "ret_regs", "ret_sret"}
Labels == OpenLabels \cup BootLabels \cup TrapLabels
            \cup {"switch", "trampoline", "resume", "user", "halt", "none"}
Causes == {"none", "timer", "ebreak", "ecall", "pagefault"}

\* The globals and the locals of rv_run().
Cpu == [ticks : Nat, timecmp : Int, timerSteps : Nat, tickStep : Nat,
        halted : BOOLEAN, priv : {"S", "U"}, sie : BOOLEAN, spie : BOOLEAN,
        spp : BOOLEAN, stie : BOOLEAN, stip : BOOLEAN,
        seen : Int, pc : Labels, sepc : Labels, cause : Causes]
Loop == [on : BOOLEAN, left : 0 .. StepMax - 1, now : Nat, until : Nat, stopped : BOOLEAN,
         here : Labels]
HartOK == cpu \in Cpu /\ loop \in Loop

\* The program counter, in whichever variable it is.
Pc == IF loop.on THEN loop.here ELSE cpu.pc

\* The registers that decide where a trap came from and returns to.
SameTrap(c, d) ==
    /\ c.priv = d.priv /\ c.sie = d.sie /\ c.spie = d.spie /\ c.spp = d.spp
    /\ c.sepc = d.sepc /\ c.cause = d.cause

\* The head of an iteration: one instruction fewer, the time moved on, the
\* countdown one lower (rv_run()).
LEMMA TickedOK ==
    ASSUME T!TrapsConstants, HartOK, T!InBatch
    PROVE  /\ T!Ticked \in Loop /\ T!Ticked.on = loop.on /\ T!Ticked.here = loop.here
           /\ T!Ticked.now = T!Now /\ T!Ticked.left = loop.left - 1
           /\ T!Ticked.until = IF loop.until > 1 THEN loop.until - 1 ELSE loop.until
           /\ T!Now \in Nat
<1>1. /\ loop.left \in 0 .. StepMax - 1 /\ loop.left > 0 /\ StepMax \in Nat /\ loop.until \in Nat
      /\ loop.now \in Nat /\ cpu.tickStep \in Nat
  BY DEF HartOK, T!InBatch, Loop, Cpu, T!TrapsConstants
<1> DEFINE u == IF loop.until > 1 THEN loop.until - 1 ELSE loop.until
           k == loop.left - 1
<1>2. u \in Nat /\ k \in 0 .. StepMax - 1 /\ T!Now \in Nat BY <1>1 DEF T!Now
<1>3. T!Ticked = [loop EXCEPT !.left = k, !.now = T!Now, !.until = u]
  BY DEF T!Ticked
<1> HIDE DEF u, k
<1>4. T!Ticked \in Loop /\ T!Ticked.on = loop.on /\ T!Ticked.here = loop.here
      /\ T!Ticked.now = T!Now /\ T!Ticked.left = k /\ T!Ticked.until = u
  BY <1>2, <1>3 DEF HartOK, Loop
<1> QED BY <1>2, <1>4 DEF u, k

\* A due timer only sets the pending bit.
LEMMA PendingOK ==
    ASSUME HartOK
    PROVE  /\ T!Pending(cpu) \in Cpu /\ SameTrap(T!Pending(cpu), cpu)
           /\ T!Pending(cpu).timecmp = cpu.timecmp /\ T!Pending(cpu).tickStep = cpu.tickStep
           /\ T!Pending(cpu).pc = cpu.pc
BY DEF HartOK, T!Pending, Cpu, T!Due, SameTrap

\* The globals as rv_run() writes them back before a SYSTEM instruction.
LEMMA SyncedOK ==
    ASSUME T!TrapsConstants, HartOK, T!InBatch
    PROVE  /\ T!Synced \in Cpu /\ SameTrap(T!Synced, cpu)
           /\ T!Synced.timecmp = cpu.timecmp /\ T!Synced.tickStep = cpu.tickStep
           /\ T!Synced.pc = loop.here /\ T!Synced.ticks = T!Now
           /\ T!Synced.timerSteps = T!Ticked.until
<1>1. T!Ticked.until \in Nat /\ T!Now \in Nat /\ loop.here \in Labels
  BY TickedOK DEF HartOK, Loop
<1>2. T!Pending(cpu) \in Cpu BY PendingOK
<1> QED BY <1>1, <1>2, PendingOK DEF T!Synced, Cpu, SameTrap

\* An instruction that is not of the SYSTEM opcode keeps the trap registers.
LEMMA PlainStep ==
    ASSUME T!TrapsConstants, HartOK, NEW l, NEW n \in Labels, T!Executes(l), T!Plain(n)
    PROVE  /\ HartOK' /\ Pc = l /\ Pc' = n /\ SameTrap(cpu', cpu)
           /\ cpu'.timecmp = cpu.timecmp /\ cpu'.tickStep = cpu.tickStep
<1>1. T!InBatch /\ loop.on /\ loop.here = l BY DEF T!Executes, T!InBatch
<1>2. loop' \in Loop /\ loop'.on = loop.on /\ loop'.here = n
  BY <1>1, TickedOK DEF T!Plain, Loop
<1> QED BY <1>1, <1>2, PendingOK DEF T!Plain, HartOK, Pc

\* A SYSTEM instruction leaves the registers it computes and its own target.
LEMMA SystemStep ==
    ASSUME T!TrapsConstants, HartOK, NEW l, NEW c \in Cpu, T!Executes(l), T!System(c)
    PROVE  /\ HartOK' /\ Pc = l /\ Pc' = c.pc /\ cpu' = c
<1>1. T!InBatch /\ loop.on /\ loop.here = l BY DEF T!Executes, T!InBatch
<1>2. loop' \in Loop /\ loop'.on = loop.on /\ loop'.here = c.pc
  BY <1>1, TickedOK DEF T!System, Loop, Cpu
<1> QED BY <1>1, <1>2 DEF T!System, HartOK, Pc

-----------------------------------------------------------------------------
(* The instructions.                                                           *)

\* Rounding up: the least number of steps of s that covers d.
LEMMA RoundedUp ==
    ASSUME NEW d \in Nat \ {0}, NEW s \in Nat \ {0}
    PROVE  /\ T!CeilDiv(d, s) \in Nat \ {0}
           /\ T!CeilDiv(d, s) * s >= d /\ (T!CeilDiv(d, s) - 1) * s < d
<1> DEFINE a == (d + s) - 1
           k == a \div s
           r == a % s
<1>1. a \in Nat /\ a >= s OBVIOUS
<1> HIDE DEF a
<1>2. k \in Int /\ r \in 0 .. s - 1 BY <1>1
<1>3. a = s * k + r BY <1>1
<1>4. T!CeilDiv(d, s) = k
  <2>1. d + s - 1 = a BY DEF a
  <2> QED BY <2>1 DEF T!CeilDiv
<1> HIDE DEF k, r
<1>5. (k - 1) * s = k * s - s /\ k * s = s * k /\ k * s \in Int BY <1>2
<1>6. k * s > d - 1 /\ k * s - s < d BY <1>1, <1>2, <1>3, <1>5 DEF a
<1>7. k >= 1
  <2> SUFFICES ASSUME k <= 0 PROVE FALSE BY <1>2
  <2>1. k * s <= 0 BY <1>2
  <2> QED BY <2>1, <1>5, <1>6
<1> QED BY <1>2, <1>4, <1>5, <1>6, <1>7

\* csrw stimecmp: the countdown that belongs to the comparison value.
Countdown(c, v) ==
    IF v > c.ticks /\ c.tickStep # 0 THEN T!CeilDiv(v - c.ticks, c.tickStep)
    ELSE IF v # 0 THEN 1 ELSE 0

\* The countdown is a number.
LEMMA CountdownType == ASSUME NEW c \in Cpu, NEW v \in Int PROVE Countdown(c, v) \in Nat
<1>1. c.ticks \in Int /\ c.tickStep \in Nat BY DEF Cpu
<1>2. CASE v > c.ticks /\ c.tickStep # 0
  <2>1. v - c.ticks \in Nat \ {0} /\ c.tickStep \in Nat \ {0} BY <1>1, <1>2
  <2> QED BY <1>2, <2>1, RoundedUp DEF Countdown
<1> QED BY <1>2 DEF Countdown

\* A write of stimecmp changes the timer and nothing of the trap registers.
LEMMA SetStimecmpOK ==
    ASSUME T!TrapsConstants, NEW c \in Cpu, NEW v \in Int
    PROVE  /\ T!SetStimecmp(c, v) \in Cpu /\ SameTrap(T!SetStimecmp(c, v), c)
           /\ T!SetStimecmp(c, v).timecmp = v /\ T!SetStimecmp(c, v).tickStep = c.tickStep
           /\ T!SetStimecmp(c, v).timerSteps = T!Smaller(Countdown(c, v), StepMax)
           /\ T!SetStimecmp(c, v).ticks = c.ticks /\ T!SetStimecmp(c, v).pc = c.pc
           /\ T!SetStimecmp(c, v).halted = c.halted
<1> DEFINE n == T!Smaller(Countdown(c, v), StepMax)
           b == c.stip /\ v # 0 /\ c.ticks >= v
<1>1. n \in Nat BY CountdownType DEF T!Smaller, T!TrapsConstants
<1>2. T!SetStimecmp(c, v) = [c EXCEPT !.timecmp = v, !.stip = b, !.timerSteps = n]
  BY DEF T!SetStimecmp, Countdown
<1>3. b \in BOOLEAN OBVIOUS
<1> DEFINE d == T!SetStimecmp(c, v)
<1> HIDE DEF n, b
<1>4. d \in Cpu BY <1>1, <1>2, <1>3 DEF Cpu
<1>5. d.timecmp = v /\ d.timerSteps = n BY <1>2 DEF Cpu
<1>6. SameTrap(d, c) BY <1>2 DEF Cpu, SameTrap
<1>7. d.tickStep = c.tickStep /\ d.ticks = c.ticks /\ d.pc = c.pc /\ d.halted = c.halted
  BY <1>2 DEF Cpu
<1> QED BY <1>4, <1>5, <1>6, <1>7 DEF n

\* The new origin of time.
LEMMA RebasedOK ==
    ASSUME NEW c \in Cpu
    PROVE  /\ T!Rebased(c) \in Cpu /\ SameTrap(T!Rebased(c), c) /\ T!Rebased(c).pc = c.pc
           /\ T!Rebased(c).ticks = 1 /\ T!Rebased(c).timerSteps = c.timerSteps
           /\ T!Rebased(c).timecmp = 0 <=> c.timecmp = 0
<1> DEFINE x == IF c.seen = 0 THEN 0 ELSE c.seen - c.ticks + 1
           y == IF c.timecmp = 0 THEN 0
                ELSE IF c.timecmp <= c.ticks THEN 1 ELSE c.timecmp - c.ticks + 1
<1>1. c.seen \in Int /\ c.ticks \in Int /\ c.timecmp \in Int BY DEF Cpu
<1>2. x \in Int /\ y \in Int /\ (y = 0 <=> c.timecmp = 0) BY <1>1
<1>3. T!Rebased(c) = [c EXCEPT !.ticks = 1, !.seen = x, !.timecmp = y] BY DEF T!Rebased, T!Epoch
<1> HIDE DEF x, y
<1>4. T!Rebased(c) \in Cpu
  <2> DEFINE a == [c EXCEPT !.ticks = 1]
             b == [a EXCEPT !.seen = x]
  <2>1. a \in Cpu BY DEF Cpu
  <2> HIDE DEF a
  <2>2. b \in Cpu BY <1>2, <2>1 DEF Cpu
  <2> HIDE DEF b
  <2>3. [b EXCEPT !.timecmp = y] \in Cpu BY <1>2, <2>2 DEF Cpu
  <2>4. T!Rebased(c) = [b EXCEPT !.timecmp = y] BY <1>3 DEF a, b
  <2> QED BY <2>3, <2>4
<1> QED BY <1>2, <1>3, <1>4 DEF Cpu, SameTrap

\* What a trap saves, and where it goes (trap()).
LEMMA TrapOK ==
    ASSUME NEW c \in Cpu, NEW x \in Causes
    PROVE  /\ T!Trap(c, x) \in Cpu
           /\ T!Trap(c, x).sepc = c.pc /\ T!Trap(c, x).cause = x
           /\ T!Trap(c, x).spp <=> c.priv = "S"
           /\ T!Trap(c, x).spie = c.sie /\ T!Trap(c, x).sie = FALSE
           /\ T!Trap(c, x).priv = "S" /\ T!Trap(c, x).pc = "entry_regs"
           /\ T!Trap(c, x).timecmp = c.timecmp /\ T!Trap(c, x).tickStep = c.tickStep
           /\ T!Trap(c, x).timerSteps = c.timerSteps /\ T!Trap(c, x).ticks = c.ticks
<1> DEFINE b == (c.priv = "S")
<1>1. b \in BOOLEAN /\ (b <=> c.priv = "S") OBVIOUS
<1>2. T!Trap(c, x) = [c EXCEPT !.sepc = c.pc, !.cause = x, !.spp = b, !.spie = c.sie, !.sie = FALSE,
                              !.priv = "S", !.pc = "entry_regs", !.halted = FALSE]
  BY DEF T!Trap
<1>3. "entry_regs" \in Labels BY DEF Labels, TrapLabels
<1> HIDE DEF b
<1>4. T!Trap(c, x) \in Cpu BY <1>1, <1>2, <1>3 DEF Cpu
<1>5. T!Trap(c, x).spp = b BY <1>2 DEF Cpu
<1>6. /\ T!Trap(c, x).sepc = c.pc /\ T!Trap(c, x).cause = x
      /\ T!Trap(c, x).spie = c.sie /\ T!Trap(c, x).sie = FALSE
      /\ T!Trap(c, x).priv = "S" /\ T!Trap(c, x).pc = "entry_regs"
      /\ T!Trap(c, x).timecmp = c.timecmp /\ T!Trap(c, x).tickStep = c.tickStep
      /\ T!Trap(c, x).timerSteps = c.timerSteps /\ T!Trap(c, x).ticks = c.ticks
  BY <1>2 DEF Cpu
<1>7. T!Trap(c, x).spp <=> c.priv = "S" BY <1>1, <1>5
<1> QED BY <1>4, <1>6, <1>7

\* A read of the time register changes the general register only.
LEMMA ReadTimeOK ==
    ASSUME NEW c \in Cpu, NEW l \in Labels
    PROVE  LET r == [T!ReadTime(c) EXCEPT !.pc = l]
           IN  /\ r \in Cpu /\ SameTrap(r, c) /\ r.pc = l
               /\ r.timecmp = c.timecmp /\ r.tickStep = c.tickStep /\ r.timerSteps = c.timerSteps
<1> DEFINE a == [c EXCEPT !.seen = c.ticks]
           r == [a EXCEPT !.pc = l]
<1>1. c.ticks \in Int BY DEF Cpu
<1>2. a \in Cpu BY <1>1 DEF Cpu
<1>3. SameTrap(a, c) /\ a.timecmp = c.timecmp /\ a.tickStep = c.tickStep /\ a.timerSteps = c.timerSteps
  BY DEF Cpu, SameTrap
<1> HIDE DEF a
<1>4. r \in Cpu BY <1>2 DEF Cpu
<1>5. SameTrap(r, a) /\ r.pc = l /\ r.timecmp = a.timecmp /\ r.tickStep = a.tickStep /\ r.timerSteps = a.timerSteps
  BY <1>2 DEF Cpu, SameTrap
<1>6. [T!ReadTime(c) EXCEPT !.pc = l] = r BY DEF T!ReadTime, a
<1> HIDE DEF r
<1> QED BY <1>3, <1>4, <1>5, <1>6 DEF SameTrap

\* What sret restores.
LEMMA SretOK ==
    ASSUME NEW c \in Cpu
    PROVE  /\ T!Sret(c) \in Cpu
           /\ T!Sret(c).priv = (IF c.spp THEN "S" ELSE "U") /\ T!Sret(c).sie = c.spie
           /\ T!Sret(c).pc = c.sepc
           /\ T!Sret(c).timecmp = c.timecmp /\ T!Sret(c).tickStep = c.tickStep
           /\ T!Sret(c).timerSteps = c.timerSteps /\ T!Sret(c).ticks = c.ticks
BY DEF T!Sret, Cpu

-----------------------------------------------------------------------------
(* What the trap path keeps.                                                   *)

\* The types of the kernel's state.
Regs == [who : Int, n : Int]
Frames == [regs : Regs, sepc : Labels, cause : Causes,
           status : [sie : BOOLEAN, spie : BOOLEAN, spp : BOOLEAN]]

KernelOK ==
    /\ regs \in Regs /\ tf \in Frames /\ userRegs \in [Procs -> Frames]
    /\ state \in [Procs -> {"unused", "runnable"}]
    /\ cont \in [Procs -> {"trampoline", "resume"}]
    /\ current \in Procs \cup {0} /\ want \in [Procs \cup {0} -> Int]
    /\ DOMAIN task = {"on", "cur", "last", "saved", "ticks", "switches"} /\ task.cur \in Int

\* Registers r are those the current context must find in user mode.
Own(r) == r = [who |-> current, n |-> want[current]]

\* A return to sepc with these bits and registers goes where it should: to a
\* task, with the interrupts on and its registers, to the boot, or to user mode
\* with the registers of the current context.
ReturnsTo(sepc, spie, spp, r) ==
    \/ /\ sepc \in OpenLabels /\ spie /\ spp /\ current = 0
       /\ sepc \in TaskLabels => r.who = T!Task(task.cur)
    \/ sepc \in {"ebreak", "booted"} /\ ~spie /\ spp /\ current = 0 /\ task.cur = 0
    \/ sepc = "user" /\ ~spie /\ ~spp /\ Own(r)

\* The breakpoint is the boot's, system calls and faults come from user mode.
CauseOK(cause, sepc) ==
    /\ cause = "ebreak" => sepc = "ebreak"
    /\ cause \in {"ecall", "pagefault"} => sepc = "user"

\* The frame holds a good return.
FrameReturns ==
    ~tf.status.sie /\ ReturnsTo(tf.sepc, tf.status.spie, tf.status.spp, tf.regs)

\* The context of a process that waits is complete in its slot.
Saved(p) ==
    /\ userRegs[p].sepc = "user" /\ userRegs[p].status = T!NoStatus
    /\ userRegs[p].regs = [who |-> p, n |-> want[p]]

\* Privilege and interrupt enable go with the label, processes come last.
ModeOK ==
    /\ Pc # "none" /\ (cpu.priv = "U" <=> Pc = "user") /\ (cpu.sie <=> Pc \in OpenLabels)
    /\ Pc \in OpenLabels \cup BootLabels => current = 0
    /\ Pc \in StartLabels => task.cur = 0
    /\ Pc \in {"trampoline", "resume", "switch"} => current # 0

\* Whoever runs has its own registers.
LiveOK ==
    /\ Pc \in TaskLabels => regs.who = T!Task(task.cur)
    /\ Pc = "user" => Own(regs)

\* On the trap path the return state is good, wherever it is.
PathOK ==
    /\ Pc \in {"entry_regs", "ret_sret"} => ReturnsTo(cpu.sepc, cpu.spie, cpu.spp, regs)
    /\ Pc \in {"entry_csrs", "ret_regs"} => ReturnsTo(cpu.sepc, cpu.spie, cpu.spp, tf.regs)
    /\ Pc \in FrameLabels => FrameReturns
    /\ Pc = "eu_sret" => cpu.sepc = "user" /\ ~cpu.spie /\ ~cpu.spp /\ Own(regs)
    /\ Pc \in {"entry_regs", "entry_csrs"} => CauseOK(cpu.cause, cpu.sepc)
    /\ Pc = "dispatch" => CauseOK(tf.cause, tf.sepc)
    /\ Pc = "ret_status" => cpu.sepc = tf.sepc
    /\ Pc = "syscall" => tf.sepc = "user"

\* The current process is runnable, and every other runnable one is saved; so is
\* the current one between its switch out and its restore.
SlotsOK ==
    /\ current # 0 /\ Pc # "halt" => state[current] = "runnable"
    /\ \A p \in Procs :
         state[p] = "runnable" /\ (p = current => Pc \notin TrapLabels \cup {"user"}) => Saved(p)

\* What is proved to be inductive.
TrapsOK == HartOK /\ KernelOK /\ ModeOK /\ LiveOK /\ PathOK /\ SlotsOK

-----------------------------------------------------------------------------
(* The steps.                                                                  *)

\* Steps that change no register of the trap path and nothing of the kernel.
LEMMA Quiet ==
    ASSUME TrapsOK, HartOK', UNCHANGED T!kernel, SameTrap(cpu', cpu),
           \/ Pc' = Pc
           \/ Pc \in StartLabels /\ Pc' \in BootLabels \ {"eu_sret"}
           \/ Pc \in TaskLabels /\ Pc' \in TaskLabels
           \/ Pc \in OpenLabels /\ Pc' \in {"td_read", "td_write"}
           \/ Pc \in FrameLabels /\ Pc' \in {"irq_read", "irq_arm", "irq_tick", "ret_sepc"}
    PROVE  TrapsOK'
<1> USE DEF T!kernel
<1>1. KernelOK' BY DEF TrapsOK, KernelOK
<1>2. ModeOK'
  BY DEF TrapsOK, ModeOK, SameTrap, BootLabels, StartLabels, OpenLabels, TaskLabels, FrameLabels
<1>3. LiveOK'
  BY DEF TrapsOK, LiveOK, Own, SameTrap, BootLabels, StartLabels, OpenLabels, TaskLabels,
         FrameLabels
<1>4. PathOK'
  BY DEF TrapsOK, PathOK, Own, ReturnsTo, FrameReturns, CauseOK, SameTrap, BootLabels,
         StartLabels, OpenLabels, TaskLabels, FrameLabels
<1>5. SlotsOK'
  BY DEF TrapsOK, SlotsOK, ModeOK, Saved, SameTrap, BootLabels, StartLabels, OpenLabels,
         TaskLabels, FrameLabels, TrapLabels, T!TrapsConstants
<1> QED BY <1>1, <1>2, <1>3, <1>4, <1>5 DEF TrapsOK

\* The host's calls: the program counter moves between global and local, nothing
\* else that the trap path reads changes (rv_run()).
LEMMA BatchStep == ASSUME T!TrapsConstants, TrapsOK, T!Batch PROVE TrapsOK'
<1>1. ASSUME NEW n \in BatchSizes, NEW d \in TimeAdvances, T!BeginRun(n, d), UNCHANGED T!kernel
      PROVE  TrapsOK'
  <2> DEFINE r == T!Rebased(cpu)
             e == [r EXCEPT !.tickStep = d]
             c == T!Rearmed(e)
  <2>0. n \in 0 .. StepMax - 1 /\ d \in Nat BY DEF T!TrapsConstants
  <2>1. r \in Cpu /\ SameTrap(r, cpu) /\ r.pc = cpu.pc
    BY RebasedOK DEF TrapsOK, HartOK
  <2>2. e \in Cpu /\ SameTrap(e, cpu) /\ e.pc = cpu.pc BY <2>0, <2>1 DEF Cpu, SameTrap
  <2> HIDE DEF e, r
  <2>3. c \in Cpu /\ SameTrap(c, cpu) /\ c.pc = cpu.pc
    <3>1. CASE e.timecmp # 0
      <4>1. e.timecmp \in Int BY <2>2 DEF Cpu
      <4> QED BY <2>2, <3>1, <4>1, SetStimecmpOK DEF T!Rearmed, SameTrap
    <3> QED BY <2>2, <3>1 DEF T!Rearmed
  <2>4. /\ ~loop.on /\ cpu' = c
        /\ loop' = [on |-> TRUE, left |-> n, now |-> c.ticks,
                    until |-> c.timerSteps, stopped |-> c.halted, here |-> c.pc]
    BY <1>1 DEF T!BeginRun, e, r
  <2> HIDE DEF c
  <2>5. HartOK' /\ Pc' = Pc /\ SameTrap(cpu', cpu)
    BY <2>0, <2>3, <2>4 DEF HartOK, Loop, Cpu, Pc
  <2> QED BY <1>1, <2>5, Quiet
<1>2. ASSUME T!EndRun, UNCHANGED T!kernel PROVE TrapsOK'
  <2>1. HartOK' /\ Pc' = Pc /\ SameTrap(cpu', cpu)
    <3>1. /\ loop.on /\ loop' = T!Idle
          /\ cpu' = [cpu EXCEPT !.ticks = loop.now, !.timerSteps = loop.until,
                                !.halted = loop.stopped, !.pc = loop.here]
      BY <1>2 DEF T!EndRun
    <3>2. cpu' \in Cpu /\ SameTrap(cpu', cpu) /\ cpu'.pc = loop.here
      BY <3>1 DEF TrapsOK, HartOK, Cpu, Loop, SameTrap
    <3>3. T!Idle \in Loop /\ T!Idle.on = FALSE BY DEF T!Idle, Loop, Labels, T!TrapsConstants
    <3> QED BY <3>1, <3>2, <3>3 DEF HartOK, Pc
  <2> QED BY <1>2, <2>1, Quiet
<1>3. ASSUME T!Sleep, UNCHANGED T!kernel PROVE TrapsOK'
  <2>1. HartOK' /\ Pc' = Pc /\ SameTrap(cpu', cpu)
    BY <1>3, TickedOK, PendingOK DEF TrapsOK, HartOK, T!Sleep, Pc
  <2> QED BY <1>3, <2>1, Quiet
<1> QED BY <1>1, <1>2, <1>3 DEF T!Batch

\* A trap is taken from user mode or with the interrupts on, and finds the trap
\* frame free.
LEMMA Enters ==
    ASSUME T!TrapsConstants, TrapsOK, HartOK', UNCHANGED T!kernel, Pc' = "entry_regs",
           \/ Pc = "user" /\ cpu'.cause \in {"timer", "ecall", "pagefault"}
           \/ Pc \in OpenLabels /\ cpu'.cause = "timer"
           \/ Pc = "ebreak" /\ cpu'.cause = "ebreak",
           cpu'.sepc = Pc, cpu'.spp <=> cpu.priv = "S", cpu'.spie = cpu.sie,
           cpu'.sie = FALSE, cpu'.priv = "S"
    PROVE  TrapsOK'
<1> USE DEF T!kernel
<1>1. KernelOK' BY DEF TrapsOK, KernelOK
<1>2. ModeOK' BY DEF ModeOK, OpenLabels, BootLabels, StartLabels, TaskLabels
<1>3. LiveOK' BY DEF LiveOK, TaskLabels
<1>4. PathOK'
  <2>1. ReturnsTo(Pc, cpu.sie, cpu.priv = "S", regs)
    BY DEF TrapsOK, ModeOK, LiveOK, Own, ReturnsTo, BootLabels, StartLabels, OpenLabels,
           TaskLabels, HartOK, Cpu
  <2>2. ReturnsTo(cpu.sepc, cpu.spie, cpu.spp, regs)'
    BY <2>1 DEF ReturnsTo, Own
  <2>3. CauseOK(cpu.cause, cpu.sepc)' BY DEF CauseOK
  <2> QED BY <2>2, <2>3 DEF PathOK, FrameLabels
<1>5. SlotsOK'
  BY DEF TrapsOK, SlotsOK, ModeOK, Saved, BootLabels, StartLabels, OpenLabels, TaskLabels,
         TrapLabels, T!TrapsConstants
<1> QED BY <1>1, <1>2, <1>3, <1>4, <1>5 DEF TrapsOK

\* The timer interrupts user mode or a task, never a handler.
LEMMA InterruptStep == ASSUME T!TrapsConstants, TrapsOK, T!Interrupt PROVE TrapsOK'
<1> DEFINE s == [T!Pending(cpu) EXCEPT !.ticks = T!Now, !.timerSteps = 0, !.pc = loop.here]
           c == T!Trap(s, "timer")
<1>1. T!InBatch /\ (cpu.priv = "U" \/ cpu.sie) /\ cpu' = c /\ loop' = T!Woken(c) /\ loop.on
  BY DEF T!Interrupt, T!TakeInterrupt, T!Taken, T!InBatch
<1>2. UNCHANGED T!kernel BY DEF T!Interrupt
<1>3. s \in Cpu /\ s.pc = loop.here /\ s.priv = cpu.priv /\ s.sie = cpu.sie
  BY <1>1, TickedOK, PendingOK DEF TrapsOK, HartOK, Cpu, Loop, SameTrap
<1> HIDE DEF s
<1>4. "timer" \in Causes BY DEF Causes
<1>5. /\ c \in Cpu /\ c.sepc = loop.here /\ c.cause = "timer" /\ (c.spp <=> cpu.priv = "S")
      /\ c.spie = cpu.sie /\ c.sie = FALSE /\ c.priv = "S" /\ c.pc = "entry_regs"
  <2>1. /\ c \in Cpu /\ c.sepc = s.pc /\ c.cause = "timer" /\ (c.spp <=> s.priv = "S")
        /\ c.spie = s.sie /\ c.sie = FALSE /\ c.priv = "S" /\ c.pc = "entry_regs"
    BY <1>3, <1>4, TrapOK
  <2> QED BY <1>3, <2>1
<1> HIDE DEF c
<1>6. HartOK' /\ Pc' = "entry_regs" /\ Pc = loop.here
  <2>1. loop' = [loop EXCEPT !.left = loop.left - 1, !.now = T!Now, !.until = 0,
                             !.stopped = FALSE, !.here = c.pc]
    BY <1>1 DEF T!Woken
  <2>2. loop.left - 1 \in 0 .. StepMax - 1 /\ T!Now \in Nat
    BY <1>1 DEF TrapsOK, HartOK, Loop, Cpu, T!InBatch, T!TrapsConstants, T!Now
  <2>3. loop' \in Loop /\ loop'.on = loop.on /\ loop'.here = c.pc
    BY <1>5, <2>1, <2>2 DEF TrapsOK, HartOK, Loop, Cpu
  <2> QED BY <1>1, <1>5, <2>3 DEF HartOK, Pc
<1>7. Pc = "user" \/ Pc \in OpenLabels BY <1>1 DEF TrapsOK, ModeOK
<1> QED BY <1>1, <1>2, <1>5, <1>6, <1>7, Enters

\* The step lemmas under the invariant.
LEMMA PlainHere ==
    ASSUME T!TrapsConstants, TrapsOK, NEW l, NEW n \in Labels, T!Executes(l), T!Plain(n)
    PROVE  HartOK' /\ Pc = l /\ Pc' = n /\ SameTrap(cpu', cpu)
BY PlainStep DEF TrapsOK

\* So for an instruction that changes the hart's own state (execute()).
LEMMA SystemHere ==
    ASSUME T!TrapsConstants, TrapsOK, NEW l, NEW c \in Cpu, T!Executes(l), T!System(c)
    PROVE  HartOK' /\ Pc = l /\ Pc' = c.pc /\ cpu' = c
BY SystemStep DEF TrapsOK

\* What the loop writes back to the hart before a trap is the state it had.
LEMMA SyncedHere ==
    ASSUME T!TrapsConstants, TrapsOK, NEW l, T!Executes(l)
    PROVE  T!Synced \in Cpu /\ SameTrap(T!Synced, cpu) /\ T!Synced.pc = l
BY SyncedOK DEF TrapsOK, T!Executes

\* kmain and its ebreak.
LEMMA BootStep == ASSUME T!TrapsConstants, TrapsOK, T!Boot PROVE TrapsOK'
<1>1. CASE T!Executes("boot") /\ T!Plain("ebreak") /\ UNCHANGED T!kernel
  <2>1. HartOK' /\ Pc = "boot" /\ Pc' = "ebreak" /\ SameTrap(cpu', cpu)
    BY <1>1, PlainHere
       DEF Labels, OpenLabels, BootLabels, StartLabels, TaskLabels, TrapLabels, FrameLabels
  <2> QED BY <1>1, <2>1, Quiet DEF BootLabels, StartLabels, OpenLabels, TaskLabels, FrameLabels
<1>2. CASE T!Executes("ebreak") /\ T!System(T!Trap(T!Synced, "ebreak")) /\ UNCHANGED T!kernel
  <2> DEFINE c == T!Trap(T!Synced, "ebreak")
  <2>1. T!Synced \in Cpu /\ SameTrap(T!Synced, cpu) /\ T!Synced.pc = "ebreak"
    BY <1>2, SyncedHere
  <2>2. "ebreak" \in Causes BY DEF Causes
  <2>3. /\ c \in Cpu /\ c.sepc = "ebreak" /\ c.cause = "ebreak" /\ c.pc = "entry_regs"
        /\ (c.spp <=> T!Synced.priv = "S") /\ c.spie = T!Synced.sie /\ c.sie = FALSE /\ c.priv = "S"
    BY <2>1, <2>2, TrapOK
  <2>4. HartOK' /\ Pc = "ebreak" /\ Pc' = c.pc /\ cpu' = c BY <1>2, <2>3, SystemHere
  <2> HIDE DEF c
  <2>5. (cpu'.spp <=> cpu.priv = "S") /\ cpu'.spie = cpu.sie BY <2>1, <2>3, <2>4 DEF SameTrap
  <2> QED BY <1>2, <2>3, <2>4, <2>5, Enters
<1>3. CASE T!Executes("booted") /\ T!Plain("ti_read") /\ UNCHANGED T!kernel
  <2>1. HartOK' /\ Pc = "booted" /\ Pc' = "ti_read" /\ SameTrap(cpu', cpu)
    BY <1>3, PlainHere
       DEF Labels, OpenLabels, BootLabels, StartLabels, TaskLabels, TrapLabels, FrameLabels
  <2> QED BY <1>3, <2>1, Quiet DEF BootLabels, StartLabels, OpenLabels, TaskLabels, FrameLabels
<1>4. CASE T!Executes("booted") /\ T!Plain("create") /\ UNCHANGED T!kernel
  <2>1. HartOK' /\ Pc = "booted" /\ Pc' = "create" /\ SameTrap(cpu', cpu)
    BY <1>4, PlainHere
       DEF Labels, OpenLabels, BootLabels, StartLabels, TaskLabels, TrapLabels, FrameLabels
  <2> QED BY <1>4, <2>1, Quiet DEF BootLabels, StartLabels, OpenLabels, TaskLabels, FrameLabels
<1> QED BY <1>1, <1>2, <1>3, <1>4 DEF T!Boot

\* timer_init and timer_irq arm the next tick.
LEMMA ArmStep ==
    ASSUME T!TrapsConstants, TrapsOK, NEW l, NEW n \in Labels, T!Executes(l), UNCHANGED T!kernel,
           T!System([T!SetStimecmp(T!Synced, cpu.seen + Delta) EXCEPT !.seen = 0, !.pc = n])
    PROVE  HartOK' /\ Pc = l /\ Pc' = n /\ SameTrap(cpu', cpu)
<1> DEFINE e == T!SetStimecmp(T!Synced, cpu.seen + Delta)
           c == [e EXCEPT !.seen = 0, !.pc = n]
<1>1. cpu.seen + Delta \in Int BY DEF TrapsOK, HartOK, Cpu, T!TrapsConstants
<1>2. T!Synced \in Cpu /\ SameTrap(T!Synced, cpu) BY SyncedHere
<1>3. e \in Cpu /\ SameTrap(e, T!Synced) BY <1>1, <1>2, SetStimecmpOK
<1> HIDE DEF e
<1>4. c \in Cpu
  <2> DEFINE a == [e EXCEPT !.seen = 0]
  <2>1. a \in Cpu BY <1>3 DEF Cpu
  <2>2. c = [a EXCEPT !.pc = n] OBVIOUS
  <2> HIDE DEF a
  <2>3. [a EXCEPT !.pc = n] \in Cpu BY <2>1 DEF Cpu
  <2> QED BY <2>2, <2>3
<1>5. SameTrap(c, e) /\ c.pc = n BY <1>3 DEF Cpu, SameTrap
<1>6. T!System(c) BY DEF e
<1> HIDE DEF c
<1>7. HartOK' /\ Pc = l /\ Pc' = c.pc /\ cpu' = c BY <1>4, <1>6, SystemHere
<1> QED BY <1>2, <1>3, <1>5, <1>7 DEF SameTrap

\* timer_init: interrupts are enabled once the first task runs.
LEMMA TimerInitStep == ASSUME T!TrapsConstants, TrapsOK, T!TimerInit PROVE TrapsOK'
<1>1. CASE T!Executes("ti_read") /\ T!System([T!ReadTime(T!Synced) EXCEPT !.pc = "ti_arm"]) /\ UNCHANGED T!kernel
  <2> DEFINE c == [T!ReadTime(T!Synced) EXCEPT !.pc = "ti_arm"]
  <2>1. c \in Cpu /\ SameTrap(c, cpu) /\ c.pc = "ti_arm"
    <3>1. "ti_arm" \in Labels BY DEF Labels, BootLabels, StartLabels, TrapLabels, FrameLabels
    <3>2. T!Synced \in Cpu /\ SameTrap(T!Synced, cpu) BY <1>1, SyncedHere
    <3> QED BY <3>1, <3>2, ReadTimeOK DEF SameTrap
  <2>2. T!System(c) BY <1>1
  <2> HIDE DEF c
  <2>3. HartOK' /\ Pc = "ti_read" /\ Pc' = "ti_arm" /\ SameTrap(cpu', cpu)
    BY <1>1, <2>1, <2>2, SystemHere
  <2> QED BY <1>1, <2>3, Quiet DEF BootLabels, StartLabels, OpenLabels, TaskLabels, FrameLabels
<1>2. CASE T!Executes("ti_arm") /\ UNCHANGED T!kernel
           /\ T!System([T!SetStimecmp(T!Synced, cpu.seen + Delta) EXCEPT !.seen = 0, !.pc = "ti_stie"])
  <2>1. "ti_stie" \in Labels BY DEF Labels, BootLabels, StartLabels
  <2>2. HartOK' /\ Pc = "ti_arm" /\ Pc' = "ti_stie" /\ SameTrap(cpu', cpu)
    BY <1>2, <2>1, ArmStep
  <2> QED BY <1>2, <2>2, Quiet DEF BootLabels, StartLabels
<1>3. CASE T!Executes("ti_stie") /\ T!System([T!Synced EXCEPT !.stie = TRUE, !.pc = "ti_sie"]) /\ UNCHANGED T!kernel
  <2> DEFINE c == [T!Synced EXCEPT !.stie = TRUE, !.pc = "ti_sie"]
  <2>1. c \in Cpu /\ SameTrap(c, cpu) /\ c.pc = "ti_sie"
    BY SyncedHere, <1>3
       DEF Cpu, SameTrap, Labels, OpenLabels, BootLabels, StartLabels, TaskLabels, TrapLabels,
           FrameLabels
  <2>2. T!System(c) BY <1>3
  <2> HIDE DEF c
  <2>3. HartOK' /\ Pc = "ti_stie" /\ Pc' = "ti_sie" /\ SameTrap(cpu', cpu)
    BY <1>3, <2>1, <2>2, SystemHere
  <2> QED BY <1>3, <2>3, Quiet DEF BootLabels, StartLabels, OpenLabels, TaskLabels, FrameLabels
<1>4. CASE /\ T!Executes("ti_sie") /\ T!System([T!Synced EXCEPT !.sie = TRUE, !.pc = "task_check"])
           /\ regs' = [who |-> T!Task(0), n |-> 0]
           /\ UNCHANGED <<tf, userRegs, state, cont, current, want, task>>
  <2> DEFINE c == [T!Synced EXCEPT !.sie = TRUE, !.pc = "task_check"]
  <2>1. T!Synced \in Cpu /\ SameTrap(T!Synced, cpu) BY <1>4, SyncedHere
  <2>2. c \in Cpu /\ c.pc = "task_check" /\ c.sie = TRUE /\ c.priv = cpu.priv
    BY <2>1 DEF Cpu, SameTrap, Labels, OpenLabels, TaskLabels
  <2>3. HartOK' /\ Pc = "ti_sie" /\ Pc' = c.pc /\ cpu' = c BY <1>4, <2>2, SystemHere
  <2> HIDE DEF c
  <2>4. T!Task(0) \in Int BY DEF T!Task
  <2>5. Pc = "ti_sie" /\ Pc' = "task_check" /\ cpu'.sie = TRUE /\ cpu'.priv = cpu.priv /\ HartOK'
    BY <2>2, <2>3
  <2>6. KernelOK' BY <1>4, <2>4, <2>5 DEF TrapsOK, KernelOK, Regs, Frames, Cpu, HartOK
  <2>7. ModeOK'
    BY <1>4, <2>4, <2>5
       DEF TrapsOK, ModeOK, BootLabels, StartLabels, OpenLabels, TaskLabels, FrameLabels,
           TrapLabels
  <2>8. LiveOK'
    BY <1>4, <2>4, <2>5
       DEF TrapsOK, ModeOK, LiveOK, Own, BootLabels, StartLabels, OpenLabels, TaskLabels,
           FrameLabels, TrapLabels
  <2>9. PathOK'
    BY <1>4, <2>4, <2>5
       DEF TrapsOK, PathOK, ReturnsTo, FrameReturns, CauseOK, Own, BootLabels, StartLabels,
           OpenLabels, TaskLabels, FrameLabels, TrapLabels
  <2>10. SlotsOK'
    BY <1>4, <2>4, <2>5
       DEF TrapsOK, SlotsOK, Saved, ModeOK, BootLabels, StartLabels, OpenLabels, TaskLabels,
           FrameLabels, TrapLabels
  <2> QED BY <1>4, <2>4, <2>5, <2>6, <2>7, <2>8, <2>9, <2>10 DEF TrapsOK
<1> QED BY <1>1, <1>2, <1>3, <1>4 DEF T!TimerInit

\* task_body.
LEMMA TaskBodyStep == ASSUME T!TrapsConstants, TrapsOK, T!TaskBody PROVE TrapsOK'
<1>1. CASE T!Executes("task_check") /\ T!Plain("task_wfi") /\ UNCHANGED T!kernel
  <2>1. HartOK' /\ Pc = "task_check" /\ Pc' = "task_wfi" /\ SameTrap(cpu', cpu)
    BY <1>1, PlainHere
       DEF Labels, OpenLabels, BootLabels, StartLabels, TaskLabels, TrapLabels, FrameLabels
  <2> QED BY <1>1, <2>1, Quiet DEF BootLabels, StartLabels, OpenLabels, TaskLabels, FrameLabels
<1>2. CASE T!Executes("task_check") /\ T!Plain("task_count") /\ UNCHANGED T!kernel
  <2>1. HartOK' /\ Pc = "task_check" /\ Pc' = "task_count" /\ SameTrap(cpu', cpu)
    BY <1>2, PlainHere
       DEF Labels, OpenLabels, BootLabels, StartLabels, TaskLabels, TrapLabels, FrameLabels
  <2> QED BY <1>2, <2>1, Quiet DEF BootLabels, StartLabels, OpenLabels, TaskLabels, FrameLabels
<1>3. CASE T!Executes("task_wfi") /\ T!System(T!Wfi(T!Synced, "task_check")) /\ UNCHANGED T!kernel
  <2> DEFINE c == T!Wfi(T!Synced, "task_check")
  <2>1. c \in Cpu /\ SameTrap(c, cpu) /\ c.pc = "task_check"
    BY SyncedHere, <1>3
       DEF T!Wfi, Cpu, SameTrap, Labels, OpenLabels, BootLabels, StartLabels, TaskLabels,
           TrapLabels, FrameLabels
  <2>2. T!System(c) BY <1>3
  <2> HIDE DEF c
  <2>3. HartOK' /\ Pc = "task_wfi" /\ Pc' = "task_check" /\ SameTrap(cpu', cpu)
    BY <1>3, <2>1, <2>2, SystemHere
  <2> QED BY <1>3, <2>3, Quiet DEF BootLabels, StartLabels, OpenLabels, TaskLabels, FrameLabels
<1>4. CASE /\ T!Executes("task_count")
           /\ task' = [task EXCEPT !.last[task.cur + 1] = task.ticks, !.switches = @ + 1]
           /\ T!Plain(IF task.switches + 1 >= TOTAL_SWITCHES THEN "td_read" ELSE "task_yield")
           /\ UNCHANGED <<regs, tf, userRegs, state, cont, current, want>>
  <2> DEFINE n == IF task.switches + 1 >= TOTAL_SWITCHES THEN "td_read" ELSE "task_yield"
  <2>1. n \in {"td_read", "task_yield"} OBVIOUS
  <2>2. T!Plain(n) BY <1>4
  <2> HIDE DEF n
  <2>3. n \in Labels BY <2>1 DEF Labels, OpenLabels, TaskLabels
  <2>4. HartOK' /\ Pc = "task_count" /\ Pc' = n /\ SameTrap(cpu', cpu)
    BY <1>4, <2>2, <2>3, PlainHere
  <2>5. task'.cur = task.cur /\ DOMAIN task' = DOMAIN task
    <3> DEFINE v == [task.last EXCEPT ![task.cur + 1] = task.ticks]
               w == task.switches + 1
    <3>1. task' = [task EXCEPT !.last = v, !.switches = w] BY <1>4
    <3> HIDE DEF v, w
    <3> QED BY <3>1 DEF TrapsOK, KernelOK
  <2>6. KernelOK' BY <1>4, <2>1, <2>4, <2>5 DEF TrapsOK, KernelOK, Regs, Frames, Cpu, HartOK
  <2>7. ModeOK'
    BY <1>4, <2>1, <2>4, <2>5
       DEF TrapsOK, SameTrap, ModeOK, BootLabels, StartLabels, OpenLabels, TaskLabels,
           FrameLabels, TrapLabels
  <2>8. LiveOK'
    BY <1>4, <2>1, <2>4, <2>5
       DEF TrapsOK, SameTrap, ModeOK, LiveOK, Own, BootLabels, StartLabels, OpenLabels,
           TaskLabels, FrameLabels, TrapLabels
  <2>9. PathOK'
    BY <1>4, <2>1, <2>4, <2>5
       DEF TrapsOK, PathOK, ReturnsTo, FrameReturns, CauseOK, Own, BootLabels, StartLabels,
           OpenLabels, TaskLabels, FrameLabels, TrapLabels
  <2>10. SlotsOK'
    BY <1>4, <2>1, <2>4, <2>5
       DEF TrapsOK, SlotsOK, Saved, ModeOK, BootLabels, StartLabels, OpenLabels, TaskLabels,
           FrameLabels, TrapLabels
  <2> QED BY <1>4, <2>1, <2>4, <2>5, <2>6, <2>7, <2>8, <2>9, <2>10 DEF TrapsOK
<1> QED BY <1>1, <1>2, <1>3, <1>4 DEF T!TaskBody

\* task_yield: the other task, with its own registers.
LEMMA TaskYieldStep == ASSUME T!TrapsConstants, TrapsOK, T!TaskYield PROVE TrapsOK'
<1> DEFINE next == (task.cur + 1) % 2
<1>1. HartOK' /\ Pc = "task_yield" /\ Pc' = "task_check" /\ SameTrap(cpu', cpu)
  BY PlainHere DEF T!TaskYield, Labels, OpenLabels, TaskLabels
<1>2. next \in Int /\ T!Task(next) \in Int BY DEF TrapsOK, KernelOK, T!Task
<1>3. task'.cur = next /\ DOMAIN task' = DOMAIN task
  <2> DEFINE v == [task.last EXCEPT ![next + 1] = IF task.saved THEN @ ELSE task.ticks]
  <2>1. task' = [task EXCEPT !.cur = next, !.saved = TRUE, !.last = v] BY DEF T!TaskYield
  <2> HIDE DEF v, next
  <2> QED BY <2>1 DEF TrapsOK, KernelOK
<1>4. regs' = [who |-> T!Task(next), n |-> 0] /\ UNCHANGED <<tf, userRegs, state, cont, current, want>>
  BY DEF T!TaskYield
<1> HIDE DEF next
<1>5. KernelOK' BY <1>1, <1>2, <1>3, <1>4 DEF TrapsOK, KernelOK, Regs, Frames, Cpu, HartOK
<1>6. ModeOK'
  BY <1>1, <1>2, <1>3, <1>4
     DEF TrapsOK, SameTrap, ModeOK, BootLabels, StartLabels, OpenLabels, TaskLabels,
         FrameLabels, TrapLabels
<1>7. LiveOK'
  BY <1>1, <1>2, <1>3, <1>4
     DEF TrapsOK, SameTrap, ModeOK, LiveOK, Own, BootLabels, StartLabels, OpenLabels,
         TaskLabels, FrameLabels, TrapLabels
<1>8. PathOK'
  BY <1>1, <1>2, <1>3, <1>4
     DEF TrapsOK, PathOK, ReturnsTo, FrameReturns, CauseOK, Own, BootLabels, StartLabels,
         OpenLabels, TaskLabels, FrameLabels, TrapLabels
<1>9. SlotsOK'
  BY <1>1, <1>2, <1>3, <1>4
     DEF TrapsOK, SlotsOK, Saved, ModeOK, BootLabels, StartLabels, OpenLabels, TaskLabels,
         FrameLabels, TrapLabels
<1> QED BY <1>1, <1>2, <1>3, <1>4, <1>5, <1>6, <1>7, <1>8, <1>9 DEF TrapsOK

\* timer_disable.
LEMMA TimerDisableStep == ASSUME T!TrapsConstants, TrapsOK, T!TimerDisable PROVE TrapsOK'
<1>1. CASE T!Executes("td_read") /\ T!System([T!Synced EXCEPT !.pc = "td_write"]) /\ UNCHANGED T!kernel
  <2> DEFINE c == [T!Synced EXCEPT !.pc = "td_write"]
  <2>1. c \in Cpu /\ SameTrap(c, cpu) /\ c.pc = "td_write"
    BY SyncedHere, <1>1
       DEF Cpu, SameTrap, Labels, OpenLabels, BootLabels, StartLabels, TaskLabels, TrapLabels,
           FrameLabels
  <2>2. T!System(c) BY <1>1
  <2> HIDE DEF c
  <2>3. HartOK' /\ Pc = "td_read" /\ Pc' = "td_write" /\ SameTrap(cpu', cpu)
    BY <1>1, <2>1, <2>2, SystemHere
  <2> QED BY <1>1, <2>3, Quiet DEF BootLabels, StartLabels, OpenLabels, TaskLabels, FrameLabels
<1>2. CASE /\ T!Executes("td_write") /\ T!System([T!Synced EXCEPT !.sie = FALSE, !.pc = "enter_usermode"])
           /\ task' = T!NoTask /\ UNCHANGED <<regs, tf, userRegs, state, cont, current, want>>
  <2> DEFINE c == [T!Synced EXCEPT !.sie = FALSE, !.pc = "enter_usermode"]
  <2>1. T!Synced \in Cpu /\ SameTrap(T!Synced, cpu) BY <1>2, SyncedHere
  <2>2. c \in Cpu BY <2>1 DEF Cpu, Labels, BootLabels, StartLabels
  <2>3. c.pc = "enter_usermode" /\ c.sie = FALSE /\ c.priv = cpu.priv BY <2>1 DEF Cpu, SameTrap
  <2>4. T!System(c) BY <1>2
  <2> HIDE DEF c
  <2>5. HartOK' /\ Pc = "td_write" /\ Pc' = "enter_usermode" /\ cpu'.sie = FALSE /\ cpu'.priv = cpu.priv
    BY <1>2, <2>2, <2>3, <2>4, SystemHere
  <2>6. task'.cur = 0 /\ DOMAIN task' = {"on", "cur", "last", "saved", "ticks", "switches"}
    BY <1>2 DEF T!NoTask
  <2>7. KernelOK' BY <1>2, <2>5, <2>6 DEF TrapsOK, KernelOK, Regs, Frames, Cpu, HartOK
  <2>8. ModeOK'
    BY <1>2, <2>5, <2>6
       DEF TrapsOK, ModeOK, BootLabels, StartLabels, OpenLabels, TaskLabels, FrameLabels,
           TrapLabels
  <2>9. LiveOK'
    BY <1>2, <2>5, <2>6
       DEF TrapsOK, ModeOK, LiveOK, Own, BootLabels, StartLabels, OpenLabels, TaskLabels,
           FrameLabels, TrapLabels
  <2>10. PathOK'
    BY <1>2, <2>5, <2>6
       DEF TrapsOK, PathOK, ReturnsTo, FrameReturns, CauseOK, Own, BootLabels, StartLabels,
           OpenLabels, TaskLabels, FrameLabels, TrapLabels
  <2>11. SlotsOK'
    BY <1>2, <2>5, <2>6
       DEF TrapsOK, SlotsOK, Saved, ModeOK, BootLabels, StartLabels, OpenLabels, TaskLabels,
           FrameLabels, TrapLabels
  <2> QED BY <1>2, <2>5, <2>6, <2>7, <2>8, <2>9, <2>10, <2>11 DEF TrapsOK
<1> QED BY <1>1, <1>2 DEF T!TimerDisable

\* sret ends every way out of a trap.
LEMMA SretStep ==
    ASSUME T!TrapsConstants, TrapsOK, NEW l \in {"eu_sret", "ret_sret"}, T!Executes(l), T!System(T!Sret(T!Synced)),
           UNCHANGED T!kernel
    PROVE  TrapsOK'
<1> DEFINE c == T!Sret(T!Synced)
<1>1. T!Synced \in Cpu /\ SameTrap(T!Synced, cpu) BY SyncedHere
<1>2. /\ c \in Cpu /\ c.priv = (IF cpu.spp THEN "S" ELSE "U") /\ c.sie = cpu.spie /\ c.pc = cpu.sepc
  BY <1>1, SretOK DEF SameTrap
<1>3. T!System(c) OBVIOUS
<1> HIDE DEF c
<1>4. HartOK' /\ Pc = l /\ Pc' = c.pc /\ cpu' = c BY <1>2, <1>3, SystemHere
<1>5. ReturnsTo(cpu.sepc, cpu.spie, cpu.spp, regs)
  BY <1>4 DEF TrapsOK, PathOK, ReturnsTo
<1>6. /\ Pc = l /\ Pc' = cpu.sepc /\ cpu'.priv = (IF cpu.spp THEN "S" ELSE "U") /\ cpu'.sie = cpu.spie
      /\ HartOK'
  BY <1>2, <1>4
<1> USE DEF T!kernel
<1>7. KernelOK' BY DEF TrapsOK, KernelOK
<1>8. ModeOK'
  BY <1>5, <1>6 DEF ModeOK, ReturnsTo, BootLabels, StartLabels, OpenLabels, TaskLabels
<1>9. LiveOK'
  BY <1>5, <1>6 DEF LiveOK, ReturnsTo, Own, BootLabels, StartLabels, OpenLabels, TaskLabels
<1>10. PathOK'
  BY <1>5, <1>6
     DEF PathOK, ReturnsTo, BootLabels, StartLabels, OpenLabels, TaskLabels, FrameLabels
<1>11. SlotsOK'
  <2>1. cpu.sepc # "halt" /\ (cpu.sepc = "user" \/ current = 0)
    BY <1>5 DEF ReturnsTo, OpenLabels, TaskLabels
  <2>2. 0 \notin Procs BY DEF T!TrapsConstants
  <2> QED
    BY <1>6, <2>1, <2>2 DEF TrapsOK, SlotsOK, ModeOK, Saved, TrapLabels, BootLabels, StartLabels
<1> QED BY <1>6, <1>7, <1>8, <1>9, <1>10, <1>11 DEF TrapsOK

\* enter_usermode.
LEMMA EnterUsermodeStep == ASSUME T!TrapsConstants, TrapsOK, T!EnterUsermode PROVE TrapsOK'
<1>1. CASE /\ T!Executes("enter_usermode")
           /\ T!System([T!Synced EXCEPT !.sepc = "user", !.spie = cpu.sie, !.spp = FALSE, !.pc = "eu_sret"])
           /\ regs' = [who |-> 0, n |-> want[0]]
           /\ UNCHANGED <<tf, userRegs, state, cont, current, want, task>>
  <2> DEFINE c == [T!Synced EXCEPT !.sepc = "user", !.spie = cpu.sie, !.spp = FALSE, !.pc = "eu_sret"]
  <2>1. T!Synced \in Cpu /\ SameTrap(T!Synced, cpu) /\ cpu.sie \in BOOLEAN
    BY <1>1, SyncedHere DEF TrapsOK, HartOK, Cpu
  <2>2. c \in Cpu BY <2>1 DEF Cpu, Labels, BootLabels, StartLabels
  <2>3. /\ c.pc = "eu_sret" /\ c.sie = cpu.sie /\ c.priv = cpu.priv
        /\ c.sepc = "user" /\ c.spie = cpu.sie /\ c.spp = FALSE
    BY <2>1 DEF Cpu, SameTrap
  <2>4. T!System(c) BY <1>1
  <2> HIDE DEF c
  <2>5. HartOK' /\ Pc = "enter_usermode" /\ Pc' = "eu_sret" /\ cpu' = c
    BY <1>1, <2>2, <2>3, <2>4, SystemHere
  <2>6. /\ cpu'.sie = cpu.sie /\ cpu'.priv = cpu.priv
        /\ cpu'.sepc = "user" /\ cpu'.spie = cpu.sie /\ cpu'.spp = FALSE
    BY <2>3, <2>5
  <2>7. current = 0 /\ ~cpu.sie /\ want[0] \in Int
    BY <2>5 DEF TrapsOK, ModeOK, KernelOK, OpenLabels, BootLabels, StartLabels, TaskLabels
  <2>8. KernelOK' BY <1>1, <2>5, <2>6, <2>7 DEF TrapsOK, KernelOK, Regs, Frames, Cpu, HartOK
  <2>9. ModeOK'
    BY <1>1, <2>5, <2>6, <2>7
       DEF TrapsOK, ModeOK, BootLabels, StartLabels, OpenLabels, TaskLabels, FrameLabels,
           TrapLabels
  <2>10. LiveOK'
    BY <1>1, <2>5, <2>6, <2>7
       DEF TrapsOK, ModeOK, LiveOK, Own, BootLabels, StartLabels, OpenLabels, TaskLabels,
           FrameLabels, TrapLabels
  <2>11. PathOK'
    BY <1>1, <2>5, <2>6, <2>7
       DEF TrapsOK, PathOK, ReturnsTo, FrameReturns, CauseOK, Own, BootLabels, StartLabels,
           OpenLabels, TaskLabels, FrameLabels, TrapLabels
  <2>12. SlotsOK'
    BY <1>1, <2>5, <2>6, <2>7
       DEF TrapsOK, SlotsOK, Saved, ModeOK, BootLabels, StartLabels, OpenLabels, TaskLabels,
           FrameLabels, TrapLabels
  <2> QED BY <1>1, <2>5, <2>6, <2>7, <2>8, <2>9, <2>10, <2>11, <2>12 DEF TrapsOK
<1>2. CASE T!Executes("eu_sret") /\ T!System(T!Sret(T!Synced)) /\ UNCHANGED T!kernel
  BY <1>2, SretStep
<1> QED BY <1>1, <1>2 DEF T!EnterUsermode

\* riscv64_trap_entry saves what the return will need.
LEMMA EntryStep == ASSUME T!TrapsConstants, TrapsOK, T!Entry PROVE TrapsOK'
<1>1. CASE /\ T!Executes("entry_regs") /\ T!Plain("entry_csrs")
           /\ tf' = [tf EXCEPT !.regs = regs]
           /\ UNCHANGED <<regs, userRegs, state, cont, current, want, task>>
  <2>1. HartOK' /\ Pc = "entry_regs" /\ Pc' = "entry_csrs" /\ SameTrap(cpu', cpu)
    BY <1>1, PlainHere DEF Labels, TrapLabels, FrameLabels
  <2>2. tf' \in Frames /\ tf'.regs = regs BY <1>1 DEF TrapsOK, KernelOK, Frames
  <2>3. KernelOK' BY <1>1, <2>1, <2>2 DEF TrapsOK, KernelOK, Regs, Frames, Cpu, HartOK
  <2>4. ModeOK'
    BY <1>1, <2>1, <2>2
       DEF TrapsOK, SameTrap, ModeOK, BootLabels, StartLabels, OpenLabels, TaskLabels,
           FrameLabels, TrapLabels
  <2>5. LiveOK'
    BY <1>1, <2>1, <2>2
       DEF TrapsOK, SameTrap, ModeOK, LiveOK, Own, BootLabels, StartLabels, OpenLabels,
           TaskLabels, FrameLabels, TrapLabels
  <2>6. PathOK'
    BY <1>1, <2>1, <2>2
       DEF TrapsOK, SameTrap, PathOK, ReturnsTo, FrameReturns, CauseOK, Own, BootLabels,
           StartLabels, OpenLabels, TaskLabels, FrameLabels, TrapLabels
  <2>7. SlotsOK'
    BY <1>1, <2>1, <2>2
       DEF TrapsOK, SlotsOK, Saved, ModeOK, BootLabels, StartLabels, OpenLabels, TaskLabels,
           FrameLabels, TrapLabels
  <2> QED BY <1>1, <2>1, <2>2, <2>3, <2>4, <2>5, <2>6, <2>7 DEF TrapsOK
<1>2. CASE /\ T!Executes("entry_csrs") /\ T!System([T!Synced EXCEPT !.pc = "dispatch"])
           /\ tf' = [tf EXCEPT !.sepc = cpu.sepc, !.status = T!Status(cpu), !.cause = cpu.cause]
           /\ regs' = [who |-> T!Kernel, n |-> 0]
           /\ UNCHANGED <<userRegs, state, cont, current, want, task>>
  <2> DEFINE c == [T!Synced EXCEPT !.pc = "dispatch"]
  <2>1. T!Synced \in Cpu /\ SameTrap(T!Synced, cpu) BY <1>2, SyncedHere
  <2>2. c \in Cpu /\ c.pc = "dispatch" /\ SameTrap(c, cpu)
    BY <2>1 DEF Cpu, SameTrap, Labels, TrapLabels, FrameLabels
  <2>3. T!System(c) BY <1>2
  <2> HIDE DEF c
  <2>4. HartOK' /\ Pc = "entry_csrs" /\ Pc' = "dispatch" /\ SameTrap(cpu', cpu)
    BY <1>2, <2>2, <2>3, SystemHere
  <2>5. /\ T!Status(cpu) \in [sie : BOOLEAN, spie : BOOLEAN, spp : BOOLEAN]
        /\ T!Status(cpu).sie = cpu.sie /\ T!Status(cpu).spie = cpu.spie /\ T!Status(cpu).spp = cpu.spp
        /\ cpu.sepc \in Labels /\ cpu.cause \in Causes
    BY DEF T!Status, TrapsOK, HartOK, Cpu
  <2>6. tf' \in Frames BY <1>2, <2>5 DEF TrapsOK, KernelOK, Frames
  <2>7. tf'.sepc = cpu.sepc /\ tf'.status = T!Status(cpu) /\ tf'.cause = cpu.cause /\ tf'.regs = tf.regs
    BY <1>2 DEF TrapsOK, KernelOK, Frames
  <2>8. T!Kernel \in Int BY DEF T!Kernel
  <2>9. ~cpu.sie BY <2>4 DEF TrapsOK, ModeOK, OpenLabels, TaskLabels
  <2>10. KernelOK'
    BY <1>2, <2>4, <2>5, <2>6, <2>7, <2>8, <2>9 DEF TrapsOK, KernelOK, Regs, Frames, Cpu, HartOK
  <2>11. ModeOK'
    BY <1>2, <2>4, <2>5, <2>6, <2>7, <2>8, <2>9
       DEF TrapsOK, SameTrap, ModeOK, BootLabels, StartLabels, OpenLabels, TaskLabels,
           FrameLabels, TrapLabels
  <2>12. LiveOK'
    BY <1>2, <2>4, <2>5, <2>6, <2>7, <2>8, <2>9
       DEF TrapsOK, SameTrap, ModeOK, LiveOK, Own, BootLabels, StartLabels, OpenLabels,
           TaskLabels, FrameLabels, TrapLabels
  <2>13. PathOK'
    BY <1>2, <2>4, <2>5, <2>6, <2>7, <2>8, <2>9
       DEF TrapsOK, SameTrap, PathOK, ReturnsTo, FrameReturns, CauseOK, Own, BootLabels,
           StartLabels, OpenLabels, TaskLabels, FrameLabels, TrapLabels
  <2>14. SlotsOK'
    BY <1>2, <2>4, <2>5, <2>6, <2>7, <2>8, <2>9
       DEF TrapsOK, SlotsOK, Saved, ModeOK, BootLabels, StartLabels, OpenLabels, TaskLabels,
           FrameLabels, TrapLabels
  <2> QED
    BY <1>2, <2>4, <2>5, <2>6, <2>7, <2>8, <2>9, <2>10, <2>11, <2>12, <2>13, <2>14 DEF TrapsOK
<1> QED BY <1>1, <1>2 DEF T!Entry

\* riscv64_trap_return loads it back.
LEMMA ReturnStep == ASSUME T!TrapsConstants, TrapsOK, T!Return PROVE TrapsOK'
<1>0. /\ tf \in Frames /\ tf.sepc \in Labels /\ tf.status \in [sie : BOOLEAN, spie : BOOLEAN, spp : BOOLEAN]
      /\ tf.status.sie \in BOOLEAN /\ tf.status.spie \in BOOLEAN /\ tf.status.spp \in BOOLEAN
  BY DEF TrapsOK, KernelOK, Frames
<1>1. CASE T!Executes("ret_sepc") /\ T!System([T!Synced EXCEPT !.sepc = tf.sepc, !.pc = "ret_status"])
           /\ UNCHANGED T!kernel
  <2> DEFINE c == [T!Synced EXCEPT !.sepc = tf.sepc, !.pc = "ret_status"]
  <2>1. T!Synced \in Cpu /\ SameTrap(T!Synced, cpu) BY <1>1, SyncedHere
  <2>2. c \in Cpu BY <1>0, <2>1 DEF Cpu, Labels, TrapLabels, FrameLabels
  <2>3. c.pc = "ret_status" /\ c.sepc = tf.sepc /\ c.sie = cpu.sie /\ c.priv = cpu.priv
    BY <2>1 DEF Cpu, SameTrap
  <2>4. T!System(c) BY <1>1
  <2> HIDE DEF c
  <2>5. /\ HartOK' /\ Pc = "ret_sepc" /\ Pc' = "ret_status" /\ cpu'.sepc = tf.sepc
        /\ cpu'.sie = cpu.sie /\ cpu'.priv = cpu.priv
    BY <1>1, <2>2, <2>3, <2>4, SystemHere
  <2>6. UNCHANGED <<regs, tf, userRegs, state, cont, current, want, task>> BY <1>1 DEF T!kernel
  <2>7. KernelOK' BY <2>5, <2>6 DEF TrapsOK, KernelOK, Regs, Frames, Cpu, HartOK
  <2>8. ModeOK'
    BY <2>5, <2>6
       DEF TrapsOK, ModeOK, BootLabels, StartLabels, OpenLabels, TaskLabels, FrameLabels,
           TrapLabels
  <2>9. LiveOK'
    BY <2>5, <2>6
       DEF TrapsOK, ModeOK, LiveOK, Own, BootLabels, StartLabels, OpenLabels, TaskLabels,
           FrameLabels, TrapLabels
  <2>10. PathOK'
    BY <2>5, <2>6
       DEF TrapsOK, PathOK, ReturnsTo, FrameReturns, CauseOK, Own, BootLabels, StartLabels,
           OpenLabels, TaskLabels, FrameLabels, TrapLabels
  <2>11. SlotsOK'
    BY <2>5, <2>6
       DEF TrapsOK, SlotsOK, Saved, ModeOK, BootLabels, StartLabels, OpenLabels, TaskLabels,
           FrameLabels, TrapLabels
  <2> QED BY <2>5, <2>6, <2>7, <2>8, <2>9, <2>10, <2>11 DEF TrapsOK
<1>2. CASE T!Executes("ret_status") /\ T!System([T!SetStatus(T!Synced, tf.status) EXCEPT !.pc = "ret_regs"])
           /\ UNCHANGED T!kernel
  <2> DEFINE c == [T!SetStatus(T!Synced, tf.status) EXCEPT !.pc = "ret_regs"]
  <2>1. T!Synced \in Cpu /\ SameTrap(T!Synced, cpu) BY <1>2, SyncedHere
  <2>2. c \in Cpu BY <1>0, <2>1 DEF T!SetStatus, Cpu, Labels, TrapLabels
  <2>3. /\ c.pc = "ret_regs" /\ c.sepc = cpu.sepc /\ c.sie = tf.status.sie /\ c.priv = cpu.priv
        /\ c.spie = tf.status.spie /\ c.spp = tf.status.spp
    BY <2>1 DEF Cpu, SameTrap, T!SetStatus
  <2>4. T!System(c) BY <1>2
  <2> HIDE DEF c
  <2>5. /\ HartOK' /\ Pc = "ret_status" /\ Pc' = "ret_regs" /\ cpu'.sepc = cpu.sepc
        /\ cpu'.sie = tf.status.sie /\ cpu'.priv = cpu.priv
        /\ cpu'.spie = tf.status.spie /\ cpu'.spp = tf.status.spp
    BY <1>2, <2>2, <2>3, <2>4, SystemHere
  <2>6. UNCHANGED <<regs, tf, userRegs, state, cont, current, want, task>> BY <1>2 DEF T!kernel
  <2>7. FrameReturns /\ cpu.sepc = tf.sepc BY <2>5 DEF TrapsOK, PathOK, FrameLabels
  <2>8. KernelOK' BY <2>5, <2>6, <2>7 DEF TrapsOK, KernelOK, Regs, Frames, Cpu, HartOK
  <2>9. ModeOK'
    BY <2>5, <2>6, <2>7
       DEF TrapsOK, FrameReturns, ModeOK, BootLabels, StartLabels, OpenLabels, TaskLabels,
           FrameLabels, TrapLabels
  <2>10. LiveOK'
    BY <2>5, <2>6, <2>7
       DEF TrapsOK, ModeOK, LiveOK, Own, BootLabels, StartLabels, OpenLabels, TaskLabels,
           FrameLabels, TrapLabels
  <2>11. PathOK'
    BY <2>5, <2>6, <2>7
       DEF TrapsOK, PathOK, ReturnsTo, FrameReturns, CauseOK, Own, BootLabels, StartLabels,
           OpenLabels, TaskLabels, FrameLabels, TrapLabels
  <2>12. SlotsOK'
    BY <2>5, <2>6, <2>7
       DEF TrapsOK, SlotsOK, Saved, ModeOK, BootLabels, StartLabels, OpenLabels, TaskLabels,
           FrameLabels, TrapLabels
  <2> QED BY <2>5, <2>6, <2>7, <2>8, <2>9, <2>10, <2>11, <2>12 DEF TrapsOK
<1>3. CASE /\ T!Executes("ret_regs") /\ T!Plain("ret_sret")
           /\ regs' = tf.regs /\ UNCHANGED <<tf, userRegs, state, cont, current, want, task>>
  <2>1. HartOK' /\ Pc = "ret_regs" /\ Pc' = "ret_sret" /\ SameTrap(cpu', cpu)
    BY <1>3, PlainHere DEF Labels, TrapLabels, FrameLabels
  <2>2. KernelOK' BY <1>3, <2>1 DEF TrapsOK, KernelOK, Regs, Frames, Cpu, HartOK
  <2>3. ModeOK'
    BY <1>3, <2>1
       DEF TrapsOK, SameTrap, ModeOK, BootLabels, StartLabels, OpenLabels, TaskLabels,
           FrameLabels, TrapLabels
  <2>4. LiveOK'
    BY <1>3, <2>1
       DEF TrapsOK, SameTrap, ModeOK, LiveOK, Own, BootLabels, StartLabels, OpenLabels,
           TaskLabels, FrameLabels, TrapLabels
  <2>5. PathOK'
    BY <1>3, <2>1
       DEF TrapsOK, SameTrap, PathOK, ReturnsTo, FrameReturns, CauseOK, Own, BootLabels,
           StartLabels, OpenLabels, TaskLabels, FrameLabels, TrapLabels
  <2>6. SlotsOK'
    BY <1>3, <2>1
       DEF TrapsOK, SlotsOK, Saved, ModeOK, BootLabels, StartLabels, OpenLabels, TaskLabels,
           FrameLabels, TrapLabels
  <2> QED BY <1>3, <2>1, <2>2, <2>3, <2>4, <2>5, <2>6 DEF TrapsOK
<1>4. CASE T!Executes("ret_sret") /\ T!System(T!Sret(T!Synced)) /\ UNCHANGED T!kernel
  BY <1>4, SretStep
<1> QED BY <1>1, <1>2, <1>3, <1>4 DEF T!Return

\* trap_dispatch keeps the frame, but for the skipped ebreak.
LEMMA DispatchStep == ASSUME T!TrapsConstants, TrapsOK, T!Dispatch PROVE TrapsOK'
<1>0. T!Executes("dispatch") /\ UNCHANGED <<regs, userRegs, state, cont, current, want, task>>
  BY DEF T!Dispatch
<1>1. ASSUME NEW n \in {"irq_read", "ret_sepc", "syscall"}, T!Plain(n),
             \/ n # "syscall" /\ UNCHANGED tf
             \/ n = "ret_sepc" /\ tf.cause = "ebreak" /\ tf' = [tf EXCEPT !.sepc = "booted"]
             \/ n = "syscall" /\ tf.cause = "ecall" /\ UNCHANGED tf
      PROVE  TrapsOK'
  <2>1. n \in Labels BY DEF Labels, TrapLabels, FrameLabels
  <2>2. HartOK' /\ Pc = "dispatch" /\ Pc' = n /\ SameTrap(cpu', cpu)
    BY <1>0, <1>1, <2>1, PlainHere
  <2>3. FrameReturns /\ CauseOK(tf.cause, tf.sepc) BY <2>2 DEF TrapsOK, PathOK, FrameLabels
  <2>4. /\ tf' \in Frames /\ tf'.status = tf.status /\ tf'.regs = tf.regs
        /\ \/ tf'.sepc = tf.sepc
           \/ tf.sepc = "ebreak" /\ tf'.sepc = "booted"
    BY <1>1, <2>3 DEF CauseOK, TrapsOK, KernelOK, Frames, Labels, BootLabels, StartLabels
  <2>5. FrameReturns'
    BY <1>0, <2>3, <2>4 DEF FrameReturns, ReturnsTo, Own, OpenLabels, TaskLabels
  <2>6. n = "syscall" => tf'.sepc = "user" BY <1>1, <2>3 DEF CauseOK
  <2>7. n \in {"irq_read", "ret_sepc", "syscall"} OBVIOUS
  <2>8. KernelOK'
    BY <1>0, <2>2, <2>4, <2>5, <2>6, <2>7 DEF TrapsOK, KernelOK, Regs, Frames, Cpu, HartOK
  <2>9. ModeOK'
    BY <1>0, <2>2, <2>4, <2>5, <2>6, <2>7
       DEF TrapsOK, SameTrap, ModeOK, BootLabels, StartLabels, OpenLabels, TaskLabels,
           FrameLabels, TrapLabels
  <2>10. LiveOK'
    BY <1>0, <2>2, <2>4, <2>5, <2>6, <2>7
       DEF TrapsOK, SameTrap, ModeOK, LiveOK, Own, BootLabels, StartLabels, OpenLabels,
           TaskLabels, FrameLabels, TrapLabels
  <2>11. PathOK'
    BY <1>0, <2>2, <2>4, <2>5, <2>6, <2>7
       DEF TrapsOK, SameTrap, PathOK, ReturnsTo, FrameReturns, CauseOK, Own, BootLabels,
           StartLabels, OpenLabels, TaskLabels, FrameLabels, TrapLabels
  <2>12. SlotsOK'
    BY <1>0, <2>2, <2>4, <2>5, <2>6, <2>7
       DEF TrapsOK, SlotsOK, Saved, ModeOK, BootLabels, StartLabels, OpenLabels, TaskLabels,
           FrameLabels, TrapLabels
  <2> QED BY <1>0, <2>2, <2>4, <2>5, <2>6, <2>7, <2>8, <2>9, <2>10, <2>11, <2>12 DEF TrapsOK
<1> QED BY <1>1 DEF T!Dispatch

\* timer_irq.
LEMMA TimerIrqStep == ASSUME T!TrapsConstants, TrapsOK, T!TimerIrq PROVE TrapsOK'
<1>1. CASE T!Executes("irq_read") /\ T!System([T!ReadTime(T!Synced) EXCEPT !.pc = "irq_arm"]) /\ UNCHANGED T!kernel
  <2> DEFINE c == [T!ReadTime(T!Synced) EXCEPT !.pc = "irq_arm"]
  <2>1. c \in Cpu /\ SameTrap(c, cpu) /\ c.pc = "irq_arm"
    <3>1. "irq_arm" \in Labels BY DEF Labels, BootLabels, StartLabels, TrapLabels, FrameLabels
    <3>2. T!Synced \in Cpu /\ SameTrap(T!Synced, cpu) BY <1>1, SyncedHere
    <3> QED BY <3>1, <3>2, ReadTimeOK DEF SameTrap
  <2>2. T!System(c) BY <1>1
  <2> HIDE DEF c
  <2>3. HartOK' /\ Pc = "irq_read" /\ Pc' = "irq_arm" /\ SameTrap(cpu', cpu)
    BY <1>1, <2>1, <2>2, SystemHere
  <2> QED BY <1>1, <2>3, Quiet DEF BootLabels, StartLabels, OpenLabels, TaskLabels, FrameLabels
<1>2. CASE T!Executes("irq_arm") /\ UNCHANGED T!kernel
           /\ T!System([T!SetStimecmp(T!Synced, cpu.seen + Delta) EXCEPT !.seen = 0, !.pc = "irq_tick"])
  <2>1. "irq_tick" \in Labels BY DEF Labels, TrapLabels, FrameLabels
  <2>2. HartOK' /\ Pc = "irq_arm" /\ Pc' = "irq_tick" /\ SameTrap(cpu', cpu)
    BY <1>2, <2>1, ArmStep
  <2> QED BY <1>2, <2>2, Quiet DEF FrameLabels
<1>3. CASE /\ T!Executes("irq_tick") /\ T!Plain("ret_sepc")
           /\ task' = [task EXCEPT !.ticks = IF task.on THEN T!Smaller(@ + 1, T!MaxTicks) ELSE @]
           /\ UNCHANGED <<regs, tf, userRegs, state, cont, current, want>>
  <2>1. HartOK' /\ Pc = "irq_tick" /\ Pc' = "ret_sepc" /\ SameTrap(cpu', cpu)
    BY <1>3, PlainHere DEF Labels, TrapLabels, FrameLabels
  <2>2. task'.cur = task.cur /\ DOMAIN task' = DOMAIN task
    <3> DEFINE v == IF task.on THEN T!Smaller(task.ticks + 1, T!MaxTicks) ELSE task.ticks
    <3>1. task' = [task EXCEPT !.ticks = v] BY <1>3
    <3> HIDE DEF v
    <3> QED BY <3>1 DEF TrapsOK, KernelOK
  <2>3. KernelOK' BY <1>3, <2>1, <2>2 DEF TrapsOK, KernelOK, Regs, Frames, Cpu, HartOK
  <2>4. ModeOK'
    BY <1>3, <2>1, <2>2
       DEF TrapsOK, SameTrap, ModeOK, BootLabels, StartLabels, OpenLabels, TaskLabels,
           FrameLabels, TrapLabels
  <2>5. LiveOK'
    BY <1>3, <2>1, <2>2
       DEF TrapsOK, SameTrap, ModeOK, LiveOK, Own, BootLabels, StartLabels, OpenLabels,
           TaskLabels, FrameLabels, TrapLabels
  <2>6. PathOK'
    BY <1>3, <2>1, <2>2
       DEF TrapsOK, SameTrap, PathOK, ReturnsTo, FrameReturns, CauseOK, Own, BootLabels,
           StartLabels, OpenLabels, TaskLabels, FrameLabels, TrapLabels
  <2>7. SlotsOK'
    BY <1>3, <2>1, <2>2
       DEF TrapsOK, SlotsOK, Saved, ModeOK, BootLabels, StartLabels, OpenLabels, TaskLabels,
           FrameLabels, TrapLabels
  <2> QED BY <1>3, <2>1, <2>2, <2>3, <2>4, <2>5, <2>6, <2>7 DEF TrapsOK
<1> QED BY <1>1, <1>2, <1>3 DEF T!TimerIrq

\* process_arch_activate_and_restore: a waiting context becomes the frame.
LEMMA RestoreStep == ASSUME T!TrapsConstants, TrapsOK, T!Restore PROVE TrapsOK'
<1>1. HartOK' /\ Pc \in {"trampoline", "resume"} /\ Pc' = "ret_sepc" /\ SameTrap(cpu', cpu)
  <2>1. "ret_sepc" \in Labels BY DEF Labels, TrapLabels, FrameLabels
  <2>2. CASE T!Executes("trampoline") BY <2>1, <2>2, PlainHere DEF T!Restore
  <2>3. CASE T!Executes("resume") BY <2>1, <2>3, PlainHere DEF T!Restore
  <2> QED BY <2>2, <2>3 DEF T!Restore
<1>2. tf' = userRegs[current] /\ UNCHANGED <<regs, userRegs, state, cont, current, want, task>>
  BY DEF T!Restore
<1>3. current \in Procs /\ state[current] = "runnable" /\ Saved(current)
  BY <1>1 DEF TrapsOK, ModeOK, KernelOK, SlotsOK, TrapLabels, FrameLabels
<1>4. /\ tf' \in Frames /\ tf'.sepc = "user" /\ Own(tf'.regs)
      /\ ~tf'.status.sie /\ ~tf'.status.spie /\ ~tf'.status.spp
  BY <1>2, <1>3 DEF Saved, Own, T!NoStatus, TrapsOK, KernelOK
<1>5. KernelOK' BY <1>1, <1>2, <1>3, <1>4 DEF TrapsOK, KernelOK, Regs, Frames, Cpu, HartOK
<1>6. ModeOK'
  BY <1>1, <1>2, <1>3, <1>4
     DEF TrapsOK, SameTrap, ModeOK, BootLabels, StartLabels, OpenLabels, TaskLabels,
         FrameLabels, TrapLabels
<1>7. LiveOK'
  BY <1>1, <1>2, <1>3, <1>4
     DEF TrapsOK, SameTrap, ModeOK, LiveOK, Own, BootLabels, StartLabels, OpenLabels,
         TaskLabels, FrameLabels, TrapLabels
<1>8. PathOK'
  BY <1>1, <1>2, <1>3, <1>4
     DEF TrapsOK, SameTrap, PathOK, ReturnsTo, FrameReturns, CauseOK, Own, BootLabels,
         StartLabels, OpenLabels, TaskLabels, FrameLabels, TrapLabels
<1>9. SlotsOK'
  BY <1>1, <1>2, <1>3, <1>4
     DEF TrapsOK, SlotsOK, Saved, ModeOK, BootLabels, StartLabels, OpenLabels, TaskLabels,
         FrameLabels, TrapLabels
<1> QED BY <1>1, <1>2, <1>3, <1>4, <1>5, <1>6, <1>7, <1>8, <1>9 DEF TrapsOK

\* The result of a system call goes into the frame.
LEMMA ResultFrame ==
    ASSUME NEW f \in Frames, NEW k \in Int
    PROVE  LET g == [f EXCEPT !.regs.n = k]
           IN  /\ g \in Frames /\ g.regs = [who |-> f.regs.who, n |-> k]
               /\ g.sepc = f.sepc /\ g.status = f.status /\ g.cause = f.cause
<1> DEFINE r == [f.regs EXCEPT !.n = k]
           g == [f EXCEPT !.regs = r]
<1>1. r \in Regs /\ r = [who |-> f.regs.who, n |-> k] BY DEF Frames, Regs
<1> HIDE DEF r
<1>2. g \in Frames /\ g.regs = r /\ g.sepc = f.sepc /\ g.status = f.status /\ g.cause = f.cause
  BY <1>1 DEF Frames
<1>3. [f EXCEPT !.regs.n = k] = g BY DEF r
<1> QED BY <1>1, <1>2, <1>3

\* In a system call the frame is that of the current context.
LEMMA InSyscall ==
    ASSUME TrapsOK, Pc = "syscall"
    PROVE  /\ tf \in Frames /\ tf.sepc = "user" /\ Own(tf.regs) /\ tf.regs.who = current
           /\ tf.status = T!NoStatus /\ ~tf.status.sie /\ ~tf.status.spie /\ ~tf.status.spp
           /\ current # 0 => current \in Procs /\ state[current] = "runnable"
<1>1. tf \in Frames /\ tf.sepc = "user" /\ FrameReturns
  BY DEF TrapsOK, KernelOK, PathOK, FrameLabels
<1>2. ~tf.status.sie /\ ~tf.status.spie /\ ~tf.status.spp /\ Own(tf.regs)
  BY <1>1 DEF FrameReturns, ReturnsTo, OpenLabels, TaskLabels
<1>3. tf.status = T!NoStatus
  <2>1. tf.status \in [sie : BOOLEAN, spie : BOOLEAN, spp : BOOLEAN] BY <1>1 DEF Frames
  <2>2. tf.status.sie = FALSE /\ tf.status.spie = FALSE /\ tf.status.spp = FALSE BY <1>2, <2>1
  <2> QED BY <2>1, <2>2 DEF T!NoStatus
<1>4. tf.regs.who = current BY <1>2 DEF Own
<1>5. current # 0 => current \in Procs /\ state[current] = "runnable"
  BY DEF TrapsOK, KernelOK, SlotsOK
<1> QED BY <1>1, <1>2, <1>3, <1>4, <1>5

\* A system call that returns.
LEMMA SyscallReturnsStep == ASSUME T!TrapsConstants, TrapsOK, T!SyscallReturns PROVE TrapsOK'
<1>1. HartOK' /\ Pc = "syscall" /\ Pc' = "ret_sepc" /\ SameTrap(cpu', cpu)
  BY PlainHere DEF T!SyscallReturns, Labels, TrapLabels, FrameLabels
<1>2. /\ current # 0 /\ tf' = [tf EXCEPT !.regs.n = 1] /\ want' = [want EXCEPT ![current] = 1]
      /\ UNCHANGED <<regs, userRegs, state, cont, current, task>>
  BY DEF T!SyscallReturns
<1>3. tf \in Frames /\ tf.sepc = "user" /\ tf.regs.who = current /\ tf.status = T!NoStatus
      /\ current \in Procs
  BY <1>1, <1>2, InSyscall
<1>4. tf' \in Frames /\ tf'.regs = [who |-> current, n |-> 1] /\ tf'.sepc = "user" /\ tf'.status = T!NoStatus
  BY <1>2, <1>3, ResultFrame
<1>5. /\ want' \in [Procs \cup {0} -> Int] /\ want'[current] = 1
      /\ \A p \in Procs : p # current => want'[p] = want[p]
  BY <1>2, <1>3 DEF TrapsOK, KernelOK
<1>6. ~tf'.status.sie /\ ~tf'.status.spie /\ ~tf'.status.spp BY <1>4 DEF T!NoStatus
<1>7. Own(tf.regs)' BY <1>2, <1>4, <1>5 DEF Own
<1>8. KernelOK'
  BY <1>1, <1>2, <1>4, <1>5, <1>6, <1>7 DEF TrapsOK, KernelOK, Regs, Frames, Cpu, HartOK
<1>9. ModeOK'
  BY <1>1, <1>2, <1>4, <1>5, <1>6, <1>7
     DEF TrapsOK, SameTrap, ModeOK, BootLabels, StartLabels, OpenLabels, TaskLabels,
         FrameLabels, TrapLabels
<1>10. LiveOK'
  BY <1>1, <1>2, <1>4, <1>5, <1>6, <1>7
     DEF TrapsOK, SameTrap, ModeOK, LiveOK, Own, BootLabels, StartLabels, OpenLabels,
         TaskLabels, FrameLabels, TrapLabels
<1>11. PathOK'
  BY <1>1, <1>2, <1>4, <1>5, <1>6, <1>7
     DEF TrapsOK, SameTrap, PathOK, ReturnsTo, FrameReturns, CauseOK, Own, BootLabels,
         StartLabels, OpenLabels, TaskLabels, FrameLabels, TrapLabels
<1>12. SlotsOK'
  BY <1>1, <1>2, <1>4, <1>5, <1>6, <1>7
     DEF TrapsOK, SlotsOK, Saved, ModeOK, BootLabels, StartLabels, OpenLabels, TaskLabels,
         FrameLabels, TrapLabels
<1> QED BY <1>1, <1>2, <1>4, <1>5, <1>6, <1>7, <1>8, <1>9, <1>10, <1>11, <1>12 DEF TrapsOK

\* sys_clone: two contexts out of one frame.
LEMMA SyscallForksStep == ASSUME T!TrapsConstants, TrapsOK, T!SyscallForks PROVE TrapsOK'
<1>1. HartOK' /\ Pc = "syscall" /\ Pc' = "ret_sepc" /\ SameTrap(cpu', cpu)
  BY PlainHere DEF T!SyscallForks, Labels, TrapLabels, FrameLabels
<1>2. PICK c \in Procs :
        /\ state[c] = "unused"
        /\ userRegs' = [userRegs EXCEPT ![c] = [tf EXCEPT !.regs.who = c, !.regs.n = 0]]
        /\ state' = [state EXCEPT ![c] = "runnable"]
        /\ cont' = [cont EXCEPT ![c] = "trampoline"]
        /\ tf' = [tf EXCEPT !.regs.n = 1]
        /\ want' = [want EXCEPT ![current] = 1, ![c] = 0]
  BY DEF T!SyscallForks
<1>3. current # 0 /\ UNCHANGED <<regs, current, task>> BY DEF T!SyscallForks
<1>4. tf \in Frames /\ tf.sepc = "user" /\ tf.regs.who = current /\ tf.status = T!NoStatus
      /\ current \in Procs /\ state[current] = "runnable" /\ c # current
  BY <1>1, <1>2, <1>3, InSyscall
<1>5. tf' \in Frames /\ tf'.regs = [who |-> current, n |-> 1] /\ tf'.sepc = "user" /\ tf'.status = T!NoStatus
  BY <1>2, <1>4, ResultFrame
<1>6. /\ want' \in [Procs \cup {0} -> Int] /\ want'[current] = 1 /\ want'[c] = 0
      /\ \A p \in Procs : p # current /\ p # c => want'[p] = want[p]
  BY <1>2, <1>4 DEF TrapsOK, KernelOK
<1>7. ~tf'.status.sie /\ ~tf'.status.spie /\ ~tf'.status.spp BY <1>5 DEF T!NoStatus
<1>8. Own(tf.regs)' BY <1>3, <1>5, <1>6 DEF Own
<1> DEFINE r == [[tf.regs EXCEPT !.who = c] EXCEPT !.n = 0]
           g == [tf EXCEPT !.regs = r]
<1>9. r \in Regs /\ r = [who |-> c, n |-> 0]
  <2>1. c \in Int BY DEF T!TrapsConstants
  <2>2. tf.regs \in Regs BY <1>4 DEF Frames
  <2> DEFINE a == [tf.regs EXCEPT !.who = c]
  <2>3. a \in Regs /\ a.who = c BY <2>1, <2>2 DEF Regs
  <2> HIDE DEF a
  <2>4. [a EXCEPT !.n = 0] = [who |-> c, n |-> 0] BY <2>3 DEF Regs
  <2>5. r = [who |-> c, n |-> 0] BY <2>4 DEF a
  <2>6. [who |-> c, n |-> 0] \in Regs BY <2>1 DEF Regs
  <2> HIDE DEF r
  <2> QED BY <2>5, <2>6
<1>10. [tf EXCEPT !.regs.who = c, !.regs.n = 0] = g
  BY <1>4 DEF Frames
<1> HIDE DEF r
<1>11. g \in Frames /\ g.regs = r /\ g.sepc = "user" /\ g.status = T!NoStatus
  BY <1>4, <1>9 DEF Frames
<1> HIDE DEF g
<1>12. /\ userRegs' \in [Procs -> Frames] /\ userRegs'[c] = g
       /\ \A p \in Procs : p # c => userRegs'[p] = userRegs[p]
  BY <1>2, <1>10, <1>11 DEF TrapsOK, KernelOK
<1>13. /\ state' \in [Procs -> {"unused", "runnable"}] /\ state'[current] = "runnable"
       /\ \A p \in Procs : p # c => state'[p] = state[p]
       /\ cont' \in [Procs -> {"trampoline", "resume"}]
  BY <1>2, <1>4 DEF TrapsOK, KernelOK
<1>14. Saved(c)' BY <1>6, <1>9, <1>11, <1>12 DEF Saved
<1>15. \A p \in Procs : p # c /\ p # current /\ Saved(p) => Saved(p)'
  BY <1>6, <1>12 DEF Saved
<1>16. KernelOK'
  BY <1>1, <1>3, <1>5, <1>6, <1>7, <1>8, <1>12, <1>13, <1>14, <1>15
     DEF TrapsOK, KernelOK, Regs, Frames, Cpu, HartOK
<1>17. ModeOK'
  BY <1>1, <1>3, <1>5, <1>6, <1>7, <1>8, <1>12, <1>13, <1>14, <1>15
     DEF TrapsOK, SameTrap, ModeOK, BootLabels, StartLabels, OpenLabels, TaskLabels,
         FrameLabels, TrapLabels
<1>18. LiveOK'
  BY <1>1, <1>3, <1>5, <1>6, <1>7, <1>8, <1>12, <1>13, <1>14, <1>15
     DEF TrapsOK, SameTrap, ModeOK, LiveOK, Own, BootLabels, StartLabels, OpenLabels,
         TaskLabels, FrameLabels, TrapLabels
<1>19. PathOK'
  BY <1>1, <1>3, <1>5, <1>6, <1>7, <1>8, <1>12, <1>13, <1>14, <1>15
     DEF TrapsOK, SameTrap, PathOK, ReturnsTo, FrameReturns, CauseOK, Own, BootLabels,
         StartLabels, OpenLabels, TaskLabels, FrameLabels, TrapLabels
<1>20. SlotsOK'
  BY <1>1, <1>3, <1>5, <1>6, <1>7, <1>8, <1>12, <1>13, <1>14, <1>15
     DEF TrapsOK, SlotsOK, Saved, ModeOK, BootLabels, StartLabels, OpenLabels, TaskLabels,
         FrameLabels, TrapLabels
<1> QED
  BY <1>1, <1>3, <1>5, <1>6, <1>7, <1>8, <1>12, <1>13, <1>14, <1>15, <1>16, <1>17, <1>18,
     <1>19, <1>20 DEF TrapsOK

-----------------------------------------------------------------------------
(* The choice of a process.                                                    *)

\* A set that is not empty has a member with the least number.
LEMMA LeastMember ==
    ASSUME NEW S, S # {}, NEW f \in [S -> Nat]
    PROVE  \E q \in S : \A r \in S : f[q] <= f[r]
<1> DEFINE N == {f[q] : q \in S}
<1>1. N \subseteq Nat /\ N # {} OBVIOUS
<1>2. IsWellFoundedOn(OpToRel(<, Nat), Nat) BY NatLessThanWellFounded
<1>3. PICK m \in N : \A y \in N : ~(<<y, m>> \in OpToRel(<, Nat))
  BY <1>1, <1>2, WFMin
<1>4. \A y \in N : ~(y < m) BY <1>1, <1>3 DEF OpToRel
<1>5. \A y \in N : m <= y BY <1>1, <1>4
<1>6. PICK q \in S : f[q] = m OBVIOUS
<1> QED BY <1>5, <1>6

\* The slot with the least number is one (process_create_from_elf(),
\* process_exit_current()).
LEMMA LeastSlot ==
    ASSUME NEW S, S \subseteq Nat, S # {}
    PROVE  (CHOOSE q \in S : \A r \in S : q <= r) \in S
<1> DEFINE f == [q \in S |-> q]
<1>1. f \in [S -> Nat] OBVIOUS
<1>2. \E q \in S : \A r \in S : f[q] <= f[r]
  <2> HIDE DEF f
  <2> QED BY <1>1, LeastMember
<1>3. \E q \in S : \A r \in S : q <= r BY <1>2
<1> QED BY <1>3

\* process_schedule finds a runnable process if there is one.
LEMMA NextIsRunnable ==
    ASSUME T!TrapsConstants, KernelOK, current \in Procs, state[current] = "runnable"
    PROVE  T!NextRunnable(current) \in Procs /\ state[T!NextRunnable(current)] = "runnable"
<1> DEFINE D(q) == IF q > current THEN q - current ELSE q - current + T!Cardinality(Procs)
           S == {q \in Procs : state[q] = "runnable"}
           f == [q \in S |-> D(q) + current]
<1>0. T!Cardinality(Procs) \in Nat
  <2>1. IsFiniteSet(Procs) BY DEF T!TrapsConstants, T!IsFiniteSet, IsFiniteSet
  <2>2. T!Cardinality(Procs) = Cardinality(Procs)
    BY DEF T!Cardinality, Cardinality, T!IsFiniteSet, IsFiniteSet
  <2> QED BY <2>1, <2>2, FS_CardinalityType
<1>1. T!Cardinality(Procs) \in Nat /\ current \in Nat /\ S \subseteq Nat /\ S # {}
  BY <1>0 DEF T!TrapsConstants
<1>2. f \in [S -> Nat] /\ \A q \in S : D(q) \in Int BY <1>1
<1>3. \E q \in S : \A r \in S : f[q] <= f[r]
  <2> HIDE DEF f, S
  <2> QED BY <1>1, <1>2, LeastMember
<1>4. \E q \in S : \A r \in S : D(q) <= D(r)
  <2>1. PICK q \in S : \A r \in S : f[q] <= f[r] BY <1>3
  <2>2. \A r \in S : f[r] = D(r) + current OBVIOUS
  <2> HIDE DEF f, D
  <2> QED BY <1>1, <1>2, <2>1, <2>2
<1>5. T!NextRunnable(current) = CHOOSE q \in S : \A r \in S : D(q) <= D(r)
  BY DEF T!NextRunnable
<1> HIDE DEF D
<1>6. T!NextRunnable(current) \in S BY <1>4, <1>5
<1> QED BY <1>6

\* process_create_from_elf and process_run.
LEMMA CreateStep == ASSUME T!TrapsConstants, TrapsOK, T!Create PROVE TrapsOK'
<1> DEFINE p == CHOOSE q \in Procs : \A r \in Procs : q <= r
           f == T!InitContext(p)
<1>1. HartOK' /\ Pc = "create" /\ Pc' = "trampoline" /\ SameTrap(cpu', cpu)
  BY PlainHere DEF T!Create, Labels
<1>2. /\ userRegs' = [userRegs EXCEPT ![p] = f] /\ state' = [state EXCEPT ![p] = "runnable"]
      /\ cont' = [cont EXCEPT ![p] = "trampoline"] /\ want' = [want EXCEPT ![p] = 0] /\ current' = p
      /\ UNCHANGED <<regs, tf, task>>
  BY DEF T!Create
<1>3. p \in Procs /\ p \in Int /\ p # 0
  <2>1. p \in Procs BY LeastSlot DEF T!TrapsConstants
  <2> HIDE DEF p
  <2> QED BY <2>1 DEF T!TrapsConstants
<1> HIDE DEF p
<1>4. f \in Frames /\ f.sepc = "user" /\ f.status = T!NoStatus /\ f.regs = [who |-> p, n |-> 0]
  <2>1. cpu.sie = FALSE
    BY <1>1 DEF TrapsOK, ModeOK, HartOK, Cpu, OpenLabels, TaskLabels
  <2>2. f = [regs |-> [who |-> p, n |-> 0], sepc |-> "user", status |-> T!NoStatus, cause |-> "none"]
    BY <2>1 DEF T!InitContext, T!Frame, T!NoStatus
  <2>3. [who |-> p, n |-> 0] \in Regs BY <1>3 DEF Regs
  <2>4. T!NoStatus \in [sie : BOOLEAN, spie : BOOLEAN, spp : BOOLEAN] BY DEF T!NoStatus
  <2> HIDE DEF f
  <2> QED BY <2>2, <2>3, <2>4 DEF Frames, Labels, Causes
<1> HIDE DEF f
<1>5. /\ userRegs' \in [Procs -> Frames] /\ userRegs'[p] = f
      /\ state' \in [Procs -> {"unused", "runnable"}] /\ state'[p] = "runnable"
      /\ cont' \in [Procs -> {"trampoline", "resume"}]
      /\ want' \in [Procs \cup {0} -> Int] /\ want'[p] = 0
      /\ \A q \in Procs : q # p =>
           userRegs'[q] = userRegs[q] /\ state'[q] = state[q] /\ want'[q] = want[q]
  BY <1>2, <1>3, <1>4 DEF TrapsOK, KernelOK
<1>6. Saved(p)' BY <1>4, <1>5 DEF Saved
<1>7. \A q \in Procs : q # p /\ Saved(q) => Saved(q)' BY <1>5 DEF Saved
<1>8. current' = p /\ UNCHANGED <<regs, tf, task>> BY <1>2
<1>9. KernelOK'
  BY <1>1, <1>3, <1>5, <1>6, <1>7, <1>8 DEF TrapsOK, KernelOK, Regs, Frames, Cpu, HartOK
<1>10. ModeOK'
  BY <1>1, <1>3, <1>5, <1>6, <1>7, <1>8
     DEF TrapsOK, SameTrap, ModeOK, BootLabels, StartLabels, OpenLabels, TaskLabels,
         FrameLabels, TrapLabels
<1>11. LiveOK'
  BY <1>1, <1>3, <1>5, <1>6, <1>7, <1>8
     DEF TrapsOK, SameTrap, ModeOK, LiveOK, Own, BootLabels, StartLabels, OpenLabels,
         TaskLabels, FrameLabels, TrapLabels
<1>12. PathOK'
  BY <1>1, <1>3, <1>5, <1>6, <1>7, <1>8
     DEF TrapsOK, SameTrap, PathOK, ReturnsTo, FrameReturns, CauseOK, Own, BootLabels,
         StartLabels, OpenLabels, TaskLabels, FrameLabels, TrapLabels
<1>13. SlotsOK'
  <2>1. current = 0 BY <1>1 DEF TrapsOK, ModeOK, BootLabels
  <2>2. ASSUME NEW q \in Procs, state'[q] = "runnable" PROVE Saved(q)'
    <3>1. CASE q = p BY <1>6, <3>1
    <3>2. CASE q # p
      <4>1. state[q] = "runnable" /\ q # current BY <1>5, <2>1, <2>2, <3>2 DEF T!TrapsConstants
      <4>2. Saved(q) BY <4>1 DEF TrapsOK, SlotsOK
      <4> QED BY <1>7, <3>2, <4>2
    <3> QED BY <3>1, <3>2
  <2>3. state'[current'] = "runnable" BY <1>5, <1>8
  <2> QED BY <2>2, <2>3 DEF SlotsOK
<1> QED BY <1>1, <1>3, <1>5, <1>6, <1>7, <1>8, <1>9, <1>10, <1>11, <1>12, <1>13 DEF TrapsOK

\* sys_read, polling.
LEMMA SyscallPollsStep == ASSUME T!TrapsConstants, TrapsOK, T!SyscallPolls PROVE TrapsOK'
<1>1. HartOK' /\ Pc' = Pc /\ SameTrap(cpu', cpu) /\ UNCHANGED T!kernel
  BY PlainHere DEF T!SyscallPolls, Labels, TrapLabels, FrameLabels
<1> QED BY <1>1, Quiet

\* process_schedule: out with one context, in with the other.
LEMMA ScheduleStep == ASSUME T!TrapsConstants, TrapsOK, T!Schedule PROVE TrapsOK'
<1>1. CASE /\ T!Executes("syscall") /\ current # 0 /\ T!Plain("switch")
           /\ userRegs' = T!SaveTrapframe(current)
           /\ UNCHANGED <<regs, tf, state, cont, current, want, task>>
  <2>1. HartOK' /\ Pc = "syscall" /\ Pc' = "switch" /\ SameTrap(cpu', cpu)
    BY <1>1, PlainHere DEF Labels
  <2>2. /\ tf \in Frames /\ tf.sepc = "user" /\ tf.status = T!NoStatus
        /\ Own(tf.regs) /\ current \in Procs /\ state[current] = "runnable"
    BY <1>1, <2>1, InSyscall
  <2>3. /\ userRegs' \in [Procs -> Frames] /\ userRegs'[current] = tf
        /\ \A p \in Procs : p # current => userRegs'[p] = userRegs[p]
    BY <1>1, <2>2 DEF T!SaveTrapframe, TrapsOK, KernelOK
  <2>4. Saved(current)' BY <1>1, <2>2, <2>3 DEF Saved, Own
  <2>5. \A p \in Procs : p # current /\ Saved(p) => Saved(p)' BY <1>1, <2>3 DEF Saved
  <2>6. \A p \in Procs : p = current => Saved(p)' BY <1>1, <2>4 DEF Saved
  <2>7. KernelOK'
    BY <1>1, <2>1, <2>2, <2>3, <2>5, <2>6 DEF TrapsOK, KernelOK, Regs, Frames, Cpu, HartOK
  <2>8. ModeOK'
    BY <1>1, <2>1, <2>2, <2>3, <2>5, <2>6
       DEF TrapsOK, SameTrap, ModeOK, BootLabels, StartLabels, OpenLabels, TaskLabels,
           FrameLabels, TrapLabels
  <2>9. LiveOK'
    BY <1>1, <2>1, <2>2, <2>3, <2>5, <2>6
       DEF TrapsOK, SameTrap, ModeOK, LiveOK, Own, BootLabels, StartLabels, OpenLabels,
           TaskLabels, FrameLabels, TrapLabels
  <2>10. PathOK'
    BY <1>1, <2>1, <2>2, <2>3, <2>5, <2>6
       DEF TrapsOK, SameTrap, PathOK, ReturnsTo, FrameReturns, CauseOK, Own, BootLabels,
           StartLabels, OpenLabels, TaskLabels, FrameLabels, TrapLabels
  <2>11. SlotsOK'
    BY <1>1, <2>1, <2>2, <2>3, <2>5, <2>6
       DEF TrapsOK, SlotsOK, Saved, ModeOK, BootLabels, StartLabels, OpenLabels, TaskLabels,
           FrameLabels, TrapLabels
  <2> QED BY <1>1, <2>1, <2>2, <2>3, <2>5, <2>6, <2>7, <2>8, <2>9, <2>10, <2>11 DEF TrapsOK
<1>2. CASE /\ T!Executes("switch") /\ current' = T!NextRunnable(current)
           /\ cont' = [cont EXCEPT ![current] = "resume"]
           /\ T!Plain(cont[T!NextRunnable(current)])
           /\ UNCHANGED <<regs, tf, userRegs, state, want, task>>
  <2>1. Pc = "switch" BY <1>2 DEF T!Executes, T!InBatch, Pc
  <2>2. current \in Procs /\ state[current] = "runnable"
    BY <2>1 DEF TrapsOK, ModeOK, KernelOK, SlotsOK
  <2>3. current' \in Procs /\ state[current'] = "runnable"
    BY <1>2, <2>2, NextIsRunnable DEF TrapsOK
  <2>4. T!Plain(cont[current']) /\ cont[current'] \in {"trampoline", "resume"}
    BY <1>2, <2>3 DEF TrapsOK, KernelOK
  <2>5. cont[current'] \in Labels BY <2>4 DEF Labels
  <2>6. HartOK' /\ Pc' = cont[current'] /\ SameTrap(cpu', cpu) BY <1>2, <2>4, <2>5, PlainHere
  <2>7. \A p \in Procs : state[p] = "runnable" => Saved(p)
    BY <2>1 DEF TrapsOK, SlotsOK, TrapLabels, FrameLabels
  <2>8. \A p \in Procs : Saved(p) => Saved(p)' BY <1>2 DEF Saved
  <2>9. current' # 0 /\ cont' \in [Procs -> {"trampoline", "resume"}]
    BY <1>2, <2>3 DEF T!TrapsConstants, TrapsOK, KernelOK
  <2>10. UNCHANGED <<regs, tf, userRegs, state, want, task>> BY <1>2
  <2>11. KernelOK'
    BY <2>1, <2>3, <2>4, <2>6, <2>7, <2>8, <2>9, <2>10
       DEF TrapsOK, KernelOK, Regs, Frames, Cpu, HartOK
  <2>12. ModeOK'
    BY <2>1, <2>3, <2>4, <2>6, <2>7, <2>8, <2>9, <2>10
       DEF TrapsOK, SameTrap, ModeOK, BootLabels, StartLabels, OpenLabels, TaskLabels,
           FrameLabels, TrapLabels
  <2>13. LiveOK'
    BY <2>1, <2>3, <2>4, <2>6, <2>7, <2>8, <2>9, <2>10
       DEF TrapsOK, SameTrap, ModeOK, LiveOK, Own, BootLabels, StartLabels, OpenLabels,
           TaskLabels, FrameLabels, TrapLabels
  <2>14. PathOK'
    BY <2>1, <2>3, <2>4, <2>6, <2>7, <2>8, <2>9, <2>10
       DEF TrapsOK, SameTrap, PathOK, ReturnsTo, FrameReturns, CauseOK, Own, BootLabels,
           StartLabels, OpenLabels, TaskLabels, FrameLabels, TrapLabels
  <2>15. SlotsOK'
    BY <2>1, <2>3, <2>4, <2>6, <2>7, <2>8, <2>9, <2>10
       DEF TrapsOK, SlotsOK, Saved, ModeOK, BootLabels, StartLabels, OpenLabels, TaskLabels,
           FrameLabels, TrapLabels
  <2> QED
    BY <2>1, <2>3, <2>4, <2>6, <2>7, <2>8, <2>9, <2>10, <2>11, <2>12, <2>13, <2>14, <2>15
       DEF TrapsOK
<1> QED BY <1>1, <1>2 DEF T!Schedule

\* process_exit_current.
LEMMA SyscallExitsStep == ASSUME T!TrapsConstants, TrapsOK, T!SyscallExits PROVE TrapsOK'
<1> DEFINE rest == {q \in Procs : state[q] = "runnable"} \ {current}
           least == CHOOSE x \in rest : \A y \in rest : x <= y
<1>1. /\ T!Executes("syscall") /\ want' = [want EXCEPT ![current] = 0]
      /\ userRegs' = [p \in Procs |-> IF p = current THEN T!NoFrame ELSE userRegs[p]]
      /\ UNCHANGED <<regs, tf, cont, task>>
  BY DEF T!SyscallExits
<1>2. Pc = "syscall" BY <1>1 DEF T!Executes, T!InBatch, Pc
<1>3. current # 0 => current \in Procs /\ state[current] = "runnable" BY <1>2, InSyscall
<1>4. /\ want' \in [Procs \cup {0} -> Int]
      /\ \A p \in Procs : p # current => want'[p] = want[p]
  BY <1>1 DEF TrapsOK, KernelOK
<1>5. /\ userRegs' \in [Procs -> Frames]
      /\ \A p \in Procs : p # current => userRegs'[p] = userRegs[p]
  <2>1. T!NoFrame \in Frames
    BY DEF T!NoFrame, T!Frame, T!NoRegs, T!NoStatus, T!Kernel, Frames, Regs, Labels,
           BootLabels, StartLabels, Causes
  <2> QED BY <1>1, <2>1 DEF TrapsOK, KernelOK
<1>6. \A p \in Procs : p # current /\ Saved(p) => Saved(p)' BY <1>4, <1>5 DEF Saved
<1>7. \A p \in Procs : p # current /\ state[p] = "runnable" => Saved(p) BY DEF TrapsOK, SlotsOK
<1>8. CASE current = 0
  <2>1. T!Plain("create") /\ UNCHANGED <<state, current>> BY <1>8 DEF T!SyscallExits
  <2>2. HartOK' /\ Pc' = "create" /\ SameTrap(cpu', cpu)
    BY <1>1, <2>1, PlainHere DEF Labels, BootLabels, StartLabels
  <2>3. \A p \in Procs : p # current BY <1>8 DEF T!TrapsConstants
  <2>4. UNCHANGED <<regs, tf, cont, task, state, current>> BY <1>1, <2>1
  <2>5. KernelOK'
    BY <1>2, <1>4, <1>5, <1>6, <1>7, <1>8, <2>2, <2>3, <2>4
       DEF TrapsOK, KernelOK, Regs, Frames, Cpu, HartOK
  <2>6. ModeOK'
    BY <1>2, <1>4, <1>5, <1>6, <1>7, <1>8, <2>2, <2>3, <2>4
       DEF TrapsOK, SameTrap, ModeOK, BootLabels, StartLabels, OpenLabels, TaskLabels,
           FrameLabels, TrapLabels
  <2>7. LiveOK'
    BY <1>2, <1>4, <1>5, <1>6, <1>7, <1>8, <2>2, <2>3, <2>4
       DEF TrapsOK, SameTrap, ModeOK, LiveOK, Own, BootLabels, StartLabels, OpenLabels,
           TaskLabels, FrameLabels, TrapLabels
  <2>8. PathOK'
    BY <1>2, <1>4, <1>5, <1>6, <1>7, <1>8, <2>2, <2>3, <2>4
       DEF TrapsOK, SameTrap, PathOK, ReturnsTo, FrameReturns, CauseOK, Own, BootLabels,
           StartLabels, OpenLabels, TaskLabels, FrameLabels, TrapLabels
  <2>9. SlotsOK'
    BY <1>2, <1>4, <1>5, <1>6, <1>7, <1>8, <2>2, <2>3, <2>4
       DEF TrapsOK, SlotsOK, Saved, ModeOK, BootLabels, StartLabels, OpenLabels, TaskLabels,
           FrameLabels, TrapLabels
  <2> QED
    BY <1>2, <1>4, <1>5, <1>6, <1>7, <1>8, <2>2, <2>3, <2>4, <2>5, <2>6, <2>7, <2>8, <2>9
       DEF TrapsOK
<1>9. CASE current # 0 /\ rest = {}
  <2>1. T!Plain("halt") /\ UNCHANGED current /\ state' = [state EXCEPT ![current] = "unused"]
    BY <1>9 DEF T!SyscallExits
  <2>2. HartOK' /\ Pc' = "halt" /\ SameTrap(cpu', cpu) BY <1>1, <2>1, PlainHere DEF Labels
  <2>3. state' \in [Procs -> {"unused", "runnable"}] /\ \A p \in Procs : state'[p] = "unused"
    BY <1>3, <1>9, <2>1 DEF TrapsOK, KernelOK
  <2>4. UNCHANGED <<regs, tf, cont, task, current>> BY <1>1, <2>1
  <2>5. KernelOK'
    BY <1>2, <1>4, <1>5, <2>2, <2>3, <2>4 DEF TrapsOK, KernelOK, Regs, Frames, Cpu, HartOK
  <2>6. ModeOK'
    BY <1>2, <1>4, <1>5, <2>2, <2>3, <2>4
       DEF TrapsOK, SameTrap, ModeOK, BootLabels, StartLabels, OpenLabels, TaskLabels,
           FrameLabels, TrapLabels
  <2>7. LiveOK'
    BY <1>2, <1>4, <1>5, <2>2, <2>3, <2>4
       DEF TrapsOK, SameTrap, ModeOK, LiveOK, Own, BootLabels, StartLabels, OpenLabels,
           TaskLabels, FrameLabels, TrapLabels
  <2>8. PathOK'
    BY <1>2, <1>4, <1>5, <2>2, <2>3, <2>4
       DEF TrapsOK, SameTrap, PathOK, ReturnsTo, FrameReturns, CauseOK, Own, BootLabels,
           StartLabels, OpenLabels, TaskLabels, FrameLabels, TrapLabels
  <2>9. SlotsOK'
    BY <1>2, <1>4, <1>5, <2>2, <2>3, <2>4
       DEF TrapsOK, SlotsOK, Saved, ModeOK, BootLabels, StartLabels, OpenLabels, TaskLabels,
           FrameLabels, TrapLabels
  <2> QED BY <1>2, <1>4, <1>5, <2>2, <2>3, <2>4, <2>5, <2>6, <2>7, <2>8, <2>9 DEF TrapsOK
<1>10. CASE current # 0 /\ rest # {}
  <2>1. T!Plain(cont[least]) /\ current' = least /\ state' = [state EXCEPT ![current] = "unused"]
    BY <1>10 DEF T!SyscallExits
  <2>2. least \in rest
    <3>1. rest \subseteq Nat BY DEF T!TrapsConstants
    <3> HIDE DEF rest
    <3> QED BY <1>10, <3>1, LeastSlot
  <2> HIDE DEF least
  <2>3. /\ least \in Procs /\ least # current /\ state[least] = "runnable" /\ least # 0
        /\ cont[least] \in {"trampoline", "resume"}
    BY <2>2 DEF TrapsOK, KernelOK, T!TrapsConstants
  <2>4. cont[least] \in Labels BY <2>3 DEF Labels
  <2>5. HartOK' /\ Pc' = cont[least] /\ SameTrap(cpu', cpu) BY <1>1, <2>1, <2>4, PlainHere
  <2>6. /\ state' \in [Procs -> {"unused", "runnable"}] /\ state'[current] = "unused"
        /\ \A p \in Procs : p # current => state'[p] = state[p]
    BY <1>3, <1>10, <2>1 DEF TrapsOK, KernelOK
  <2>7. UNCHANGED <<regs, tf, cont, task>> /\ current' = least BY <1>1, <2>1
  <2>8. \A p \in Procs : state'[p] = "runnable" => Saved(p)'
    BY <1>6, <1>7, <2>6
  <2>9. KernelOK'
    BY <1>2, <1>4, <1>5, <2>3, <2>5, <2>6, <2>7, <2>8
       DEF TrapsOK, KernelOK, Regs, Frames, Cpu, HartOK
  <2>10. ModeOK'
    BY <1>2, <1>4, <1>5, <2>3, <2>5, <2>6, <2>7, <2>8
       DEF TrapsOK, SameTrap, ModeOK, BootLabels, StartLabels, OpenLabels, TaskLabels,
           FrameLabels, TrapLabels
  <2>11. LiveOK'
    BY <1>2, <1>4, <1>5, <2>3, <2>5, <2>6, <2>7, <2>8
       DEF TrapsOK, SameTrap, ModeOK, LiveOK, Own, BootLabels, StartLabels, OpenLabels,
           TaskLabels, FrameLabels, TrapLabels
  <2>12. PathOK'
    BY <1>2, <1>4, <1>5, <2>3, <2>5, <2>6, <2>7, <2>8
       DEF TrapsOK, SameTrap, PathOK, ReturnsTo, FrameReturns, CauseOK, Own, BootLabels,
           StartLabels, OpenLabels, TaskLabels, FrameLabels, TrapLabels
  <2>13. SlotsOK'
    BY <1>2, <1>4, <1>5, <2>3, <2>5, <2>6, <2>7, <2>8
       DEF TrapsOK, SlotsOK, Saved, ModeOK, BootLabels, StartLabels, OpenLabels, TaskLabels,
           FrameLabels, TrapLabels
  <2> QED
    BY <1>2, <1>4, <1>5, <2>3, <2>5, <2>6, <2>7, <2>8, <2>9, <2>10, <2>11, <2>12, <2>13
       DEF TrapsOK
<1> QED BY <1>8, <1>9, <1>10

\* The halted machine.
LEMMA HaltStep == ASSUME T!TrapsConstants, TrapsOK, T!Halt PROVE TrapsOK'
<1> DEFINE c == T!Wfi(T!Synced, "halt")
<1>1. T!Executes("halt") /\ T!System(c) /\ UNCHANGED T!kernel BY DEF T!Halt
<1>2. c \in Cpu /\ SameTrap(c, cpu) /\ c.pc = "halt"
  BY <1>1, SyncedHere DEF T!Wfi, Cpu, SameTrap, Labels
<1> HIDE DEF c
<1>3. HartOK' /\ Pc' = Pc /\ SameTrap(cpu', cpu) BY <1>1, <1>2, SystemHere
<1> QED BY <1>1, <1>3, Quiet

\* User mode.
LEMMA UserStep == ASSUME T!TrapsConstants, TrapsOK, T!User PROVE TrapsOK'
<1>1. CASE /\ T!Executes("user") /\ T!Plain("user")
           /\ regs' = [regs EXCEPT !.n = 1 - @] /\ want' = [want EXCEPT ![current] = 1 - @]
           /\ UNCHANGED <<tf, userRegs, state, cont, current, task>>
  <2>1. HartOK' /\ Pc = "user" /\ Pc' = "user" /\ SameTrap(cpu', cpu)
    BY <1>1, PlainHere DEF Labels
  <2>2. /\ want' \in [Procs \cup {0} -> Int] /\ want'[current] = 1 - want[current]
        /\ \A p \in Procs : p # current => want'[p] = want[p]
    BY <1>1 DEF TrapsOK, KernelOK
  <2>3. regs' = [who |-> current, n |-> 1 - want[current]] /\ regs' \in Regs
    <3>1. regs = [who |-> current, n |-> want[current]] /\ regs \in Regs
      BY <2>1 DEF TrapsOK, LiveOK, Own, KernelOK
    <3>2. regs.n \in Int /\ regs.n = want[current] BY <3>1 DEF Regs
    <3> QED BY <1>1, <3>1, <3>2 DEF Regs
  <2>4. \A p \in Procs : p # current /\ Saved(p) => Saved(p)' BY <1>1, <2>2 DEF Saved
  <2>5. UNCHANGED <<tf, userRegs, state, cont, current, task>> BY <1>1
  <2>6. KernelOK'
    BY <2>1, <2>2, <2>3, <2>4, <2>5 DEF TrapsOK, KernelOK, Regs, Frames, Cpu, HartOK
  <2>7. ModeOK'
    BY <2>1, <2>2, <2>3, <2>4, <2>5
       DEF TrapsOK, SameTrap, ModeOK, BootLabels, StartLabels, OpenLabels, TaskLabels,
           FrameLabels, TrapLabels
  <2>8. LiveOK'
    BY <2>1, <2>2, <2>3, <2>4, <2>5
       DEF TrapsOK, SameTrap, ModeOK, LiveOK, Own, BootLabels, StartLabels, OpenLabels,
           TaskLabels, FrameLabels, TrapLabels
  <2>9. PathOK'
    BY <2>1, <2>2, <2>3, <2>4, <2>5
       DEF TrapsOK, SameTrap, PathOK, ReturnsTo, FrameReturns, CauseOK, Own, BootLabels,
           StartLabels, OpenLabels, TaskLabels, FrameLabels, TrapLabels
  <2>10. SlotsOK'
    BY <2>1, <2>2, <2>3, <2>4, <2>5
       DEF TrapsOK, SlotsOK, Saved, ModeOK, BootLabels, StartLabels, OpenLabels, TaskLabels,
           FrameLabels, TrapLabels
  <2> QED BY <2>1, <2>2, <2>3, <2>4, <2>5, <2>6, <2>7, <2>8, <2>9, <2>10 DEF TrapsOK
<1>2. CASE T!Executes("user") /\ T!System(T!Trap(T!Synced, "ecall")) /\ UNCHANGED T!kernel
  <2> DEFINE c == T!Trap(T!Synced, "ecall")
  <2>1. T!Synced \in Cpu /\ SameTrap(T!Synced, cpu) /\ T!Synced.pc = "user" BY <1>2, SyncedHere
  <2>2. "ecall" \in Causes BY DEF Causes
  <2>3. /\ c \in Cpu /\ c.sepc = "user" /\ c.cause = "ecall" /\ c.pc = "entry_regs"
        /\ (c.spp <=> T!Synced.priv = "S") /\ c.spie = T!Synced.sie /\ c.sie = FALSE /\ c.priv = "S"
    BY <2>1, <2>2, TrapOK
  <2>4. HartOK' /\ Pc = "user" /\ Pc' = c.pc /\ cpu' = c BY <1>2, <2>3, SystemHere
  <2> HIDE DEF c
  <2>5. (cpu'.spp <=> cpu.priv = "S") /\ cpu'.spie = cpu.sie BY <2>1, <2>3, <2>4 DEF SameTrap
  <2> QED BY <1>2, <2>3, <2>4, <2>5, Enters
<1>3. CASE T!Executes("user") /\ T!Fault("pagefault") /\ UNCHANGED T!kernel
  <2> DEFINE s == [T!Pending(cpu) EXCEPT !.pc = loop.here]
             c == T!Trap(s, "pagefault")
  <2>1. T!InBatch /\ loop.on /\ loop.here = "user" /\ Pc = "user"
    BY <1>3 DEF T!Executes, T!InBatch, Pc
  <2>2. s \in Cpu /\ s.pc = "user" /\ s.priv = cpu.priv /\ s.sie = cpu.sie
    BY <2>1, PendingOK DEF TrapsOK, HartOK, Cpu, SameTrap, Labels
  <2>3. cpu' = c /\ loop' = [T!Ticked EXCEPT !.here = c.pc] BY <1>3 DEF T!Fault
  <2> HIDE DEF s
  <2>4. "pagefault" \in Causes BY DEF Causes
  <2>5. /\ c \in Cpu /\ c.sepc = "user" /\ c.cause = "pagefault" /\ c.pc = "entry_regs"
        /\ (c.spp <=> s.priv = "S") /\ c.spie = s.sie /\ c.sie = FALSE /\ c.priv = "S"
    BY <2>2, <2>4, TrapOK
  <2> HIDE DEF c
  <2>6. loop' \in Loop /\ loop'.on /\ loop'.here = "entry_regs"
    <3>1. T!Ticked \in Loop /\ T!Ticked.on BY <2>1, TickedOK DEF TrapsOK
    <3> QED BY <2>3, <2>5, <3>1 DEF Loop, Labels, TrapLabels
  <2>7. HartOK' /\ Pc' = "entry_regs" BY <2>3, <2>5, <2>6 DEF HartOK, Pc
  <2>8. (cpu'.spp <=> cpu.priv = "S") /\ cpu'.spie = cpu.sie BY <2>2, <2>3, <2>5
  <2> QED BY <1>3, <2>1, <2>3, <2>5, <2>7, <2>8, Enters
<1> QED BY <1>1, <1>2, <1>3 DEF T!User

\* Every step keeps the invariant.
LEMMA TrapsStepOK == ASSUME T!TrapsConstants, TrapsOK, [T!Next]_(T!vars) PROVE TrapsOK'
<1>1. CASE UNCHANGED T!vars
  <2>1. HartOK' /\ Pc' = Pc /\ SameTrap(cpu', cpu) /\ UNCHANGED T!kernel
    BY <1>1 DEF T!vars, T!hart, TrapsOK, HartOK, Pc, SameTrap
  <2> QED BY <2>1, Quiet
<1> QED BY <1>1, BatchStep, InterruptStep, BootStep, TimerInitStep, TaskBodyStep, TaskYieldStep,
         TimerDisableStep, EnterUsermodeStep, EntryStep, ReturnStep, DispatchStep, TimerIrqStep,
         CreateStep, RestoreStep, SyscallReturnsStep, SyscallPollsStep, SyscallForksStep,
         ScheduleStep, SyscallExitsStep, HaltStep, UserStep DEF T!Next

\* It holds after reset.
LEMMA TrapsInitOK == ASSUME T!TrapsConstants, T!Init PROVE TrapsOK
<1>1. cpu = T!InitCpu("boot") /\ loop = T!Idle BY DEF T!Init, T!InitHart
<1>2. cpu \in Cpu /\ cpu.priv = "S" /\ cpu.sie = FALSE /\ cpu.pc = "boot"
  BY <1>1 DEF T!InitCpu, T!Epoch, Cpu, Labels, BootLabels, StartLabels, Causes
<1>3. loop \in Loop /\ loop.on = FALSE BY <1>1 DEF T!Idle, Loop, Labels, T!TrapsConstants
<1>4. Pc = "boot" /\ HartOK BY <1>2, <1>3 DEF Pc, HartOK
<1>5. T!NoRegs \in Regs /\ T!NoFrame \in Frames
  BY DEF T!NoFrame, T!Frame, T!NoRegs, T!NoStatus, T!Kernel, Frames, Regs, Labels, BootLabels,
         StartLabels, Causes
<1>6. DOMAIN task = {"on", "cur", "last", "saved", "ticks", "switches"} /\ task.cur = 0
  <2>1. PICK b \in BOOLEAN : task = [T!NoTask EXCEPT !.on = b] BY DEF T!Init
  <2> QED BY <2>1 DEF T!NoTask
<1>7. KernelOK BY <1>5, <1>6 DEF T!Init, T!Contexts, KernelOK
<1>8. ModeOK
  BY <1>2, <1>4, <1>6 DEF T!Init, ModeOK, OpenLabels, TaskLabels, BootLabels, StartLabels
<1>9. LiveOK /\ PathOK BY <1>4 DEF LiveOK, PathOK, TaskLabels, FrameLabels
<1>10. SlotsOK BY <1>4 DEF T!Init, SlotsOK
<1> QED BY <1>4, <1>7, <1>8, <1>9, <1>10 DEF TrapsOK

\* For any number of processes, batches and time steps, each process and both
\* kernel tasks find their own registers again, although one trap frame carries
\* them all (riscv64_trap_entry, process_arch_save_trapframe(), switch_context).
THEOREM ContextsSafe == MCSpec => []ContextsKept
<1> DEFINE Here == part = "traps"
<1>1. MCInit /\ Here => TrapsOK
  BY TrapsConstants, TrapsInitOK DEF MCInit
<1>2. TrapsOK /\ Here /\ [MCNext]_mcVars => TrapsOK' /\ Here'
  BY TrapsConstants, TrapsStepOK
     DEF MCNext, TrapsStep, mcVars, trapVars, T!vars, T!hart, T!kernel
<1>3. ~Here /\ [MCNext]_mcVars => ~Here'
  BY DEF MCNext, TrapsStep, mcVars
<1>4. (Here => TrapsOK) => ContextsKept
  <2>1. TrapsOK => T!ContextsKept
    BY DEF TrapsOK, ModeOK, LiveOK, Own, Pc, TaskLabels, T!ContextsKept
  <2> QED BY <2>1 DEF ContextsKept
<1> HIDE DEF Here
<1> QED BY <1>1, <1>2, <1>3, <1>4, PTL DEF MCSpec

-----------------------------------------------------------------------------
(* The countdown.                                                              *)

\* The countdown u belongs to the comparison value v, at time n with steps of s
\* and k instructions of the batch left: it reaches one in the first iteration
\* whose time is v or more, unless the batch ends before.
CountOK(v, s, n, k, u) ==
    /\ u > 0 => v # 0 /\ (n + u * s >= v \/ k < u)
    /\ u > 1 => n + (u - 1) * s < v

\* The inductive part about the timer.
TimerOK ==
    /\ loop.on => cpu.tickStep > 0
    /\ loop.on => CountOK(cpu.timecmp, cpu.tickStep, loop.now, loop.left, loop.until)
    /\ ~loop.on /\ cpu.timerSteps > 0 => cpu.timecmp # 0

\* An iteration of the loop; it keeps the comparison value or sets a new one.
Iterates ==
    /\ loop.on /\ loop.left > 0 /\ loop'.on /\ loop'.left = loop.left - 1
    /\ loop'.now = T!Now /\ cpu'.tickStep = cpu.tickStep
KeepsCount == Iterates /\ cpu'.timecmp = cpu.timecmp /\ loop'.until \in {0, T!Ticked.until}
Arms ==
    /\ Iterates /\ cpu'.timecmp \in Int
    /\ loop'.until = T!Smaller(Countdown(T!Synced, cpu'.timecmp), StepMax)

\* An iteration keeps the countdown right, and so does one that clears it.
LEMMA CountTicks ==
    ASSUME NEW v \in Int, NEW s \in Nat, NEW n \in Int, NEW k \in Nat, NEW u \in Nat,
           CountOK(v, s, n, k + 1, u)
    PROVE  CountOK(v, s, n + s, k, IF u > 1 THEN u - 1 ELSE u) /\ CountOK(v, s, n + s, k, 0)
<1>1. CASE u > 1
  <2> DEFINE w == u - 1
             x == w * s
             y == (w - 1) * s
  <2>1. w \in Nat /\ w > 0 /\ u = w + 1 BY <1>1
  <2>2. u * s = x + s /\ x = y + s /\ x \in Int /\ y \in Int BY <2>1
  <2>3. v # 0 /\ (n + u * s >= v \/ k + 1 < u) /\ n + x < v BY <1>1, <2>1 DEF CountOK
  <2> HIDE DEF w, x, y
  <2>4. ((n + s) + x >= v \/ k < w) /\ (n + s) + y < v BY <2>1, <2>2, <2>3
  <2>5. (n + s) + w * s >= v \/ k < w BY <2>4 DEF x
  <2>6. (n + s) + (w - 1) * s < v BY <2>4 DEF y
  <2>7. CountOK(v, s, n + s, k, w) BY <2>1, <2>3, <2>5, <2>6 DEF CountOK
  <2> QED BY <1>1, <2>7 DEF CountOK, w
<1>2. CASE u = 1
  <2>1. v # 0 /\ n + s >= v BY <1>2 DEF CountOK
  <2>2. (n + s) + s >= v BY <2>1
  <2> QED BY <1>2, <2>1, <2>2 DEF CountOK
<1>3. CASE u = 0 BY <1>3 DEF CountOK
<1> QED BY <1>1, <1>2, <1>3

\* A countdown just computed is right, also one cut off at the largest.
LEMMA CountArmed ==
    ASSUME T!TrapsConstants, NEW c \in Cpu, c.tickStep > 0, NEW v \in Int, NEW k \in 0 .. StepMax - 1
    PROVE  CountOK(v, c.tickStep, c.ticks, k, T!Smaller(Countdown(c, v), StepMax))
<1> DEFINE s == c.tickStep
           n == c.ticks
           d == Countdown(c, v)
           u == T!Smaller(d, StepMax)
<1>1. s \in Nat \ {0} /\ n \in Nat /\ StepMax \in Nat \ {0} /\ k < StepMax /\ k \in Nat
  BY DEF Cpu, T!TrapsConstants
<1>2. CASE v > n
  <2>1. d = T!CeilDiv(v - n, s) /\ v - n \in Nat \ {0} BY <1>1, <1>2 DEF Countdown
  <2> DEFINE e == v - n
  <2>2. e \in Nat \ {0} BY <2>1
  <2> HIDE DEF e
  <2>3. d \in Nat \ {0} /\ d * s >= e /\ (d - 1) * s < e
    BY <1>1, <2>1, <2>2, RoundedUp DEF e
  <2> HIDE DEF d, s, n
  <2>4. ASSUME d <= StepMax PROVE CountOK(v, s, n, k, u)
    <3>1. u = d BY <1>1, <2>3, <2>4 DEF T!Smaller
    <3>2. d * s \in Int /\ (d - 1) * s \in Int BY <1>1, <2>3
    <3>3. n + d * s >= v /\ n + (d - 1) * s < v BY <1>1, <2>3, <3>2 DEF e
    <3>4. v # 0 BY <1>1, <1>2
    <3> HIDE DEF u
    <3> QED BY <3>1, <3>3, <3>4 DEF CountOK
  <2>5. ASSUME ~(d <= StepMax) PROVE CountOK(v, s, n, k, u)
    <3>1. u = StepMax BY <1>1, <2>3, <2>5 DEF T!Smaller
    <3>2. StepMax - 1 <= d - 1 /\ StepMax - 1 \in Nat /\ d - 1 \in Nat BY <1>1, <2>3, <2>5
    <3>3. (StepMax - 1) * s <= (d - 1) * s
      <4> DEFINE a == StepMax - 1
                 b == (d - 1) - a
      <4>1. a \in Nat /\ b \in Nat /\ d - 1 = a + b BY <3>2
      <4> HIDE DEF a, b
      <4>2. (a + b) * s = a * s + b * s /\ b * s >= 0 /\ a * s \in Int /\ b * s \in Int
        BY <1>1, <4>1
      <4> QED BY <4>1, <4>2 DEF a
    <3>4. (StepMax - 1) * s \in Int /\ (d - 1) * s \in Int BY <1>1, <2>3
    <3>5. n + (StepMax - 1) * s < v BY <1>1, <2>3, <3>3, <3>4 DEF e
    <3>6. v # 0 BY <1>1, <1>2
    <3> HIDE DEF u
    <3> QED BY <1>1, <3>1, <3>5, <3>6 DEF CountOK
  <2> QED BY <2>4, <2>5 DEF s, n, d
<1>3. CASE ~(v > n)
  <2>1. d = (IF v # 0 THEN 1 ELSE 0) BY <1>3 DEF Countdown
  <2>2. u = d BY <1>1, <2>1 DEF T!Smaller
  <2> HIDE DEF u, d, s, n
  <2>3. n + 1 * s >= v BY <1>1, <1>3
  <2>4. CountOK(v, s, n, k, u) BY <1>1, <2>1, <2>2, <2>3 DEF CountOK
  <2> QED BY <2>4 DEF u, d, s, n
<1> QED BY <1>2, <1>3
\* The registers of the timer as the head of the iteration left them.
SameCount(c) ==
    /\ c.timecmp = T!Synced.timecmp /\ c.tickStep = T!Synced.tickStep
    /\ c.timerSteps = T!Synced.timerSteps

\* Every instruction but one is an iteration that keeps the comparison value.
LEMMA PlainCounts ==
    ASSUME T!TrapsConstants, TrapsOK, NEW l, NEW n, T!Executes(l), T!Plain(n)
    PROVE  KeepsCount
<1>1. T!InBatch BY DEF T!Executes
<1>2. /\ T!Ticked \in Loop /\ T!Ticked.on = loop.on
      /\ T!Ticked.now = T!Now /\ T!Ticked.left = loop.left - 1
  BY <1>1, TickedOK DEF TrapsOK
<1>3. cpu'.tickStep = cpu.tickStep /\ cpu'.timecmp = cpu.timecmp
  BY PendingOK DEF T!Plain, TrapsOK
<1>4. loop' = [T!Ticked EXCEPT !.here = n] BY DEF T!Plain
<1>5. loop'.on = loop.on /\ loop'.now = T!Now /\ loop'.left = loop.left - 1 /\ loop'.until = T!Ticked.until
  BY <1>2, <1>4 DEF Loop
<1> QED BY <1>1, <1>3, <1>5 DEF KeepsCount, Iterates, T!InBatch

\* A SYSTEM instruction takes the countdown from the globals.
LEMMA SystemIterates ==
    ASSUME T!TrapsConstants, TrapsOK, NEW l, NEW c, T!Executes(l), T!System(c),
           c.tickStep = T!Synced.tickStep
    PROVE  Iterates /\ loop'.until = c.timerSteps /\ cpu' = c
<1>1. T!InBatch BY DEF T!Executes
<1>2. /\ T!Ticked \in Loop /\ T!Ticked.on = loop.on
      /\ T!Ticked.now = T!Now /\ T!Ticked.left = loop.left - 1
  BY <1>1, TickedOK DEF TrapsOK
<1>3. cpu' = c /\ c.tickStep = cpu.tickStep BY <1>1, SyncedOK DEF T!System, TrapsOK
<1>4. loop' = [T!Ticked EXCEPT !.until = c.timerSteps, !.stopped = c.halted, !.here = c.pc]
  BY DEF T!System
<1>5. loop'.on = loop.on /\ loop'.now = T!Now /\ loop'.left = loop.left - 1 /\ loop'.until = c.timerSteps
  BY <1>2, <1>4 DEF Loop
<1> QED BY <1>1, <1>3, <1>5 DEF Iterates, T!InBatch

\* One that leaves the timer alone keeps the countdown.
LEMMA SystemCounts ==
    ASSUME T!TrapsConstants, TrapsOK, NEW l, NEW c, T!Executes(l), T!System(c), SameCount(c)
    PROVE  KeepsCount
<1>1. Iterates /\ loop'.until = c.timerSteps /\ cpu' = c BY SystemIterates DEF SameCount
<1>2. T!Synced.timecmp = cpu.timecmp /\ T!Synced.timerSteps = T!Ticked.until
  BY SyncedOK DEF T!Executes, TrapsOK
<1> QED BY <1>1, <1>2 DEF KeepsCount, SameCount

\* A write of stimecmp computes it.
LEMMA ArmsCount ==
    ASSUME T!TrapsConstants, TrapsOK, NEW l, NEW n, T!Executes(l),
           T!System([T!SetStimecmp(T!Synced, cpu.seen + Delta) EXCEPT !.seen = 0, !.pc = n])
    PROVE  Arms
<1> DEFINE v == cpu.seen + Delta
           e == T!SetStimecmp(T!Synced, v)
           c == [e EXCEPT !.seen = 0, !.pc = n]
<1>1. v \in Int BY DEF TrapsOK, HartOK, Cpu, T!TrapsConstants
<1>2. T!Synced \in Cpu BY SyncedHere
<1>3. /\ e \in Cpu /\ e.timecmp = v /\ e.tickStep = T!Synced.tickStep
      /\ e.timerSteps = T!Smaller(Countdown(T!Synced, v), StepMax)
  BY <1>1, <1>2, SetStimecmpOK
<1>4. T!System(c) OBVIOUS
<1> HIDE DEF e
<1>5. c.timecmp = e.timecmp /\ c.tickStep = e.tickStep /\ c.timerSteps = e.timerSteps
  BY <1>3 DEF Cpu
<1> HIDE DEF c
<1>6. Iterates /\ loop'.until = c.timerSteps /\ cpu' = c BY <1>3, <1>4, <1>5, SystemIterates
<1> HIDE DEF v
<1> QED BY <1>1, <1>3, <1>5, <1>6 DEF Arms

\* The actions, one by one.
LEMMA BootCounts == ASSUME T!TrapsConstants, TrapsOK, T!Boot PROVE KeepsCount
<1>0. \A l, n : T!Executes(l) /\ T!Plain(n) => KeepsCount BY PlainCounts
<1>1. CASE T!Executes("ebreak") /\ T!System(T!Trap(T!Synced, "ebreak"))
  <2>1. T!Synced \in Cpu /\ "ebreak" \in Causes BY <1>1, SyncedHere DEF Causes
  <2>2. SameCount(T!Trap(T!Synced, "ebreak")) BY <2>1, TrapOK DEF SameCount
  <2> QED BY <1>1, <2>2, SystemCounts
<1> QED BY <1>0, <1>1 DEF T!Boot

\* The same for TimerInit.
LEMMA TimerInitCounts == ASSUME T!TrapsConstants, TrapsOK, T!TimerInit PROVE KeepsCount \/ Arms
<1>1. CASE T!Executes("ti_read") /\ T!System([T!ReadTime(T!Synced) EXCEPT !.pc = "ti_arm"])
  <2> DEFINE c == [T!ReadTime(T!Synced) EXCEPT !.pc = "ti_arm"]
  <2>1. T!Synced \in Cpu /\ "ti_arm" \in Labels
    BY <1>1, SyncedHere DEF Labels, BootLabels, StartLabels, TrapLabels, FrameLabels
  <2>2. SameCount(c) BY <2>1, ReadTimeOK DEF SameCount
  <2>3. T!System(c) BY <1>1
  <2> HIDE DEF c
  <2> QED BY <1>1, <2>2, <2>3, SystemCounts
<1>2. CASE /\ T!Executes("ti_arm")
           /\ T!System([T!SetStimecmp(T!Synced, cpu.seen + Delta) EXCEPT !.seen = 0, !.pc = "ti_stie"])
  BY <1>2, ArmsCount
<1>3. CASE T!Executes("ti_stie") /\ T!System([T!Synced EXCEPT !.stie = TRUE, !.pc = "ti_sie"])
  <2> DEFINE c == [T!Synced EXCEPT !.stie = TRUE, !.pc = "ti_sie"]
  <2>1. T!Synced \in Cpu BY <1>3, SyncedHere
  <2>2. SameCount(c) BY <2>1 DEF SameCount, Cpu
  <2>3. T!System(c) BY <1>3
  <2> HIDE DEF c
  <2> QED BY <1>3, <2>2, <2>3, SystemCounts
<1>4. CASE T!Executes("ti_sie") /\ T!System([T!Synced EXCEPT !.sie = TRUE, !.pc = "task_check"])
  <2> DEFINE c == [T!Synced EXCEPT !.sie = TRUE, !.pc = "task_check"]
  <2>1. T!Synced \in Cpu BY <1>4, SyncedHere
  <2>2. SameCount(c) BY <2>1 DEF SameCount, Cpu
  <2>3. T!System(c) BY <1>4
  <2> HIDE DEF c
  <2> QED BY <1>4, <2>2, <2>3, SystemCounts
<1> QED BY <1>1, <1>2, <1>3, <1>4 DEF T!TimerInit

\* The same for TaskBody.
LEMMA TaskBodyCounts == ASSUME T!TrapsConstants, TrapsOK, T!TaskBody PROVE KeepsCount
<1>0. \A l, n : T!Executes(l) /\ T!Plain(n) => KeepsCount BY PlainCounts
<1>1. CASE T!Executes("task_wfi") /\ T!System(T!Wfi(T!Synced, "task_check"))
  <2> DEFINE c == T!Wfi(T!Synced, "task_check")
  <2>1. T!Synced \in Cpu BY <1>1, SyncedHere
  <2>2. SameCount(c) BY <2>1 DEF SameCount, T!Wfi, Cpu
  <2>3. T!System(c) BY <1>1
  <2> HIDE DEF c
  <2> QED BY <1>1, <2>2, <2>3, SystemCounts
<1> QED BY <1>0, <1>1 DEF T!TaskBody

\* The same for TimerDisable.
LEMMA TimerDisableCounts == ASSUME T!TrapsConstants, TrapsOK, T!TimerDisable PROVE KeepsCount
<1>1. CASE T!Executes("td_read") /\ T!System([T!Synced EXCEPT !.pc = "td_write"])
  <2> DEFINE c == [T!Synced EXCEPT !.pc = "td_write"]
  <2>1. T!Synced \in Cpu BY <1>1, SyncedHere
  <2>2. SameCount(c) BY <2>1 DEF SameCount, Cpu
  <2>3. T!System(c) BY <1>1
  <2> HIDE DEF c
  <2> QED BY <1>1, <2>2, <2>3, SystemCounts
<1>2. CASE T!Executes("td_write") /\ T!System([T!Synced EXCEPT !.sie = FALSE, !.pc = "enter_usermode"])
  <2> DEFINE c == [T!Synced EXCEPT !.sie = FALSE, !.pc = "enter_usermode"]
  <2>1. T!Synced \in Cpu BY <1>2, SyncedHere
  <2>2. SameCount(c) BY <2>1 DEF SameCount, Cpu
  <2>3. T!System(c) BY <1>2
  <2> HIDE DEF c
  <2> QED BY <1>2, <2>2, <2>3, SystemCounts
<1> QED BY <1>1, <1>2 DEF T!TimerDisable

\* The same for EnterUsermode.
LEMMA EnterUsermodeCounts == ASSUME T!TrapsConstants, TrapsOK, T!EnterUsermode PROVE KeepsCount
<1>1. CASE T!Executes("enter_usermode") /\ T!System([T!Synced EXCEPT !.sepc = "user", !.spie = cpu.sie, !.spp = FALSE, !.pc = "eu_sret"])
  <2> DEFINE c == [T!Synced EXCEPT !.sepc = "user", !.spie = cpu.sie, !.spp = FALSE, !.pc = "eu_sret"]
  <2>1. T!Synced \in Cpu BY <1>1, SyncedHere
  <2>2. SameCount(c) BY <2>1 DEF SameCount, Cpu
  <2>3. T!System(c) BY <1>1
  <2> HIDE DEF c
  <2> QED BY <1>1, <2>2, <2>3, SystemCounts
<1>2. CASE T!Executes("eu_sret") /\ T!System(T!Sret(T!Synced))
  <2>1. T!Synced \in Cpu BY <1>2, SyncedHere
  <2>2. SameCount(T!Sret(T!Synced)) BY <2>1, SretOK DEF SameCount
  <2> QED BY <1>2, <2>2, SystemCounts
<1> QED BY <1>1, <1>2 DEF T!EnterUsermode

\* The same for Entry.
LEMMA EntryCounts == ASSUME T!TrapsConstants, TrapsOK, T!Entry PROVE KeepsCount
<1>0. \A l, n : T!Executes(l) /\ T!Plain(n) => KeepsCount BY PlainCounts
<1>1. CASE T!Executes("entry_csrs") /\ T!System([T!Synced EXCEPT !.pc = "dispatch"])
  <2> DEFINE c == [T!Synced EXCEPT !.pc = "dispatch"]
  <2>1. T!Synced \in Cpu BY <1>1, SyncedHere
  <2>2. SameCount(c) BY <2>1 DEF SameCount, Cpu
  <2>3. T!System(c) BY <1>1
  <2> HIDE DEF c
  <2> QED BY <1>1, <2>2, <2>3, SystemCounts
<1> QED BY <1>0, <1>1 DEF T!Entry

\* The same for Return.
LEMMA ReturnCounts == ASSUME T!TrapsConstants, TrapsOK, T!Return PROVE KeepsCount
<1>0. \A l, n : T!Executes(l) /\ T!Plain(n) => KeepsCount BY PlainCounts
<1>1. CASE T!Executes("ret_sepc") /\ T!System([T!Synced EXCEPT !.sepc = tf.sepc, !.pc = "ret_status"])
  <2> DEFINE c == [T!Synced EXCEPT !.sepc = tf.sepc, !.pc = "ret_status"]
  <2>1. T!Synced \in Cpu BY <1>1, SyncedHere
  <2>2. SameCount(c) BY <2>1 DEF SameCount, Cpu
  <2>3. T!System(c) BY <1>1
  <2> HIDE DEF c
  <2> QED BY <1>1, <2>2, <2>3, SystemCounts
<1>2. CASE T!Executes("ret_status") /\ T!System([T!SetStatus(T!Synced, tf.status) EXCEPT !.pc = "ret_regs"])
  <2> DEFINE c == [T!SetStatus(T!Synced, tf.status) EXCEPT !.pc = "ret_regs"]
  <2>1. T!Synced \in Cpu BY <1>2, SyncedHere
  <2>2. SameCount(c) BY <2>1 DEF SameCount, T!SetStatus, Cpu
  <2>3. T!System(c) BY <1>2
  <2> HIDE DEF c
  <2> QED BY <1>2, <2>2, <2>3, SystemCounts
<1>3. CASE T!Executes("ret_sret") /\ T!System(T!Sret(T!Synced))
  <2>1. T!Synced \in Cpu BY <1>3, SyncedHere
  <2>2. SameCount(T!Sret(T!Synced)) BY <2>1, SretOK DEF SameCount
  <2> QED BY <1>3, <2>2, SystemCounts
<1> QED BY <1>0, <1>1, <1>2, <1>3 DEF T!Return

\* The same for TimerIrq.
LEMMA TimerIrqCounts == ASSUME T!TrapsConstants, TrapsOK, T!TimerIrq PROVE KeepsCount \/ Arms
<1>0. \A l, n : T!Executes(l) /\ T!Plain(n) => KeepsCount BY PlainCounts
<1>1. CASE T!Executes("irq_read") /\ T!System([T!ReadTime(T!Synced) EXCEPT !.pc = "irq_arm"])
  <2> DEFINE c == [T!ReadTime(T!Synced) EXCEPT !.pc = "irq_arm"]
  <2>1. T!Synced \in Cpu /\ "irq_arm" \in Labels
    BY <1>1, SyncedHere DEF Labels, BootLabels, StartLabels, TrapLabels, FrameLabels
  <2>2. SameCount(c) BY <2>1, ReadTimeOK DEF SameCount
  <2>3. T!System(c) BY <1>1
  <2> HIDE DEF c
  <2> QED BY <1>1, <2>2, <2>3, SystemCounts
<1>2. CASE /\ T!Executes("irq_arm")
           /\ T!System([T!SetStimecmp(T!Synced, cpu.seen + Delta) EXCEPT !.seen = 0, !.pc = "irq_tick"])
  BY <1>2, ArmsCount
<1> QED BY <1>0, <1>1, <1>2 DEF T!TimerIrq

\* The same for User.
LEMMA UserCounts == ASSUME T!TrapsConstants, TrapsOK, T!User PROVE KeepsCount
<1>0. \A l, n : T!Executes(l) /\ T!Plain(n) => KeepsCount BY PlainCounts
<1>1. CASE T!Executes("user") /\ T!System(T!Trap(T!Synced, "ecall"))
  <2>1. T!Synced \in Cpu /\ "ecall" \in Causes BY <1>1, SyncedHere DEF Causes
  <2>2. SameCount(T!Trap(T!Synced, "ecall")) BY <2>1, TrapOK DEF SameCount
  <2> QED BY <1>1, <2>2, SystemCounts
<1>2. CASE T!Executes("user") /\ T!Fault("pagefault")
  <2> DEFINE s == [T!Pending(cpu) EXCEPT !.pc = loop.here]
             c == T!Trap(s, "pagefault")
  <2>1. T!InBatch /\ loop.here = "user" BY <1>2 DEF T!Executes
  <2>2. s \in Cpu /\ s.timecmp = cpu.timecmp /\ s.tickStep = cpu.tickStep
    BY <2>1, PendingOK DEF TrapsOK, HartOK, Cpu, Labels
  <2>3. cpu' = c /\ loop' = [T!Ticked EXCEPT !.here = c.pc] BY <1>2 DEF T!Fault
  <2> HIDE DEF s
  <2>4. c.timecmp = cpu.timecmp /\ c.tickStep = cpu.tickStep
    BY <2>2, TrapOK DEF Causes
  <2> HIDE DEF c
  <2>5. /\ T!Ticked \in Loop /\ T!Ticked.on = loop.on
        /\ T!Ticked.now = T!Now /\ T!Ticked.left = loop.left - 1
    BY <2>1, TickedOK DEF TrapsOK
  <2>6. loop'.on = loop.on /\ loop'.now = T!Now /\ loop'.left = loop.left - 1 /\ loop'.until = T!Ticked.until
    BY <2>3, <2>5 DEF Loop
  <2> QED BY <2>1, <2>3, <2>4, <2>6 DEF KeepsCount, Iterates, T!InBatch
<1> QED BY <1>0, <1>1, <1>2 DEF T!User

\* An interrupt clears the countdown.
LEMMA InterruptCounts == ASSUME T!TrapsConstants, TrapsOK, T!Interrupt PROVE KeepsCount
<1> DEFINE s == [T!Pending(cpu) EXCEPT !.ticks = T!Now, !.timerSteps = 0, !.pc = loop.here]
           c == T!Trap(s, "timer")
<1>1. T!InBatch /\ cpu' = c /\ loop' = T!Woken(c) BY DEF T!Interrupt, T!TakeInterrupt
<1>2. s \in Cpu /\ s.timecmp = cpu.timecmp /\ s.tickStep = cpu.tickStep
  BY <1>1, TickedOK, PendingOK DEF TrapsOK, HartOK, Cpu, Loop
<1> HIDE DEF s
<1>3. c.timecmp = cpu.timecmp /\ c.tickStep = cpu.tickStep BY <1>2, TrapOK DEF Causes
<1> HIDE DEF c
<1>4. loop' = [loop EXCEPT !.left = loop.left - 1, !.now = T!Now, !.until = 0,
                           !.stopped = FALSE, !.here = c.pc]
  BY <1>1 DEF T!Woken
<1>5. loop'.on = loop.on /\ loop'.now = T!Now /\ loop'.left = loop.left - 1 /\ loop'.until = 0
  BY <1>4 DEF TrapsOK, HartOK, Loop
<1> QED BY <1>1, <1>3, <1>5 DEF KeepsCount, Iterates, T!InBatch

\* Outside the host's calls every step is an iteration.
LEMMA StepCounts == ASSUME T!TrapsConstants, TrapsOK, T!Next, ~T!Batch PROVE KeepsCount \/ Arms
<1>1. \A l, n : T!Executes(l) /\ T!Plain(n) => KeepsCount BY PlainCounts
<1>2. T!Halt => KeepsCount
  <2> SUFFICES ASSUME T!Halt PROVE KeepsCount OBVIOUS
  <2> DEFINE c == T!Wfi(T!Synced, "halt")
  <2>1. T!Executes("halt") /\ T!System(c) BY DEF T!Halt
  <2>2. T!Synced \in Cpu BY <2>1, SyncedHere
  <2>3. SameCount(c) BY <2>2 DEF SameCount, T!Wfi, Cpu
  <2> HIDE DEF c
  <2> QED BY <2>1, <2>3, SystemCounts
<1>3. T!TaskYield \/ T!Dispatch \/ T!Create \/ T!Restore => KeepsCount
  BY <1>1 DEF T!TaskYield, T!Dispatch, T!Create, T!Restore
<1>4. T!SyscallReturns \/ T!SyscallPolls \/ T!SyscallForks \/ T!Schedule => KeepsCount
  BY <1>1 DEF T!SyscallReturns, T!SyscallPolls, T!SyscallForks, T!Schedule
<1>5. T!SyscallExits => KeepsCount
  BY <1>1 DEF T!SyscallExits
<1> QED BY <1>2, <1>3, <1>4, <1>5, InterruptCounts, BootCounts, TimerInitCounts, TaskBodyCounts,
         TimerDisableCounts, EnterUsermodeCounts, EntryCounts, ReturnCounts, TimerIrqCounts,
         UserCounts DEF T!Next

\* Every step keeps the countdown right.
LEMMA TimerStepOK == ASSUME T!TrapsConstants, TrapsOK, TimerOK, [T!Next]_(T!vars) PROVE TimerOK'
<1>0. /\ cpu.timecmp \in Int /\ cpu.tickStep \in Nat /\ loop.now \in Nat /\ loop.until \in Nat
      /\ loop.left \in 0 .. StepMax - 1 /\ StepMax \in Nat \ {0}
  BY DEF TrapsOK, HartOK, Cpu, Loop, T!TrapsConstants
<1>1. ASSUME Iterates PROVE /\ loop.left - 1 \in 0 .. StepMax - 1
                            /\ CountOK(cpu.timecmp, cpu.tickStep, loop.now, (loop.left - 1) + 1, loop.until)
  <2>1. loop.left - 1 \in Nat /\ (loop.left - 1) + 1 = loop.left BY <1>0, <1>1 DEF Iterates
  <2> QED BY <1>0, <1>1, <2>1 DEF TimerOK, Iterates
<1>2. CASE KeepsCount
  <2> DEFINE k == loop.left - 1
  <2>1. Iterates /\ cpu'.timecmp = cpu.timecmp /\ loop'.until \in {0, T!Ticked.until}
    BY <1>2 DEF KeepsCount
  <2>2. T!Ticked.until = IF loop.until > 1 THEN loop.until - 1 ELSE loop.until
    BY <2>1, TickedOK DEF TrapsOK, Iterates, T!InBatch
  <2>3. k \in Nat /\ CountOK(cpu.timecmp, cpu.tickStep, loop.now, k + 1, loop.until)
    BY <1>1, <2>1
  <2> HIDE DEF k
  <2>4. /\ CountOK(cpu.timecmp, cpu.tickStep, loop.now + cpu.tickStep, k, T!Ticked.until)
        /\ CountOK(cpu.timecmp, cpu.tickStep, loop.now + cpu.tickStep, k, 0)
    <3> DEFINE v == cpu.timecmp
               s == cpu.tickStep
               n == loop.now
               u == loop.until
    <3>1. /\ v \in Int /\ s \in Nat /\ n \in Int /\ u \in Nat /\ k \in Nat
          /\ CountOK(v, s, n, k + 1, u)
      BY <1>0, <2>3
    <3> HIDE DEF v, s, n, u
    <3>2. CountOK(v, s, n + s, k, IF u > 1 THEN u - 1 ELSE u) /\ CountOK(v, s, n + s, k, 0)
      BY <3>1, CountTicks
    <3> QED BY <2>2, <3>2 DEF v, s, n, u
  <2>5. /\ cpu'.tickStep = cpu.tickStep /\ loop'.now = loop.now + cpu.tickStep /\ loop'.left = k
        /\ loop'.on /\ cpu.tickStep > 0
    BY <2>1 DEF Iterates, T!Now, k, TimerOK
  <2>6. CountOK(cpu'.timecmp, cpu'.tickStep, loop'.now, loop'.left, loop'.until)
    BY <2>1, <2>4, <2>5
  <2> QED BY <2>5, <2>6 DEF TimerOK
<1>3. CASE Arms
  <2>1. Iterates /\ cpu'.timecmp \in Int
        /\ loop'.until = T!Smaller(Countdown(T!Synced, cpu'.timecmp), StepMax)
    BY <1>3 DEF Arms
  <2>2. T!Synced \in Cpu /\ T!Synced.tickStep = cpu.tickStep /\ T!Synced.ticks = T!Now
    BY <2>1, SyncedOK DEF TrapsOK, Iterates, T!InBatch
  <2>3. /\ cpu'.tickStep = cpu.tickStep /\ loop'.now = T!Now /\ loop'.left = loop.left - 1
        /\ loop'.on /\ cpu.tickStep > 0
    BY <2>1 DEF Iterates, TimerOK
  <2>4. loop.left - 1 \in 0 .. StepMax - 1 BY <1>1, <2>1
  <2>5. CountOK(cpu'.timecmp, T!Synced.tickStep, T!Synced.ticks, loop.left - 1,
                T!Smaller(Countdown(T!Synced, cpu'.timecmp), StepMax))
    BY <2>1, <2>2, <2>3, <2>4, CountArmed
  <2>6. CountOK(cpu'.timecmp, cpu'.tickStep, loop'.now, loop'.left, loop'.until)
    BY <2>1, <2>2, <2>3, <2>5
  <2> QED BY <2>3, <2>6 DEF TimerOK
<1>4. CASE T!Batch
  <2>1. ASSUME NEW n \in BatchSizes, NEW d \in TimeAdvances, T!BeginRun(n, d) PROVE TimerOK'
    <3> DEFINE r == T!Rebased(cpu)
               e == [r EXCEPT !.tickStep = d]
               c == T!Rearmed(e)
    <3>0. n \in 0 .. StepMax - 1 /\ d \in Nat /\ d > 0 BY DEF T!TrapsConstants
    <3>1. r \in Cpu /\ r.timerSteps = cpu.timerSteps /\ (r.timecmp = 0 <=> cpu.timecmp = 0)
      BY RebasedOK DEF TrapsOK, HartOK
    <3>2. /\ ~loop.on /\ cpu' = c
          /\ loop' = [on |-> TRUE, left |-> n, now |-> c.ticks,
                      until |-> c.timerSteps, stopped |-> c.halted, here |-> c.pc]
      BY <2>1 DEF T!BeginRun
    <3> HIDE DEF r
    <3>3. e \in Cpu /\ e.tickStep = d /\ e.timerSteps = r.timerSteps /\ e.timecmp = r.timecmp
      BY <3>0, <3>1 DEF Cpu
    <3> HIDE DEF e
    <3>4. c.tickStep = d /\ CountOK(c.timecmp, c.tickStep, c.ticks, n, c.timerSteps)
      <4>1. CASE e.timecmp # 0
        <5>1. e.timecmp \in Int BY <3>3 DEF Cpu
        <5>2. c = T!SetStimecmp(e, e.timecmp) BY <4>1 DEF T!Rearmed
        <5> HIDE DEF c
        <5>3. /\ c.timecmp = e.timecmp /\ c.tickStep = e.tickStep /\ c.ticks = e.ticks
              /\ c.timerSteps = T!Smaller(Countdown(e, e.timecmp), StepMax)
          BY <3>3, <5>1, <5>2, SetStimecmpOK
        <5>4. CountOK(e.timecmp, e.tickStep, e.ticks, n, T!Smaller(Countdown(e, e.timecmp), StepMax))
          BY <3>0, <3>3, <5>1, CountArmed
        <5> QED BY <3>3, <5>3, <5>4
      <4>2. CASE e.timecmp = 0
        <5>1. c = e BY <4>2 DEF T!Rearmed
        <5>2. cpu.timecmp = 0 /\ cpu.timerSteps \in Nat
          BY <3>1, <3>3, <4>2 DEF TrapsOK, HartOK, Cpu
        <5>3. cpu.timerSteps = 0 BY <3>2, <5>2 DEF TimerOK
        <5> HIDE DEF c
        <5>4. c.timerSteps = 0 BY <3>1, <3>3, <5>1, <5>3
        <5> QED BY <3>3, <5>1, <5>4 DEF CountOK
      <4> QED BY <4>1, <4>2
    <3> HIDE DEF c
    <3> QED BY <3>0, <3>2, <3>4 DEF TimerOK
  <2>2. ASSUME T!EndRun PROVE TimerOK'
    <3>1. /\ loop.on /\ loop' = T!Idle
          /\ cpu' = [cpu EXCEPT !.ticks = loop.now, !.timerSteps = loop.until,
                                !.halted = loop.stopped, !.pc = loop.here]
      BY <2>2 DEF T!EndRun
    <3>2. cpu'.timerSteps = loop.until /\ cpu'.timecmp = cpu.timecmp
      BY <3>1 DEF TrapsOK, HartOK, Cpu
    <3>3. loop'.on = FALSE BY <3>1 DEF T!Idle
    <3>4. loop.until > 0 => cpu.timecmp # 0 BY <3>1 DEF TimerOK, CountOK
    <3> QED BY <3>2, <3>3, <3>4 DEF TimerOK
  <2>3. ASSUME T!Sleep PROVE KeepsCount
    <3>1. T!InBatch /\ cpu' = T!Pending(cpu) /\ loop' = T!Ticked BY <2>3 DEF T!Sleep
    <3>2. T!Ticked.on = loop.on /\ T!Ticked.now = T!Now /\ T!Ticked.left = loop.left - 1
      BY <3>1, TickedOK DEF TrapsOK
    <3>3. cpu'.tickStep = cpu.tickStep /\ cpu'.timecmp = cpu.timecmp
      BY <3>1, PendingOK DEF TrapsOK
    <3> QED BY <3>1, <3>2, <3>3 DEF KeepsCount, Iterates, T!InBatch
  <2> QED BY <1>2, <1>4, <2>1, <2>2, <2>3 DEF T!Batch
<1>5. CASE UNCHANGED T!vars BY <1>5 DEF T!vars, T!hart, TimerOK
<1> QED BY <1>2, <1>3, <1>4, <1>5, StepCounts

\* No countdown runs after reset.
LEMMA TimerInitOK == ASSUME T!Init PROVE TimerOK
<1>1. cpu = T!InitCpu("boot") /\ loop = T!Idle BY DEF T!Init, T!InitHart
<1> QED BY <1>1 DEF T!InitCpu, T!Idle, TimerOK

\* A countdown that is right interrupts on time.
LEMMA TimerIsOnTime == ASSUME TrapsOK, TimerOK PROVE T!TimerOnTime
<1> SUFFICES ASSUME T!InBatch PROVE
      /\ T!Taken => cpu.timecmp # 0 /\ T!Now >= cpu.timecmp
      /\ (cpu.priv = "U" \/ cpu.sie) /\ cpu.stie /\ cpu.timecmp # 0 /\ T!Now >= cpu.timecmp
           => T!Taken \/ loop.until = 0
  BY DEF T!TimerOnTime
<1>1. /\ cpu.timecmp \in Int /\ cpu.tickStep \in Nat /\ loop.now \in Nat /\ loop.until \in Nat
      /\ loop.left \in Nat /\ loop.left > 0 /\ cpu.tickStep > 0
      /\ CountOK(cpu.timecmp, cpu.tickStep, loop.now, loop.left, loop.until)
  BY DEF TrapsOK, HartOK, Cpu, Loop, T!InBatch, TimerOK
<1> DEFINE s == cpu.tickStep
           u == loop.until
<1>2. ASSUME u = 1 PROVE cpu.timecmp # 0 /\ T!Now >= cpu.timecmp
  <2>1. cpu.timecmp # 0 /\ loop.now + u * s >= cpu.timecmp BY <1>1, <1>2 DEF CountOK
  <2>2. u * s = s BY <1>1, <1>2
  <2> QED BY <1>1, <2>1, <2>2 DEF T!Now
<1>3. ASSUME u > 1 PROVE T!Now < cpu.timecmp
  <2>1. loop.now + (u - 1) * s < cpu.timecmp BY <1>1, <1>3 DEF CountOK
  <2>2. u - 1 \in Nat /\ u - 1 >= 1 /\ s \in Nat BY <1>1, <1>3
  <2> HIDE DEF s, u
  <2>3. (u - 1) * s >= s /\ (u - 1) * s \in Nat BY <2>2
  <2>4. loop.now + s < cpu.timecmp BY <1>1, <2>1, <2>2, <2>3
  <2> QED BY <2>4 DEF s, T!Now
<1>4. T!Now \in Nat BY <1>1 DEF T!Now
<1>5. u = 0 \/ u = 1 \/ u > 1 BY <1>1
<1> QED BY <1>1, <1>2, <1>3, <1>4, <1>5 DEF T!Taken, T!Due

\* For every interval, batch size and time step, and however the batches cut the
\* countdown, the timer interrupts neither early nor late (rv_run(), set_csr()).
THEOREM TimerSafe == MCSpec => []TimerOnTime
<1> DEFINE Here == part = "traps"
           IInv == TrapsOK /\ TimerOK
<1>1. MCInit /\ Here => IInv
  BY TrapsConstants, TrapsInitOK, TimerInitOK DEF MCInit
<1>2. IInv /\ Here /\ [MCNext]_mcVars => IInv' /\ Here'
  BY TrapsConstants, TrapsStepOK, TimerStepOK
     DEF MCNext, TrapsStep, mcVars, trapVars, T!vars, T!hart, T!kernel
<1>3. ~Here /\ [MCNext]_mcVars => ~Here'
  BY DEF MCNext, TrapsStep, mcVars
<1>4. (Here => IInv) => TimerOnTime
  BY TimerIsOnTime DEF TimerOnTime
<1> HIDE DEF Here, IInv
<1> QED BY <1>1, <1>2, <1>3, <1>4, PTL DEF MCSpec

=============================================================================
