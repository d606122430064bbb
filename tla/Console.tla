------------------------------ MODULE Console -------------------------------
(***************************************************************************)
(* console_read() of kernel/syscall_posix.c: the line discipline of the    *)
(* serial console.  The line and its state are static, so all processes    *)
(* that read the console share them, and a reader gives the processor away *)
(* whenever the UART has nothing for it.                                   *)
(*                                                                         *)
(* A byte typed at the console is a choice at the moment a reader finds    *)
(* one.  Between two bytes the reader may be switched out or not, so a     *)
(* step handles one byte and whatever follows from it.                     *)
(*                                                                         *)
(* A byte that is stored behind console_line[] has the effect it has in    *)
(* the build: the kernel is compiled by the compiler of this repository,   *)
(* which places statics in the order of their declarations, so that        *)
(* console_length is what follows the line.                                *)
(***************************************************************************)
EXTENDS Integers, Sequences, SequencesExt, FiniteSets

CONSTANTS
    Readers,   \* processes that read the console
    LineSize,  \* CONSOLE_LINE_SIZE, 4096 in the code
    Word,      \* the unsigned integers are those below it: 2^32 in the code
    Chars,     \* ordinary bytes
    ByteMax,   \* the greatest value of a byte, 255 in the code
    MaxCount,  \* bound on the count argument of read
    Junk       \* a byte that is not one of the line

ASSUME LineSizeAssumption == LineSize \in Nat /\ LineSize > 1
ASSUME CountAssumption == MaxCount \in Nat
ASSUME ReadersAssumption == IsFiniteSet(Readers)
ASSUME ByteAssumption == ByteMax \in Nat
ASSUME WordAssumption ==
    Word \in Nat /\ LineSize + ByteMax + Cardinality(Readers) + MaxCount < Word
ASSUME CharsAssumption == Chars \cap {"newline", "erase", "eof"} = {}

VARIABLES
    line,   \* the console_length bytes from console_line[0] on
    offset, \* console_offset
    ready,  \* console_ready
    polls,  \* polls[r]: the count of the read that r is in the loop of, or 0
    out     \* the bytes that the last read returned

vars == <<line, offset, ready, polls, out>>

Keys == Chars \cup {"newline", "erase", "eof"}
Bytes == Chars \cup {"newline", Junk}

TypeOK ==
    /\ line \in Seq(Bytes)
    /\ offset \in Nat
    /\ ready \in BOOLEAN
    /\ polls \in [Readers -> 0 .. MaxCount]
    /\ out \in Seq(Bytes)

Init ==
    /\ line = <<>>
    /\ offset = 0
    /\ ready = FALSE
    /\ polls = [r \in Readers |-> 0]
    /\ out = <<>>

\* console_length - console_offset
Left(l) == (Len(l) - offset) % Word

\* The end of console_read(): up to `count' bytes of the line l, of which
\* `offset' are taken already; a line that is used up is cleared.
Take(l, count) ==
    LET n == IF count < Left(l) THEN count ELSE Left(l)
        done == offset + n = Len(l)
    IN  /\ out' = [i \in 1 .. n |-> IF offset + i <= Len(l) THEN l[offset + i] ELSE Junk]
        /\ line' = IF done THEN <<>> ELSE l
        /\ offset' = IF done THEN 0 ELSE offset + n
        /\ ready' = ~done

\* read() with a line ready.
ReadReady(r, count) ==
    /\ polls[r] = 0
    /\ ready
    /\ Take(line, count)
    /\ UNCHANGED polls

\* read() without: the loop is entered, and waits for the UART.
ReadWait(r, count) ==
    /\ polls[r] = 0
    /\ ~ready
    /\ polls' = [polls EXCEPT ![r] = count]
    /\ UNCHANGED <<line, offset, ready, out>>

\* Mutant: nothing checks that there is room.
NoRoom_Never(c) == FALSE

\* The byte is dropped: the last place is kept for the newline.
NoRoom(c) == Len(line) = LineSize - 1 /\ c # "newline"

\* The line after an erase.
Erased == IF line = <<>> THEN <<>> ELSE Front(line)

\* console_length is n: what lies behind the array is not the line.
Reaching(n) == [i \in 1 .. n |-> IF i <= LineSize THEN line[i] ELSE Junk]

\* console_line[console_length++] = c: one line, but for the byte right behind
\* the array.  It is the low byte of console_length, which has been
\* incremented, and LineSize is a multiple of 256: the new length is LineSize
\* and the value of the byte, which is any.  A byte further behind changes
\* what the console does not use.
AfterStore(c) ==
    IF Len(line) < LineSize THEN {Append(line, c)}
    ELSE IF Len(line) = LineSize THEN {Reaching(LineSize + b) : b \in 0 .. ByteMax}
    ELSE {Append(line, Junk)}

\* The line after byte c.
Edited(c) ==
    CASE c = "erase" -> {Erased}
      [] c = "eof"   -> {line}
      [] OTHER       -> IF NoRoom(c) THEN {line} ELSE AfterStore(c)

\* Mutant: end of file ends the read whatever has been typed.
IsEof_Always(c) == c = "eof"

\* End of file on an empty line ends the read.
IsEof(c) == c = "eof" /\ line = <<>>

\* What byte c makes of console_ready.
Releases(c) == ready \/ c \in {"newline", "eof"}

\* Reader r, in its loop, finds byte c in the UART.  It looks at
\* console_ready only after that, not when it has the processor back.
Key(r, c) ==
    /\ polls[r] > 0
    /\ IF IsEof(c)
       THEN /\ out' = <<>>
            /\ polls' = [polls EXCEPT ![r] = 0]
            /\ UNCHANGED <<line, offset, ready>>
       ELSE IF Releases(c)
       THEN /\ \E l \in Edited(c) : Take(l, polls[r])
            /\ polls' = [polls EXCEPT ![r] = 0]
       ELSE /\ line' \in Edited(c)
            /\ UNCHANGED <<offset, ready, polls, out>>

Next ==
    \E r \in Readers :
        \/ \E count \in 1 .. MaxCount : ReadReady(r, count) \/ ReadWait(r, count)
        \/ \E c \in Keys : Key(r, c)

Spec == Init /\ [][Next]_vars

-----------------------------------------------------------------------------
(***************************************************************************)
(* Correctness.                                                            *)
(***************************************************************************)
\* Erasing never takes away what a reader has taken already: the difference
\* console_length - console_offset, which is unsigned, does not wrap, and
\* while a line is ready there is something left of it.
OffsetInLine ==
    /\ offset <= Len(line)
    /\ ready => offset < Len(line)
    /\ ~ready => offset = 0

\* A line that is not released yet has a place left: a reader that looks at
\* console_ready before it stores a byte stores it inside console_line[].
RoomLeft == ~ready => Len(line) < LineSize

\* A line that is released can only be added to by the readers that were
\* waiting then, once each, one of them over console_length.
Polling == {r \in Readers : polls[r] > 0}
ReleasedBound ==
    ready => Len(line) + Cardinality(Polling) < LineSize + ByteMax + Cardinality(Readers)

\* However many processes read the console at once, erasing never takes away
\* what one of them has taken already, and a byte goes behind the buffer only
\* where a reader that waited adds it to a line that another one released
\* (console_read()).
LineKept == TypeOK /\ OffsetInLine /\ RoomLeft

\* The line is inside console_line[].  True of one reader; a second one that
\* waits for the UART does not look at console_ready before it takes a byte,
\* and stores it behind a line that is full and released.
InsideBuffer == Len(line) <= LineSize

\* A read returns nothing only if end of file was typed on an empty line,
\* or if another reader released the line while this one was waiting
\* (console_read()).
EofHonestStep ==
    \A r \in Readers :
        polls[r] > 0 /\ polls'[r] = 0 /\ out' = <<>> => line = <<>> \/ ready
EofHonest == [][EofHonestStep]_vars

\* "editing must happen before bytes are returned to it: ... release a line
\* on enter" (the comment on console_read()): a line that is ready is not
\* edited any more.  True of one reader; a second that waits for the UART
\* edits the line that the first released.
ReleasedLineKept == [][ready /\ ready' => line' = line]_vars
=============================================================================
