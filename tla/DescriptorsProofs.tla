------------------------- MODULE DescriptorsProofs --------------------------
(***************************************************************************)
(* Proofs about Descriptors, for every number of processes, descriptors    *)
(* and pipes: the reference counts of the pipes are exact.                 *)
(***************************************************************************)
EXTENDS Descriptors, FiniteSetTheorems, TLAPS

\* A call that is blocked on a pipe is made by a process that holds one of
\* the pipe's ends: nobody else can close it meanwhile.
BlockedHolds ==
    \A s \in Slots : in_pipe[s] # NoPipe =>
        /\ state[s] = "RUNNABLE"
        /\ \E f \in Fds : fds[s][f].used /\ fds[s][f].pipe = in_pipe[s]

\* BlockedPipeLive alone is not inductive: that a count is positive does not
\* say that the close of another process leaves it positive.
IInv == TypeOK /\ RefsExact /\ FreeEntriesReleased /\ DeadHoldNothing /\ BlockedHolds

-----------------------------------------------------------------------------
(***************************************************************************)
(* Counting.                                                               *)
(***************************************************************************)
LEMMA FinitelyMany == IsFiniteSet(Fds) /\ IsFiniteSet(Slots \X Fds)
  <1>1. IsFiniteSet(Fds)
    BY NStdioAssumption, MaxFdsAssumption, FS_Interval DEF Fds
  <1>2. IsFiniteSet(Slots)
    BY MaxProcessesAssumption, FS_Interval DEF Slots
  <1> QED
    BY <1>1, <1>2, FS_Product

\* Counts of descriptors are natural numbers.
LEMMA CountsAreNat ==
    ASSUME NEW q, NEW w
    PROVE  /\ IsFiniteSet(RefsTo(q, w)) /\ Cardinality(RefsTo(q, w)) \in Nat
           /\ \A s : IsFiniteSet(HeldIn(s, q, w)) /\ Cardinality(HeldIn(s, q, w)) \in Nat
  <1>1. RefsTo(q, w) \in SUBSET (Slots \X Fds)
    BY DEF RefsTo
  <1>2. IsFiniteSet(RefsTo(q, w))
    BY <1>1, FinitelyMany, FS_Subset
  <1>3. \A s : HeldIn(s, q, w) \in SUBSET Fds
    BY DEF HeldIn
  <1>4. \A s : IsFiniteSet(HeldIn(s, q, w))
    BY <1>3, FinitelyMany, FS_Subset
  <1> QED
    BY <1>2, <1>4, FS_CardinalityType

\* The entries of one process, as entries of the system.
Row(s, q, w) == {s} \X HeldIn(s, q, w)

\* A process has as many entries for one end of a pipe as descriptors of it.
LEMMA RowCounted ==
    ASSUME NEW s, NEW q, NEW w
    PROVE  /\ IsFiniteSet(Row(s, q, w))
           /\ Cardinality(Row(s, q, w)) = Cardinality(HeldIn(s, q, w))
  <1>1. IsFiniteSet({s}) /\ Cardinality({s}) = 1
    BY FS_Singleton
  <1>2. IsFiniteSet(HeldIn(s, q, w)) /\ Cardinality(HeldIn(s, q, w)) \in Nat
    BY CountsAreNat
  <1>3. /\ IsFiniteSet({s} \X HeldIn(s, q, w))
        /\ Cardinality({s} \X HeldIn(s, q, w))
             = Cardinality({s}) * Cardinality(HeldIn(s, q, w))
    BY <1>1, <1>2, FS_Product
  <1> QED
    BY <1>1, <1>2, <1>3 DEF Row

\* Two disjoint finite sets.
LEMMA DisjointUnion ==
    ASSUME NEW S, NEW T, IsFiniteSet(S), IsFiniteSet(T), S \cap T = {}
    PROVE  Cardinality(S \cup T) = Cardinality(S) + Cardinality(T)
  <1>1. Cardinality(S \cup T) = Cardinality(S) + Cardinality(T) - Cardinality({})
    BY FS_Union
  <1> QED
    BY <1>1, FS_EmptySet, FS_CardinalityType

\* Two sets of entries with the same elements.
LEMMA SamePairs ==
    ASSUME NEW A, NEW B, A \subseteq Slots \X Fds, B \subseteq Slots \X Fds,
           \A t \in Slots, g \in Fds : <<t, g>> \in A <=> <<t, g>> \in B
    PROVE  A = B
  <1>1. \A y \in Slots \X Fds : y \in A <=> y \in B
    OBVIOUS
  <1> QED
    BY <1>1

\* One entry replaced by another.
EntrySet(s, f, en) ==
    \A t \in Slots, g \in Fds :
        fds'[t][g] = IF t = s /\ g = f THEN en ELSE fds[t][g]

\* The count moves by what the old entry and the new one hold.
LEMMA EntryCounted ==
    ASSUME NEW s \in Slots, NEW f \in Fds, NEW en, EntrySet(s, f, en), NEW q, NEW w
    PROVE  /\ Cardinality(RefsTo(q, w)') =
                Cardinality(RefsTo(q, w)) - HeldBy(fds[s][f], q, w) + HeldBy(en, q, w)
           /\ HeldBy(fds[s][f], q, w) <= Cardinality(RefsTo(q, w))
  <1> DEFINE x == <<s, f>>
             rest == RefsTo(q, w) \ {x}
  <1>1. x \in RefsTo(q, w) <=> Holds(fds[s][f], q, w)
    BY DEF RefsTo
  <1>2. /\ IsFiniteSet(rest)
        /\ Cardinality(rest) = Cardinality(RefsTo(q, w)) - HeldBy(fds[s][f], q, w)
    <2>1. /\ IsFiniteSet(rest)
          /\ Cardinality(rest) = IF x \in RefsTo(q, w) THEN Cardinality(RefsTo(q, w)) - 1
                                 ELSE Cardinality(RefsTo(q, w))
      BY CountsAreNat, FS_RemoveElement
    <2> QED
      BY <1>1, <2>1, CountsAreNat DEF HeldBy
  <1>3. Cardinality(rest) \in Nat
    BY <1>2, FS_CardinalityType
  <1>4. RefsTo(q, w)' = IF Holds(en, q, w) THEN rest \cup {x} ELSE rest
    <2>1. RefsTo(q, w)' = {y \in Slots \X Fds : Holds(fds'[y[1]][y[2]], q, w)}
      BY DEF RefsTo, Holds
    <2>2. \A y \in Slots \X Fds : y \in RefsTo(q, w)' <=>
              IF y = x THEN Holds(en, q, w) ELSE y \in RefsTo(q, w)
      <3> SUFFICES ASSUME NEW t \in Slots, NEW g \in Fds
                   PROVE  <<t, g>> \in RefsTo(q, w)' <=>
                          IF <<t, g>> = x THEN Holds(en, q, w) ELSE <<t, g>> \in RefsTo(q, w)
        OBVIOUS
      <3>1. fds'[t][g] = IF t = s /\ g = f THEN en ELSE fds[t][g]
        BY DEF EntrySet
      <3>2. <<t, g>> \in RefsTo(q, w)' <=> Holds(fds'[t][g], q, w)
        BY <2>1
      <3>3. <<t, g>> \in RefsTo(q, w) <=> Holds(fds[t][g], q, w)
        BY DEF RefsTo
      <3> QED
        BY <3>1, <3>2, <3>3
    <2>3. RefsTo(q, w) \subseteq Slots \X Fds /\ RefsTo(q, w)' \subseteq Slots \X Fds
          /\ x \in Slots \X Fds
      BY <2>1 DEF RefsTo
    <2> HIDE DEF x
    <2> QED
      BY <2>2, <2>3
  <1>5. Cardinality(RefsTo(q, w)') = Cardinality(rest) + HeldBy(en, q, w)
    <2>1. Cardinality(rest \cup {x}) = Cardinality(rest) + 1
      <3> HIDE DEF x
      <3>1. Cardinality(rest \cup {x}) = IF x \in rest THEN Cardinality(rest) ELSE Cardinality(rest) + 1
        <4> HIDE DEF rest
        <4> QED
          BY <1>2, FS_AddElement
      <3> QED
        BY <3>1
    <2> HIDE DEF rest, x
    <2> QED
      BY <1>3, <1>4, <2>1 DEF HeldBy
  <1> HIDE DEF rest
  <1> QED
    BY <1>2, <1>3, <1>5, CountsAreNat DEF HeldBy

-----------------------------------------------------------------------------
(***************************************************************************)
(* The calls that replace one entry: open, close, dup, fcntl and the pipe2 *)
(* that finds one entry only.                                              *)
(***************************************************************************)
\* Entries that hold the same references count the same.
SameHeld(a, b) == \A q \in Pipes, w \in BOOLEAN : HeldBy(a, q, w) = HeldBy(b, q, w)

\* Entries that hold the same ends change the counts alike.
LEMMA SameCounts ==
    ASSUME NEW a, NEW b, NEW c, NEW d, SameHeld(a, b), SameHeld(c, d)
    PROVE  RefsAfter(a, c) = RefsAfter(b, d)
  BY DEF SameHeld, RefsAfter

\* An entry that is free, or has no pipe, holds nothing.
LEMMA HoldsNothing ==
    ASSUME NEW a, NEW b,
           ~a.used \/ a.pipe = NoPipe, ~b.used \/ b.pipe = NoPipe
    PROVE  SameHeld(a, b)
  BY NoPipeAssumption DEF SameHeld, HeldBy, Holds

\* What fd_entry_release() and the zeroed entry are.
LEMMA FreeEntries ==
    /\ FreeEntry \in Entry /\ ~FreeEntry.used /\ FreeEntry.pipe = NoPipe
    /\ \A en \in Entry : /\ Released(en) \in Entry
                         /\ ~Released(en).used /\ Released(en).pipe = NoPipe
  BY DEF FreeEntry, Released, Entry, Shapes

\* One entry is replaced and the counts follow: the invariant is kept.
LEMMA EntryStep ==
    ASSUME IInv, NEW s \in Slots, NEW f \in Fds, NEW en \in Entry,
           CanCall(s), UNCHANGED <<state, in_pipe>>,
           fds' = [fds EXCEPT ![s][f] = en],
           refs' = RefsAfter(fds[s][f], en),
           ~en.used => en.pipe = NoPipe
    PROVE  IInv'
  <1> USE DEF IInv
  <1>1. EntrySet(s, f, en)
    BY DEF TypeOK, EntrySet
  <1>2. \A q \in Pipes, w \in BOOLEAN :
           /\ refs[q][w] = Cardinality(RefsTo(q, w)) /\ refs[q][w] \in Nat
           /\ HeldBy(fds[s][f], q, w) \in {0, 1} /\ HeldBy(en, q, w) \in {0, 1}
    BY DEF RefsExact, TypeOK, HeldBy
  <1>3. \A q \in Pipes, w \in BOOLEAN :
           /\ refs'[q][w] = refs[q][w] - HeldBy(fds[s][f], q, w) + HeldBy(en, q, w)
           /\ refs'[q][w] \in Nat
    <2> SUFFICES ASSUME NEW q \in Pipes, NEW w \in BOOLEAN
                 PROVE  /\ refs'[q][w] = refs[q][w] - HeldBy(fds[s][f], q, w) + HeldBy(en, q, w)
                        /\ refs'[q][w] \in Nat
      OBVIOUS
    <2>1. refs'[q][w] = Minus(refs[q][w], HeldBy(fds[s][f], q, w)) + HeldBy(en, q, w)
      BY DEF RefsAfter
    <2>2. HeldBy(fds[s][f], q, w) <= refs[q][w]
      BY <1>1, <1>2, EntryCounted
    <2> QED
      BY <1>2, <2>1, <2>2 DEF Minus
  <1>4. TypeOK'
    <2>1. refs' = [q \in Pipes |-> [w \in BOOLEAN |-> refs'[q][w]]]
      BY DEF RefsAfter
    <2>2. refs' \in [Pipes -> [BOOLEAN -> Nat]]
      BY <1>3, <2>1
    <2>3. fds' \in [Slots -> [Fds -> Entry]]
      BY DEF TypeOK
    <2> QED
      BY <2>2, <2>3 DEF TypeOK
  <1>5. RefsExact'
    <2> SUFFICES ASSUME NEW q \in Pipes, NEW w \in BOOLEAN
                 PROVE  refs'[q][w] = Cardinality(RefsTo(q, w)')
      BY DEF RefsExact
    <2> QED
      BY <1>1, <1>2, <1>3, EntryCounted
  <1>6. FreeEntriesReleased'
    BY <1>1 DEF EntrySet, FreeEntriesReleased
  <1>7. DeadHoldNothing'
    BY <1>1 DEF EntrySet, DeadHoldNothing, CanCall
  <1>8. BlockedHolds'
    BY <1>1 DEF EntrySet, BlockedHolds, CanCall
  <1> QED
    BY <1>4, <1>5, <1>6, <1>7, <1>8

\* An entry of a table is an entry.
LEMMA EntryTyped ==
    ASSUME IInv, NEW s \in Slots, NEW f \in Fds
    PROVE  /\ fds[s][f] \in Entry
           /\ ~fds[s][f].used => fds[s][f].pipe = NoPipe
  BY DEF IInv, TypeOK, FreeEntriesReleased

\* openat.
LEMMA OpenatStep ==
    ASSUME IInv, NEW s \in Slots, NEW sh \in OpenShapes, Openat(s, sh)
    PROVE  IInv'
  <1>1. PICK f \in Fds :
          /\ IsFreeFd(s, f)
          /\ fds' = [fds EXCEPT ![s][f].used = TRUE, ![s][f].shape = sh]
    BY DEF Openat
  <1> DEFINE en == [fds[s][f] EXCEPT !.used = TRUE, !.shape = sh]
  <1>2. fds[s][f] \in Entry /\ ~fds[s][f].used /\ fds[s][f].pipe = NoPipe
    BY <1>1, EntryTyped DEF IsFreeFd
  <1>3. en \in Entry /\ en.pipe = NoPipe
    BY <1>2, OpenShapesAssumption DEF Entry
  <1>4. fds' = [fds EXCEPT ![s][f] = en]
    BY <1>1 DEF IInv, TypeOK, Entry
  <1> HIDE DEF en
  <1>5. refs' = RefsAfter(fds[s][f], en)
    <2>1. \A q \in Pipes, w \in BOOLEAN :
             /\ HeldBy(fds[s][f], q, w) = 0 /\ HeldBy(en, q, w) = 0
             /\ refs[q][w] \in Nat
      BY <1>2, <1>3, NoPipeAssumption DEF HeldBy, Holds, IInv, TypeOK
    <2>2. refs = [q \in Pipes |-> [w \in BOOLEAN |-> refs[q][w]]] /\ refs' = refs
      BY DEF IInv, TypeOK, Openat
    <2> QED
      BY <2>1, <2>2 DEF RefsAfter, Minus
  <1> QED
    BY <1>3, <1>4, <1>5, EntryStep DEF Openat

\* close.
LEMMA CloseStep ==
    ASSUME IInv, NEW s \in Slots, NEW f \in Fds, Close(s, f)
    PROVE  IInv'
  <1> DEFINE en == Released(fds[s][f])
  <1>1. en \in Entry /\ ~en.used /\ en.pipe = NoPipe
    BY EntryTyped, FreeEntries
  <1>2. SameHeld(FreeEntry, en) /\ SameHeld(fds[s][f], fds[s][f])
    BY <1>1, FreeEntries, HoldsNothing DEF SameHeld
  <1> HIDE DEF en
  <1>3. refs' = RefsAfter(fds[s][f], en)
    BY <1>2, SameCounts DEF Close
  <1> QED
    BY <1>1, <1>3, EntryStep DEF Close, en

\* dup2 and dup3.
LEMMA DupStep ==
    ASSUME IInv, NEW s \in Slots, NEW old \in Fds, NEW new \in Fds, Dup(s, old, new)
    PROVE  IInv'
  <1>1. fds[s][old] \in Entry /\ fds[s][old].used
    BY EntryTyped DEF Dup
  <1> QED
    BY <1>1, EntryStep DEF Dup

\* fcntl(F_DUPFD).
LEMMA FcntlDupFdStep ==
    ASSUME IInv, NEW s \in Slots, NEW old \in Fds, FcntlDupFd(s, old)
    PROVE  IInv'
  <1>1. PICK f \in Fds :
          /\ IsFreeFd(s, f)
          /\ refs' = RefsAfter(FreeEntry, fds[s][old])
          /\ fds' = [fds EXCEPT ![s][f] = fds[s][old]]
    BY DEF FcntlDupFd
  <1>2. fds[s][old] \in Entry /\ fds[s][old].used /\ ~fds[s][f].used
    BY <1>1, EntryTyped DEF FcntlDupFd, IsFreeFd
  <1>3. SameHeld(FreeEntry, fds[s][f]) /\ SameHeld(fds[s][old], fds[s][old])
    BY <1>2, FreeEntries, HoldsNothing DEF SameHeld
  <1>4. refs' = RefsAfter(fds[s][f], fds[s][old])
    BY <1>1, <1>3, SameCounts
  <1> QED
    BY <1>1, <1>2, <1>4, EntryStep DEF FcntlDupFd

\* pipe2 that finds one free descriptor only.
LEMMA Pipe2OneFdStep ==
    ASSUME IInv, NEW s \in Slots, Pipe2OneFd(s)
    PROVE  IInv'
  <1>1. PICK rd \in Fds :
          /\ IsFreeFd(s, rd)
          /\ refs' = RefsAfter([fds[s][rd] EXCEPT !.used = TRUE], FreeEntry)
          /\ fds' = [fds EXCEPT ![s][rd] = Released(fds[s][rd])]
    BY DEF Pipe2OneFd
  <1>2. fds[s][rd] \in Entry /\ ~fds[s][rd].used /\ fds[s][rd].pipe = NoPipe
    BY <1>1, EntryTyped DEF IsFreeFd
  <1> DEFINE a == [fds[s][rd] EXCEPT !.used = TRUE]
             en == Released(fds[s][rd])
  <1>3. a.pipe = NoPipe
    BY <1>2 DEF Entry
  <1>4. en \in Entry /\ ~en.used /\ en.pipe = NoPipe
    BY <1>2, FreeEntries
  <1> HIDE DEF a, en
  <1>5. SameHeld(a, fds[s][rd]) /\ SameHeld(FreeEntry, en)
    BY <1>2, <1>3, <1>4, FreeEntries, HoldsNothing
  <1>6. refs' = RefsAfter(fds[s][rd], en)
    BY <1>1, <1>5, SameCounts DEF a
  <1> QED
    BY <1>1, <1>4, <1>6, EntryStep DEF Pipe2OneFd, en


-----------------------------------------------------------------------------
(***************************************************************************)
(* The other calls.                                                        *)
(***************************************************************************)
\* pipe2: nobody refers to the pipe that is handed out, and the two entries
\* are the only ones to do so afterwards.
LEMMA Pipe2Step ==
    ASSUME IInv, NEW s \in Slots, Pipe2(s)
    PROVE  IInv'
  <1> USE DEF IInv
  <1>1. PICK p \in Pipes, rd \in Fds, wr \in Fds :
          /\ IsFreePipe(p)
          /\ IsFreeFd(s, rd)
          /\ wr # rd /\ ~fds[s][wr].used
          /\ refs' = [refs EXCEPT ![p] = [w \in BOOLEAN |-> 1]]
          /\ fds' = [fds EXCEPT ![s][rd] = PipeEnd(fds[s][rd], p, FALSE),
                                ![s][wr] = PipeEnd(fds[s][wr], p, TRUE)]
    BY DEF Pipe2
  <1>2. CanCall(s) /\ UNCHANGED <<state, in_pipe>>
    BY DEF Pipe2
  <1>3. /\ fds[s][rd] \in Entry /\ fds[s][wr] \in Entry
        /\ ~fds[s][rd].used /\ ~fds[s][wr].used
    BY <1>1, EntryTyped DEF IsFreeFd
  <1> DEFINE er == PipeEnd(fds[s][rd], p, FALSE)
             ew == PipeEnd(fds[s][wr], p, TRUE)
  <1>4. /\ er \in Entry /\ er.used /\ er.pipe = p /\ er.pipe_write = FALSE
        /\ ew \in Entry /\ ew.used /\ ew.pipe = p /\ ew.pipe_write = TRUE
    BY <1>3 DEF PipeEnd, Entry
  <1>5. fds' = [fds EXCEPT ![s][rd] = er, ![s][wr] = ew]
    BY <1>1
  <1> HIDE DEF er, ew
  <1>6. \A t \in Slots, g \in Fds :
          fds'[t][g] = IF t = s /\ g = rd THEN er
                       ELSE IF t = s /\ g = wr THEN ew ELSE fds[t][g]
    <2>1. fds' = [fds EXCEPT ![s] = [fds[s] EXCEPT ![rd] = er, ![wr] = ew]]
      BY <1>5 DEF TypeOK
    <2>2. fds'[s] = [fds[s] EXCEPT ![rd] = er, ![wr] = ew]
      BY <2>1 DEF TypeOK
    <2>3. \A g \in Fds : fds'[s][g] = IF g = rd THEN er ELSE IF g = wr THEN ew ELSE fds[s][g]
      BY <1>1, <2>2 DEF TypeOK
    <2>4. \A t \in Slots : t # s => fds'[t] = fds[t]
      BY <2>1 DEF TypeOK
    <2> QED
      BY <2>3, <2>4
  <1>7. TypeOK'
    <2>1. fds' \in [Slots -> [Fds -> Entry]]
      BY <1>4, <1>5 DEF TypeOK
    <2>2. refs' \in [Pipes -> [BOOLEAN -> Nat]]
      BY <1>1 DEF TypeOK
    <2> QED
      BY <1>2, <2>1, <2>2 DEF TypeOK
  <1>8. RefsExact'
    <2> SUFFICES ASSUME NEW q \in Pipes, NEW w \in BOOLEAN
                 PROVE  refs'[q][w] = Cardinality(RefsTo(q, w)')
      BY DEF RefsExact
    <2>1. ASSUME NEW t \in Slots, NEW g \in Fds
          PROVE  <<t, g>> \in RefsTo(q, w)' <=> Holds(fds'[t][g], q, w)
      BY DEF RefsTo, Holds
    <2>2. ASSUME NEW t \in Slots, NEW g \in Fds
          PROVE  <<t, g>> \in RefsTo(q, w) <=> Holds(fds[t][g], q, w)
      BY DEF RefsTo
    <2>3. RefsTo(q, w) \subseteq Slots \X Fds /\ RefsTo(q, w)' \subseteq Slots \X Fds
      BY DEF RefsTo
    <2>4. CASE q = p
      <3>1. refs[q][w] = 0
        BY <1>1, <2>4 DEF IsFreePipe
      <3>2. RefsTo(q, w) = {}
        BY <3>1, CountsAreNat, FS_EmptySet DEF RefsExact
      <3> DEFINE y == IF w THEN <<s, wr>> ELSE <<s, rd>>
      <3>3. \A t \in Slots, g \in Fds : <<t, g>> \in RefsTo(q, w)' <=> <<t, g>> = y
        <4> SUFFICES ASSUME NEW t \in Slots, NEW g \in Fds
                     PROVE  Holds(fds'[t][g], q, w) <=> <<t, g>> = y
          BY <2>1
        <4>1. ~Holds(fds[t][g], q, w)
          BY <2>2, <3>2
        <4>2. (Holds(er, q, w) <=> w = FALSE) /\ (Holds(ew, q, w) <=> w = TRUE)
          BY <1>4, <2>4 DEF Holds
        <4>3. fds'[t][g] = IF t = s /\ g = rd THEN er
                           ELSE IF t = s /\ g = wr THEN ew ELSE fds[t][g]
          BY <1>6
        <4>4. CASE w = TRUE
          <5>1. <<t, g>> = y <=> t = s /\ g = wr
            BY <4>4
          <5> QED
            BY <1>1, <4>1, <4>2, <4>3, <4>4, <5>1
        <4>5. CASE w = FALSE
          <5>1. <<t, g>> = y <=> t = s /\ g = rd
            BY <4>5
          <5> QED
            BY <1>1, <4>1, <4>2, <4>3, <4>5, <5>1
        <4> QED
          BY <4>4, <4>5
      <3>4. y \in Slots \X Fds
        OBVIOUS
      <3>5. RefsTo(q, w)' = {y}
        <4> HIDE DEF y
        <4> QED
          BY <2>3, <3>3, <3>4
      <3>6. Cardinality(RefsTo(q, w)') = 1
        BY <3>5, FS_Singleton
      <3> QED
        BY <1>1, <2>4, <3>6 DEF TypeOK
    <2>5. CASE q # p
      <3>1. \A t \in Slots, g \in Fds : <<t, g>> \in RefsTo(q, w)' <=> <<t, g>> \in RefsTo(q, w)
        <4> SUFFICES ASSUME NEW t \in Slots, NEW g \in Fds
                     PROVE  Holds(fds'[t][g], q, w) <=> Holds(fds[t][g], q, w)
          BY <2>1, <2>2
        <4> QED
          BY <1>3, <1>4, <1>6, <2>5 DEF Holds
      <3>2. RefsTo(q, w)' = RefsTo(q, w)
        BY <2>3, <3>1, SamePairs
      <3>3. refs'[q][w] = refs[q][w]
        BY <1>1, <2>5 DEF TypeOK
      <3> QED
        BY <3>2, <3>3 DEF RefsExact
    <2> QED
      BY <2>4, <2>5
  <1>9. FreeEntriesReleased'
    BY <1>4, <1>6 DEF FreeEntriesReleased
  <1>10. DeadHoldNothing'
    BY <1>2, <1>6 DEF DeadHoldNothing, CanCall
  <1>11. BlockedHolds'
    BY <1>2, <1>6 DEF BlockedHolds, CanCall
  <1> QED
    BY <1>7, <1>8, <1>9, <1>10, <1>11

\* fork: the copies in the child's row are counted once each.
LEMMA ForkStep ==
    ASSUME IInv, NEW s \in Slots, Fork(s)
    PROVE  IInv'
  <1> USE DEF IInv
  <1>1. PICK c \in Slots :
          /\ IsFirstUnused(state, c)
          /\ state' = [state EXCEPT ![c] = "RUNNABLE"]
          /\ fds' = [fds EXCEPT ![c] = fds[s]]
    BY DEF Fork
  <1>2. /\ CanCall(s) /\ UNCHANGED in_pipe
        /\ refs' = [q \in Pipes |-> [w \in BOOLEAN |->
                      refs[q][w] + Cardinality(HeldIn(s, q, w))]]
    BY DEF Fork
  <1>3. state[c] = "UNUSED" /\ state[s] = "RUNNABLE" /\ c # s
    BY <1>1, <1>2 DEF IsFirstUnused, CanCall
  <1>4. \A t \in Slots, g \in Fds : fds'[t][g] = IF t = c THEN fds[s][g] ELSE fds[t][g]
    BY <1>1 DEF TypeOK
  <1>5. \A t \in Slots : state'[t] = IF t = c THEN "RUNNABLE" ELSE state[t]
    BY <1>1 DEF TypeOK
  <1>6. TypeOK'
    <2>1. \A q \in Pipes, w \in BOOLEAN : refs[q][w] + Cardinality(HeldIn(s, q, w)) \in Nat
      <3> SUFFICES ASSUME NEW q \in Pipes, NEW w \in BOOLEAN
                   PROVE  refs[q][w] + Cardinality(HeldIn(s, q, w)) \in Nat
        OBVIOUS
      <3>1. refs[q][w] \in Nat /\ Cardinality(HeldIn(s, q, w)) \in Nat
        BY CountsAreNat DEF TypeOK
      <3> QED
        BY <3>1
    <2>2. refs' \in [Pipes -> [BOOLEAN -> Nat]]
      BY <1>2, <2>1
    <2> QED
      BY <1>1, <1>2, <2>2 DEF TypeOK, ProcessState
  <1>7. RefsExact'
    <2> SUFFICES ASSUME NEW q \in Pipes, NEW w \in BOOLEAN
                 PROVE  refs'[q][w] = Cardinality(RefsTo(q, w)')
      BY DEF RefsExact
    <2> DEFINE new == {c} \X HeldIn(s, q, w)
    <2>1. IsFiniteSet(new) /\ Cardinality(new) = Cardinality(HeldIn(s, q, w))
      <3>1. IsFiniteSet({c}) /\ Cardinality({c}) = 1
        BY FS_Singleton
      <3>2. IsFiniteSet(HeldIn(s, q, w)) /\ Cardinality(HeldIn(s, q, w)) \in Nat
        BY CountsAreNat
      <3>3. IsFiniteSet(new) /\ Cardinality(new) = Cardinality({c}) * Cardinality(HeldIn(s, q, w))
        BY <3>1, <3>2, FS_Product
      <3> QED
        BY <3>1, <3>2, <3>3
    <2>2. ASSUME NEW t \in Slots, NEW g \in Fds
          PROVE  /\ <<t, g>> \in RefsTo(q, w)' <=> Holds(fds'[t][g], q, w)
                 /\ <<t, g>> \in RefsTo(q, w) <=> Holds(fds[t][g], q, w)
                 /\ <<t, g>> \in new <=> t = c /\ Holds(fds[s][g], q, w)
      BY DEF RefsTo, Holds, HeldIn
    <2>3. /\ RefsTo(q, w) \subseteq Slots \X Fds /\ RefsTo(q, w)' \subseteq Slots \X Fds
          /\ new \subseteq Slots \X Fds
      BY DEF RefsTo, HeldIn
    <2> HIDE DEF new
    <2>4. \A g \in Fds : ~Holds(fds[c][g], q, w)
      BY <1>3 DEF DeadHoldNothing, Holds
    <2>5. \A t \in Slots, g \in Fds :
            /\ <<t, g>> \in RefsTo(q, w)' <=> <<t, g>> \in RefsTo(q, w) \cup new
            /\ <<t, g>> \notin RefsTo(q, w) \cap new
      <3> SUFFICES ASSUME NEW t \in Slots, NEW g \in Fds
                   PROVE  /\ <<t, g>> \in RefsTo(q, w)' <=> <<t, g>> \in RefsTo(q, w) \cup new
                          /\ <<t, g>> \notin RefsTo(q, w) \cap new
        OBVIOUS
      <3>1. CASE t = c
        BY <3>1, <1>4, <2>2, <2>4
      <3>2. CASE t # c
        BY <3>2, <1>4, <2>2, <2>4
      <3> QED
        BY <3>1, <3>2
    <2>6. RefsTo(q, w)' = RefsTo(q, w) \cup new /\ RefsTo(q, w) \cap new = {}
      BY <2>3, <2>5
    <2>7. Cardinality(RefsTo(q, w) \cup new) = Cardinality(RefsTo(q, w)) + Cardinality(new)
      BY <2>1, <2>6, CountsAreNat, DisjointUnion
    <2> QED
      BY <1>2, <2>1, <2>6, <2>7 DEF RefsExact
  <1>8. FreeEntriesReleased'
    BY <1>4 DEF FreeEntriesReleased
  <1>9. DeadHoldNothing'
    BY <1>4, <1>5 DEF DeadHoldNothing
  <1>10. BlockedHolds'
    BY <1>2, <1>3, <1>4, <1>5 DEF BlockedHolds
  <1> QED
    BY <1>6, <1>7, <1>8, <1>9, <1>10

\* exit: what the process held is taken off the counts, never below zero.
LEMMA ExitStep ==
    ASSUME IInv, NEW s \in Slots, Exit(s)
    PROVE  IInv'
  <1> USE DEF IInv
  <1>1. /\ CanCall(s) /\ UNCHANGED in_pipe
        /\ state' = [state EXCEPT ![s] = "ZOMBIE"]
        /\ fds' = [fds EXCEPT ![s] = [f \in Fds |-> Released(fds[s][f])]]
        /\ refs' = [q \in Pipes |-> [w \in BOOLEAN |->
                      Minus(refs[q][w], Cardinality(HeldIn(s, q, w)))]]
    BY DEF Exit
  <1>2. \A t \in Slots, g \in Fds :
          fds'[t][g] = IF t = s THEN Released(fds[s][g]) ELSE fds[t][g]
    BY <1>1 DEF TypeOK
  <1>3. \A g \in Fds : /\ Released(fds[s][g]) \in Entry
                       /\ ~Released(fds[s][g]).used /\ Released(fds[s][g]).pipe = NoPipe
    BY EntryTyped, FreeEntries
  <1>4. \A t \in Slots : state'[t] = IF t = s THEN "ZOMBIE" ELSE state[t]
    BY <1>1 DEF TypeOK
  <1>5. ASSUME NEW q \in Pipes, NEW w \in BOOLEAN
        PROVE  /\ refs'[q][w] = Cardinality(RefsTo(q, w)')
               /\ refs'[q][w] \in Nat
    <2> DEFINE row == Row(s, q, w)
    <2>1. IsFiniteSet(row) /\ Cardinality(row) = Cardinality(HeldIn(s, q, w))
      BY RowCounted
    <2>2. ASSUME NEW t \in Slots, NEW g \in Fds
          PROVE  /\ <<t, g>> \in RefsTo(q, w)' <=> Holds(fds'[t][g], q, w)
                 /\ <<t, g>> \in RefsTo(q, w) <=> Holds(fds[t][g], q, w)
                 /\ <<t, g>> \in row <=> t = s /\ Holds(fds[s][g], q, w)
      BY DEF RefsTo, Holds, HeldIn, Row
    <2>3. /\ RefsTo(q, w) \subseteq Slots \X Fds /\ RefsTo(q, w)' \subseteq Slots \X Fds
          /\ row \subseteq Slots \X Fds
      BY DEF RefsTo, HeldIn, Row
    <2> HIDE DEF row
    <2>4. \A g \in Fds : ~Holds(fds'[s][g], q, w)
      BY <1>2, <1>3 DEF Holds
    <2>5. \A t \in Slots, g \in Fds :
            /\ <<t, g>> \in RefsTo(q, w) <=> <<t, g>> \in RefsTo(q, w)' \cup row
            /\ <<t, g>> \notin RefsTo(q, w)' \cap row
      <3> SUFFICES ASSUME NEW t \in Slots, NEW g \in Fds
                   PROVE  /\ <<t, g>> \in RefsTo(q, w) <=> <<t, g>> \in RefsTo(q, w)' \cup row
                          /\ <<t, g>> \notin RefsTo(q, w)' \cap row
        OBVIOUS
      <3>1. CASE t = s
        BY <3>1, <1>2, <2>2, <2>4
      <3>2. CASE t # s
        BY <3>2, <1>2, <2>2, <2>4
      <3> QED
        BY <3>1, <3>2
    <2>6. RefsTo(q, w) = RefsTo(q, w)' \cup row /\ RefsTo(q, w)' \cap row = {}
      BY <2>3, <2>5
    <2>7. IsFiniteSet(RefsTo(q, w)') /\ Cardinality(RefsTo(q, w)') \in Nat
      <3>1. RefsTo(q, w)' \in SUBSET RefsTo(q, w)
        BY <2>6
      <3> QED
        BY <3>1, CountsAreNat, FS_Subset, FS_CardinalityType
    <2>8. Cardinality(RefsTo(q, w)' \cup row) = Cardinality(RefsTo(q, w)') + Cardinality(row)
      BY <2>1, <2>6, <2>7, DisjointUnion
    <2>9. refs[q][w] = Cardinality(RefsTo(q, w)') + Cardinality(HeldIn(s, q, w))
      BY <2>1, <2>6, <2>8 DEF RefsExact
    <2>10. Cardinality(HeldIn(s, q, w)) \in Nat
      BY CountsAreNat
    <2>11. refs'[q][w] = Minus(refs[q][w], Cardinality(HeldIn(s, q, w)))
      BY <1>1
    <2> QED
      BY <2>7, <2>9, <2>10, <2>11 DEF Minus
  <1>6. TypeOK'
    <2>1. refs' = [q \in Pipes |-> [w \in BOOLEAN |-> refs'[q][w]]]
      BY <1>1
    <2>2. refs' \in [Pipes -> [BOOLEAN -> Nat]]
      BY <1>5, <2>1
    <2> QED
      BY <1>1, <1>3, <2>2 DEF TypeOK, ProcessState
  <1>7. RefsExact'
    BY <1>5 DEF RefsExact
  <1>8. FreeEntriesReleased'
    BY <1>2, <1>3 DEF FreeEntriesReleased
  <1>9. DeadHoldNothing'
    BY <1>2, <1>3, <1>4 DEF DeadHoldNothing
  <1>10. BlockedHolds'
    BY <1>1, <1>2, <1>4 DEF BlockedHolds, CanCall
  <1> QED
    BY <1>6, <1>7, <1>8, <1>9, <1>10

\* A step that leaves descriptors and counts alone leaves the counts exact.
LEMMA TableKept ==
    ASSUME IInv, UNCHANGED <<fds, refs>>
    PROVE  RefsExact' /\ FreeEntriesReleased'
  BY DEF IInv, RefsExact, RefsTo, Holds, FreeEntriesReleased

\* wait4.
LEMMA ReapStep ==
    ASSUME IInv, NEW s \in Slots, Reap(s)
    PROVE  IInv'
  <1>1. /\ state[s] = "ZOMBIE" /\ state' = [state EXCEPT ![s] = "UNUSED"]
        /\ UNCHANGED <<fds, refs, in_pipe>>
    BY DEF Reap
  <1>2. TypeOK' /\ DeadHoldNothing' /\ BlockedHolds'
    BY <1>1 DEF IInv, TypeOK, ProcessState, DeadHoldNothing, BlockedHolds
  <1> QED
    BY <1>1, <1>2, TableKept DEF IInv

\* Reads and writes of a pipe.
LEMMA PipeCallStep ==
    ASSUME IInv, NEW s \in Slots,
           (\E f \in Fds : EnterPipe(s, f)) \/ LeavePipe(s)
    PROVE  IInv'
  <1>1. UNCHANGED <<state, fds, refs>>
    BY DEF EnterPipe, LeavePipe
  <1>2. TypeOK' /\ DeadHoldNothing'
    BY DEF IInv, TypeOK, DeadHoldNothing, EnterPipe, LeavePipe, Entry
  <1>3. BlockedHolds'
    BY DEF IInv, TypeOK, BlockedHolds, EnterPipe, LeavePipe, CanCall
  <1> QED
    BY <1>1, <1>2, <1>3, TableKept DEF IInv

\* The first process.
LEMMA InitStep ==
    ASSUME Init
    PROVE  IInv
  <1>1. TypeOK
    BY FreeEntries DEF Init, TypeOK, ProcessState
  <1>2. \A s \in Slots, f \in Fds : ~fds[s][f].used /\ fds[s][f].pipe = NoPipe
    BY FreeEntries DEF Init
  <1>3. RefsExact
    <2>1. \A q \in Pipes, w \in BOOLEAN : RefsTo(q, w) = {}
      BY <1>2 DEF RefsTo, Holds
    <2> QED
      BY <2>1, FS_EmptySet DEF Init, RefsExact
  <1> QED
    BY <1>1, <1>2, <1>3 DEF IInv, FreeEntriesReleased, DeadHoldNothing, BlockedHolds, Init

\* Every step keeps the invariant.
LEMMA NextStep ==
    ASSUME IInv, [Next]_vars
    PROVE  IInv'
  <1>1. CASE UNCHANGED vars
    <2>1. TypeOK' /\ DeadHoldNothing' /\ BlockedHolds'
      BY <1>1 DEF vars, IInv, TypeOK, DeadHoldNothing, BlockedHolds
    <2> QED
      BY <1>1, <2>1, TableKept DEF vars, IInv
  <1>2. ASSUME NEW s \in Slots,
               \/ \E sh \in OpenShapes : Openat(s, sh)
               \/ \E f \in Fds : Close(s, f)
               \/ \E old, new \in Fds : Dup(s, old, new)
               \/ \E old \in Fds : FcntlDupFd(s, old)
               \/ Pipe2(s) \/ Pipe2OneFd(s) \/ Fork(s) \/ Exit(s) \/ Reap(s)
               \/ \E f \in Fds : EnterPipe(s, f)
               \/ LeavePipe(s)
        PROVE  IInv'
    BY <1>2, OpenatStep, CloseStep, DupStep, FcntlDupFdStep, Pipe2Step,
       Pipe2OneFdStep, ForkStep, ExitStep, ReapStep, PipeCallStep
  <1> QED
    BY <1>1, <1>2 DEF Next, HaltForever

\* A process blocked on a pipe holds an end, so the count of that end is
\* positive and pipe2() passes the pipe over.
LEMMA BlockedIsCounted ==
    ASSUME IInv
    PROVE  BlockedPipeLive
  <1> SUFFICES ASSUME NEW s \in Slots, in_pipe[s] # NoPipe
               PROVE  \E w \in BOOLEAN : refs[in_pipe[s]][w] > 0
    BY DEF BlockedPipeLive
  <1>1. PICK f \in Fds : fds[s][f].used /\ fds[s][f].pipe = in_pipe[s]
    BY DEF IInv, BlockedHolds
  <1> DEFINE q == in_pipe[s]
             w == fds[s][f].pipe_write
  <1>2. q \in Pipes /\ w \in BOOLEAN
    BY DEF IInv, TypeOK, Entry
  <1>3. <<s, f>> \in RefsTo(q, w)
    BY <1>1 DEF RefsTo, Holds
  <1> HIDE DEF q, w
  <1>4. Cardinality(RefsTo(q, w)) \in Nat /\ Cardinality(RefsTo(q, w)) # 0
    BY <1>3, CountsAreNat, FS_EmptySet
  <1>5. refs[q][w] > 0
    BY <1>2, <1>4 DEF IInv, RefsExact
  <1> QED
    BY <1>2, <1>5 DEF q

\* Through every sequence of open, dup, fork, close, pipe2 and exit, by any
\* number of processes, the counts of every pipe are exact, free entries and
\* dead processes hold nothing, and a blocked call keeps its pipe.
THEOREM DescriptorsSafe == Spec => []DescriptorsOK
  <1>1. Init => IInv
    BY InitStep
  <1>2. IInv /\ [Next]_vars => IInv'
    BY NextStep
  <1>3. IInv => DescriptorsOK
    BY BlockedIsCounted DEF IInv, DescriptorsOK
  <1> QED
    BY <1>1, <1>2, <1>3, PTL DEF Spec

=============================================================================
