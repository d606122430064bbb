-------------------------- MODULE CowMemoryProofs ---------------------------
(***************************************************************************)
(* Proofs about CowMemory, for every number of processes, pages and page   *)
(* tables, and whichever free page pmm_alloc_page() finds.                 *)
(***************************************************************************)
EXTENDS CowMemory, FiniteSetTheorems, TLAPS

\* A slot that fork may take has no page mapped.
UnusedEmpty ==
    \A p \in Procs : pstate[p] = "UNUSED" => \A v \in VAs : pt[p][v] = NoPte

\* What is mapped has been written by somebody entitled to.
MappedHaveValues ==
    \A p \in Procs, v \in VAs : Present(p, v) => content[pt[p][v].frame] \in Values

IInv == TypeOK /\ RefsExact /\ WritableUnshared /\ UnusedEmpty /\ MappedHaveValues

-----------------------------------------------------------------------------
(***************************************************************************)
(* Counting PTEs.                                                          *)
(***************************************************************************)
LEMMA FinitelyMany == IsFiniteSet(VAs) /\ IsFiniteSet(Procs \X VAs)
  <1>1. IsFiniteSet(VAs)
    BY LayoutAssumption, FS_Interval DEF VAs
  <1> QED
    BY <1>1, ProcsAssumption, FS_Product

\* Two disjoint finite sets.
LEMMA DisjointUnion ==
    ASSUME NEW S, NEW T, IsFiniteSet(S), IsFiniteSet(T), S \cap T = {}
    PROVE  Cardinality(S \cup T) = Cardinality(S) + Cardinality(T)
  <1>1. Cardinality(S \cup T) = Cardinality(S) + Cardinality(T) - Cardinality({})
    BY FS_Union
  <1> QED
    BY <1>1, FS_EmptySet, FS_CardinalityType

\* The PTEs of the page tables ps that name f: all of them, those in the
\* address space of one process, those in the others'.
UsersIn(ps, f) == {x \in Procs \X VAs : ps[x[1]][x[2]].frame = f}
Naming(row, f) == {v \in VAs : row[v].frame = f}
Elsewhere(ps, p, f) == {x \in (Procs \ {p}) \X VAs : ps[x[1]][x[2]].frame = f}

\* Finitely many PTEs of an address space name a frame.
LEMMA NamingFinite ==
    ASSUME NEW row, NEW f
    PROVE  IsFiniteSet(Naming(row, f)) /\ Cardinality(Naming(row, f)) \in Nat
  <1>1. Naming(row, f) \in SUBSET VAs
    BY DEF Naming
  <1> QED
    BY <1>1, FinitelyMany, FS_Subset, FS_CardinalityType

\* Finitely many PTEs name a frame.
LEMMA UsersFinite ==
    ASSUME NEW ps, NEW f
    PROVE  IsFiniteSet(UsersIn(ps, f)) /\ Cardinality(UsersIn(ps, f)) \in Nat
  <1>1. UsersIn(ps, f) \in SUBSET (Procs \X VAs)
    BY DEF UsersIn
  <1> QED
    BY <1>1, FinitelyMany, FS_Subset, FS_CardinalityType

\* The PTEs of a frame are those of one process and those of the others.
LEMMA UsersSplit ==
    ASSUME NEW ps, NEW f, NEW p \in Procs
    PROVE  /\ Cardinality(UsersIn(ps, f))
                = Cardinality(Elsewhere(ps, p, f)) + Cardinality(Naming(ps[p], f))
           /\ Cardinality(Elsewhere(ps, p, f)) \in Nat
  <1> DEFINE row == {p} \X Naming(ps[p], f)
             rest == Elsewhere(ps, p, f)
  <1>1. IsFiniteSet(row) /\ Cardinality(row) = Cardinality(Naming(ps[p], f))
    <2>1. IsFiniteSet({p}) /\ Cardinality({p}) = 1
      BY FS_Singleton
    <2>2. /\ IsFiniteSet(Naming(ps[p], f)) /\ Cardinality(Naming(ps[p], f)) \in Nat
      BY NamingFinite
    <2>3. IsFiniteSet(row) /\ Cardinality(row) = Cardinality({p}) * Cardinality(Naming(ps[p], f))
      BY <2>1, <2>2, FS_Product
    <2> QED
      BY <2>1, <2>2, <2>3
  <1>2. rest \in SUBSET UsersIn(ps, f)
    BY DEF Elsewhere, UsersIn
  <1>3. IsFiniteSet(rest) /\ Cardinality(rest) \in Nat
    BY <1>2, UsersFinite, FS_Subset, FS_CardinalityType
  <1>4. UsersIn(ps, f) = rest \cup row /\ rest \cap row = {}
    <2>1. \A x \in Procs \X VAs :
             /\ x \in UsersIn(ps, f) <=> x \in rest \/ x \in row
             /\ ~(x \in rest /\ x \in row)
      <3> SUFFICES ASSUME NEW q \in Procs, NEW v \in VAs
                   PROVE  /\ <<q, v>> \in UsersIn(ps, f) <=> <<q, v>> \in rest \/ <<q, v>> \in row
                          /\ ~(<<q, v>> \in rest /\ <<q, v>> \in row)
        OBVIOUS
      <3>1. <<q, v>> \in UsersIn(ps, f) <=> ps[q][v].frame = f
        BY DEF UsersIn
      <3>2. <<q, v>> \in rest <=> q # p /\ ps[q][v].frame = f
        BY DEF Elsewhere
      <3>3. <<q, v>> \in row <=> q = p /\ ps[p][v].frame = f
        BY DEF Naming
      <3> QED
        BY <3>1, <3>2, <3>3
    <2>2. UsersIn(ps, f) \subseteq Procs \X VAs /\ rest \subseteq Procs \X VAs
          /\ row \subseteq Procs \X VAs
      BY DEF UsersIn, Elsewhere, Naming
    <2> HIDE DEF rest, row
    <2> QED
      BY <2>1, <2>2
  <1>5. Cardinality(rest \cup row) = Cardinality(rest) + Cardinality(row)
    <2> HIDE DEF rest, row
    <2> QED
      BY <1>1, <1>3, <1>4, DisjointUnion
  <1> QED
    BY <1>1, <1>3, <1>4, <1>5

\* Only the frames that one process has change.
OthersKept(ps, qs, p) ==
    \A q \in Procs \ {p}, v \in VAs : qs[q][v].frame = ps[q][v].frame

\* When the page table of one process changes, the count of a frame changes
\* by what that process has of it.
LEMMA OneRowChanged ==
    ASSUME NEW ps, NEW qs, NEW p \in Procs, NEW f,
           OthersKept(ps, qs, p)
    PROVE  /\ Cardinality(UsersIn(qs, f)) = Cardinality(UsersIn(ps, f))
                - Cardinality(Naming(ps[p], f)) + Cardinality(Naming(qs[p], f))
           /\ Cardinality(Naming(ps[p], f)) <= Cardinality(UsersIn(ps, f))
  <1>1. Elsewhere(qs, p, f) = Elsewhere(ps, p, f)
    <2>1. \A x \in (Procs \ {p}) \X VAs : qs[x[1]][x[2]].frame = ps[x[1]][x[2]].frame
      BY DEF OthersKept
    <2> QED
      BY <2>1 DEF Elsewhere
  <1>2. /\ Cardinality(Naming(ps[p], f)) \in Nat /\ Cardinality(Naming(qs[p], f)) \in Nat
    BY NamingFinite
  <1> QED
    BY <1>1, <1>2, UsersSplit

\* The count of a page table splits where its pages do.
LEMMA UsesSplit ==
    ASSUME NEW p \in Procs, NEW V \in SUBSET VAs, NEW W \in SUBSET VAs,
           V \cap W = {}, NEW f
    PROVE  /\ Uses(p, V \cup W, f) = Uses(p, V, f) + Uses(p, W, f)
           /\ Uses(p, V, f) \in Nat /\ Uses(p, W, f) \in Nat
  <1> DEFINE A == {v \in V : pt[p][v].frame = f}
             B == {v \in W : pt[p][v].frame = f}
  <1>1. A \in SUBSET VAs /\ B \in SUBSET VAs
    OBVIOUS
  <1>2. /\ IsFiniteSet(A) /\ IsFiniteSet(B)
        /\ Cardinality(A) \in Nat /\ Cardinality(B) \in Nat
    BY <1>1, FinitelyMany, FS_Subset, FS_CardinalityType
  <1>3. A \cap B = {} /\ {v \in V \cup W : pt[p][v].frame = f} = A \cup B
    OBVIOUS
  <1>4. Cardinality(A \cup B) = Cardinality(A) + Cardinality(B)
    <2> HIDE DEF A, B
    <2> QED
      BY <1>2, <1>3, DisjointUnion
  <1> QED
    BY <1>2, <1>3, <1>4 DEF Uses

-----------------------------------------------------------------------------
(***************************************************************************)
(* The step that all operations but fork have in common: in one address    *)
(* space the pages D are unmapped and the pages DOMAIN a are mapped to     *)
(* fresh frames a[..].                                                     *)
(***************************************************************************)
FreshPages(a) ==
    /\ DOMAIN a \subseteq VAs
    /\ \A v \in DOMAIN a : a[v] \in Frames /\ refs[a[v]] = 0
    /\ \A u, v \in DOMAIN a : a[u] = a[v] => u = v

\* pmm_alloc_page() hands out different frames, all of them free.
LEMMA AllocationsFresh ==
    ASSUME NEW V \in SUBSET VAs, NEW a \in Allocations(V)
    PROVE  FreshPages(a) /\ DOMAIN a = V
  BY DEF Allocations, Injection, IsInjective, FreeFrames, FreshPages

\* The frames of a[..].
Named(a) == {a[v] : v \in DOMAIN a}

Built(p, a, D) ==
    [v \in VAs |-> IF v \in DOMAIN a THEN [frame |-> a[v], cow |-> FALSE]
                   ELSE IF v \in D THEN NoPte ELSE pt[p][v]]

\* How the counts have to change with it.
Recounted(p, a, D) ==
    \A f \in Frames :
        /\ lost'[f] \in Nat
        /\ f \in Named(a) => refs'[f] = 1 /\ lost'[f] = lost[f]
        /\ f \notin Named(a) =>
              refs'[f] = refs[f] - Uses(p, DOMAIN a \cup D, f) + (lost'[f] - lost[f])

\* The contents c it leaves: the old ones, but for the fresh frames.
Filled(a, c) ==
    \A f \in Frames : IF f \in Named(a) THEN c[f] \in Values ELSE c[f] = content[f]

RowStep(p, a, D, c) ==
    /\ FreshPages(a)
    /\ pt' = [pt EXCEPT ![p] = Built(p, a, D)]
    /\ Recounted(p, a, D)
    /\ Filled(a, c)
    /\ content' = Forget(c)

\* A page that is free is in no PTE, and none was lost.
LEMMA FreeUnnamed ==
    ASSUME IInv, NEW f \in Frames, refs[f] = 0
    PROVE  /\ \A p \in Procs, v \in VAs : pt[p][v].frame # f
           /\ lost[f] = 0
           /\ UsersIn(pt, f) = {}
  <1>1. Cardinality(UsersIn(pt, f)) \in Nat /\ IsFiniteSet(UsersIn(pt, f))
    BY UsersFinite
  <1>2. refs[f] = Cardinality(UsersIn(pt, f)) + lost[f] /\ lost[f] \in Nat
    BY DEF IInv, RefsExact, Users, UsersIn, TypeOK
  <1>3. lost[f] = 0 /\ Cardinality(UsersIn(pt, f)) = 0
    BY <1>1, <1>2
  <1>4. UsersIn(pt, f) = {}
    BY <1>1, <1>3, FS_EmptySet
  <1>5. ASSUME NEW p \in Procs, NEW v \in VAs, pt[p][v].frame = f
        PROVE  FALSE
    <2>1. <<p, v>> \in UsersIn(pt, f)
      BY <1>5 DEF UsersIn
    <2> QED
      BY <1>4, <2>1
  <1> QED
    BY <1>3, <1>4, <1>5

\* What each PTE is after it.
RowShape(p, a, D) ==
    /\ \A q \in Procs, v \in VAs : q # p => pt'[q][v] = pt[q][v]
    /\ \A v \in DOMAIN a : pt'[p][v].frame = a[v] /\ pt'[p][v].cow = FALSE
    /\ \A v \in VAs : v \in D /\ v \notin DOMAIN a => pt'[p][v] = NoPte
    /\ \A v \in VAs : v \notin D /\ v \notin DOMAIN a => pt'[p][v] = pt[p][v]

\* The page tables after the step.
LEMMA RowTyped ==
    ASSUME IInv, NEW p \in Procs, NEW a, NEW D \in SUBSET VAs, NEW c, RowStep(p, a, D, c)
    PROVE  /\ pt' \in [Procs -> [VAs -> Pte]]
           /\ RowShape(p, a, D)
  <1>1. pt \in [Procs -> [VAs -> Pte]]
    BY DEF IInv, TypeOK
  <1>2. NoPte \in Pte
    BY DEF NoPte, Pte
  <1>3. \A v \in DOMAIN a : [frame |-> a[v], cow |-> FALSE] \in Pte
    BY DEF RowStep, FreshPages, Pte
  <1>4. \A v \in VAs : /\ Built(p, a, D)[v] \in Pte
                       /\ Built(p, a, D)[v] = IF v \in DOMAIN a
                                              THEN [frame |-> a[v], cow |-> FALSE]
                                              ELSE IF v \in D THEN NoPte ELSE pt[p][v]
    BY <1>1, <1>2, <1>3 DEF Built
  <1>5. Built(p, a, D) \in [VAs -> Pte]
    BY <1>1, <1>2, <1>3 DEF Built
  <1>6. pt'[p] = Built(p, a, D) /\ DOMAIN a \subseteq VAs
    BY <1>1 DEF RowStep, FreshPages
  <1>7. \A v \in DOMAIN a : pt'[p][v].frame = a[v] /\ pt'[p][v].cow = FALSE
    <2> SUFFICES ASSUME NEW v \in DOMAIN a
                 PROVE  pt'[p][v].frame = a[v] /\ pt'[p][v].cow = FALSE
      OBVIOUS
    <2>1. pt'[p][v] = [frame |-> a[v], cow |-> FALSE]
      BY <1>4, <1>6
    <2> QED
      BY <2>1
  <1>8. \A q \in Procs : q # p => pt'[q] = pt[q]
    BY <1>1 DEF RowStep
  <1>9. RowShape(p, a, D)
    BY <1>4, <1>6, <1>7, <1>8 DEF RowShape
  <1> QED
    BY <1>1, <1>5, <1>9 DEF RowStep

\* The fresh frame of one page is in one PTE; another frame loses the PTEs
\* of the pages that are mapped anew or unmapped.
LEMMA RowCounted ==
    ASSUME IInv, NEW p \in Procs, NEW a, NEW D \in SUBSET VAs, NEW c, RowStep(p, a, D, c),
           NEW f \in Frames
    PROVE  Cardinality(Naming(pt'[p], f)) =
             IF f \in Named(a) THEN 1
             ELSE Cardinality(Naming(pt[p], f)) - Uses(p, DOMAIN a \cup D, f)
  <1>1. RowShape(p, a, D)
    BY RowTyped
  <1>2. DOMAIN a \subseteq VAs
    BY DEF RowStep, FreshPages
  <1>3. NoPte.frame = NoFrame /\ f # NoFrame
    BY FramesAssumption DEF NoPte
  <1>4. CASE f \in Named(a)
    <2>1. PICK u \in DOMAIN a : f = a[u]
      BY <1>4 DEF Named
    <2>2. refs[f] = 0
      BY <2>1 DEF RowStep, FreshPages
    <2>3. \A v \in VAs : pt[p][v].frame # f
      BY <2>2, FreeUnnamed
    <2>4. \A v \in VAs : pt'[p][v].frame = f <=> v = u
      BY <1>1, <1>2, <1>3, <2>1, <2>3 DEF RowStep, FreshPages, RowShape
    <2>5. Naming(pt'[p], f) = {u}
      BY <1>2, <2>1, <2>4 DEF Naming
    <2> QED
      BY <1>4, <2>5, FS_Singleton
  <1>5. CASE f \notin Named(a)
    <2> DEFINE V == DOMAIN a \cup D
    <2>1. V \in SUBSET VAs /\ VAs \ V \in SUBSET VAs /\ VAs = V \cup (VAs \ V) /\ V \cap (VAs \ V) = {}
      BY <1>2
    <2>2. /\ Uses(p, V \cup (VAs \ V), f) = Uses(p, V, f) + Uses(p, VAs \ V, f)
          /\ Uses(p, V, f) \in Nat /\ Uses(p, VAs \ V, f) \in Nat
      <3> HIDE DEF V
      <3> QED
        BY <2>1, UsesSplit
    <2>3. \A v \in DOMAIN a : a[v] # f
      BY <1>5 DEF Named
    <2>4. Naming(pt'[p], f) = {v \in VAs \ V : pt[p][v].frame = f}
      BY <1>1, <1>2, <1>3, <2>3 DEF Naming, RowShape
    <2>5. Uses(p, VAs, f) = Cardinality(Naming(pt[p], f))
      BY DEF Uses, Naming
    <2>6. Cardinality(Naming(pt'[p], f)) = Uses(p, VAs \ V, f)
      BY <2>4 DEF Uses
    <2> HIDE DEF V
    <2>7. Cardinality(Naming(pt[p], f)) = Uses(p, V, f) + Uses(p, VAs \ V, f)
      BY <2>1, <2>2, <2>5
    <2>8. Cardinality(Naming(pt'[p], f)) = Cardinality(Naming(pt[p], f)) - Uses(p, V, f)
      BY <2>2, <2>6, <2>7
    <2> QED
      BY <1>5, <2>8 DEF V
  <1> QED
    BY <1>4, <1>5

\* The step keeps the reference counts exact.
LEMMA RowRefs ==
    ASSUME IInv, NEW p \in Procs, NEW a, NEW D \in SUBSET VAs, NEW c, RowStep(p, a, D, c)
    PROVE  /\ RefsExact'
           /\ \A f \in Frames : refs'[f] \in Nat
  <1> SUFFICES ASSUME NEW f \in Frames
               PROVE  /\ refs'[f] = Cardinality(UsersIn(pt', f)) + lost'[f]
                      /\ refs'[f] \in Nat
    BY DEF RefsExact, Users, UsersIn
  <1>1. OthersKept(pt, pt', p)
    BY RowTyped DEF OthersKept, RowShape
  <1>2. Cardinality(UsersIn(pt', f)) = Cardinality(UsersIn(pt, f))
              - Cardinality(Naming(pt[p], f)) + Cardinality(Naming(pt'[p], f))
    BY <1>1, OneRowChanged
  <1>3. /\ Cardinality(UsersIn(pt, f)) \in Nat /\ Cardinality(UsersIn(pt', f)) \in Nat
        /\ Cardinality(Naming(pt[p], f)) \in Nat /\ Cardinality(Naming(pt'[p], f)) \in Nat
    BY UsersFinite, NamingFinite
  <1>4. refs[f] = Cardinality(UsersIn(pt, f)) + lost[f] /\ lost[f] \in Nat
    BY DEF IInv, RefsExact, Users, UsersIn, TypeOK
  <1>5. lost'[f] \in Nat
    BY DEF RowStep, Recounted
  <1>6. CASE f \in Named(a)
    <2>1. refs[f] = 0
      BY <1>6 DEF RowStep, FreshPages, Named
    <2>2. lost[f] = 0 /\ UsersIn(pt, f) = {}
      BY <2>1, FreeUnnamed
    <2>3. Cardinality(UsersIn(pt, f)) = 0
      BY <2>2, FS_EmptySet
    <2>4. Cardinality(Naming(pt[p], f)) <= Cardinality(UsersIn(pt, f))
      BY <1>1, OneRowChanged
    <2>5. Cardinality(Naming(pt'[p], f)) = 1
      BY <1>6, RowCounted
    <2>6. refs'[f] = 1 /\ lost'[f] = lost[f]
      BY <1>6 DEF RowStep, Recounted
    <2> QED
      BY <1>2, <1>3, <2>2, <2>3, <2>4, <2>5, <2>6
  <1>7. CASE f \notin Named(a)
    <2>1. Cardinality(Naming(pt'[p], f)) =
            Cardinality(Naming(pt[p], f)) - Uses(p, DOMAIN a \cup D, f)
      BY <1>7, RowCounted
    <2>2. refs'[f] = refs[f] - Uses(p, DOMAIN a \cup D, f) + (lost'[f] - lost[f])
      BY <1>7 DEF RowStep, Recounted
    <2>3. Uses(p, DOMAIN a \cup D, f) \in Nat
      <3>1. DOMAIN a \cup D \in SUBSET VAs /\ {} \in SUBSET VAs
        BY DEF RowStep, FreshPages
      <3> QED
        BY <3>1, UsesSplit
    <2> QED
      BY <1>2, <1>3, <1>4, <1>5, <2>1, <2>2, <2>3
  <1> QED
    BY <1>6, <1>7

\* The step makes no page writable that is shared.
LEMMA RowUnshared ==
    ASSUME IInv, NEW p \in Procs, NEW a, NEW D \in SUBSET VAs, NEW c, RowStep(p, a, D, c)
    PROVE  WritableUnshared'
  <1>1. RowShape(p, a, D)
    BY RowTyped
  <1>2. NoPte.frame = NoFrame
    BY DEF NoPte
  <1>3. \A v \in DOMAIN a, q \in Procs, u \in VAs : pt[q][u].frame # a[v] /\ a[v] # NoFrame
    BY FreeUnnamed, FramesAssumption DEF RowStep, FreshPages
  <1>4. \A u, v \in DOMAIN a : a[u] = a[v] => u = v
    BY DEF RowStep, FreshPages
  \* A PTE after the step is fresh, gone, or the same as before.
  <1>5. \A q \in Procs, v \in VAs :
          \/ q = p /\ v \in DOMAIN a /\ pt'[q][v].frame = a[v]
          \/ pt'[q][v].frame = NoFrame
          \/ pt'[q][v] = pt[q][v]
    BY <1>1, <1>2 DEF RowShape
  <1> SUFFICES ASSUME NEW q \in Procs, NEW r \in Procs, NEW u \in VAs, NEW v \in VAs,
                      pt'[q][u].frame # NoFrame, ~pt'[q][u].cow,
                      pt'[r][v].frame = pt'[q][u].frame
               PROVE  q = r /\ u = v
    BY DEF WritableUnshared, Present
  <1>6. CASE q = p /\ u \in DOMAIN a /\ pt'[q][u].frame = a[u]
    BY <1>3, <1>4, <1>5, <1>6
  <1>7. CASE pt'[q][u] = pt[q][u]
    <2>1. CASE r = p /\ v \in DOMAIN a /\ pt'[r][v].frame = a[v]
      BY <1>3, <1>7, <2>1
    <2>2. CASE pt'[r][v] = pt[r][v]
      BY <1>7, <2>2 DEF IInv, WritableUnshared, Present
    <2> QED
      BY <1>5, <2>1, <2>2
  <1> QED
    BY <1>5, <1>6, <1>7


\* A frame that is in a PTE after the step keeps what it was filled with.
LEMMA ContentKept ==
    ASSUME NEW c, content' = Forget(c), NEW q \in Procs, NEW v \in VAs,
           pt'[q][v].frame \in Frames
    PROVE  content'[pt'[q][v].frame] = c[pt'[q][v].frame]
  BY DEF Forget

\* What each page of each process holds after the step.
MemoryShape(p, a, D, c) ==
    /\ \A q \in Procs, v \in VAs : q # p => Memory'[q][v] = Memory[q][v]
    /\ \A v \in DOMAIN a : Memory'[p][v] = c[a[v]]
    /\ \A v \in VAs : v \in D /\ v \notin DOMAIN a => Memory'[p][v] = Unmapped
    /\ \A v \in VAs : v \notin D /\ v \notin DOMAIN a => Memory'[p][v] = Memory[p][v]

\* What a program sees at a page.
LEMMA MemoryAt ==
    ASSUME NEW q \in Procs, NEW v \in VAs
    PROVE  /\ Memory[q][v] = IF pt[q][v].frame # NoFrame
                             THEN content[pt[q][v].frame] ELSE Unmapped
           /\ Memory'[q][v] = IF pt'[q][v].frame # NoFrame
                              THEN content'[pt'[q][v].frame] ELSE Unmapped
  BY DEF Memory, Present

\* A PTE names a frame, or none.
LEMMA FrameTyped ==
    ASSUME NEW ps \in [Procs -> [VAs -> Pte]], NEW q \in Procs, NEW v \in VAs
    PROVE  ps[q][v].frame \in Frames \/ ps[q][v].frame = NoFrame
  BY DEF Pte

\* What the programs see after the step.
LEMMA RowMemory ==
    ASSUME IInv, NEW p \in Procs, NEW a, NEW D \in SUBSET VAs, NEW c, RowStep(p, a, D, c)
    PROVE  MemoryShape(p, a, D, c)
  <1>1. RowShape(p, a, D) /\ pt' \in [Procs -> [VAs -> Pte]]
    BY RowTyped
  <1>2. content' = Forget(c)
    BY DEF RowStep
  <1>3. pt \in [Procs -> [VAs -> Pte]]
    BY DEF IInv, TypeOK
  <1>4. \A v \in DOMAIN a : /\ v \in VAs /\ a[v] \in Frames /\ a[v] # NoFrame
                            /\ \A q \in Procs, u \in VAs : pt[q][u].frame # a[v]
    BY FreeUnnamed, FramesAssumption DEF RowStep, FreshPages
  \* A PTE that stays is of a frame that is not among the fresh ones.
  <1>5. ASSUME NEW q \in Procs, NEW v \in VAs, pt'[q][v] = pt[q][v]
        PROVE  Memory'[q][v] = Memory[q][v]
    <2>1. CASE pt[q][v].frame = NoFrame
      BY <1>5, <2>1, MemoryAt
    <2>2. CASE pt[q][v].frame \in Frames /\ pt[q][v].frame # NoFrame
      <3>1. content'[pt[q][v].frame] = c[pt[q][v].frame]
        BY <1>2, <1>5, <2>2, ContentKept
      <3>2. pt[q][v].frame \notin Named(a)
        BY <1>4 DEF Named
      <3>3. c[pt[q][v].frame] = content[pt[q][v].frame]
        BY <2>2, <3>2 DEF RowStep, Filled
      <3> QED
        BY <1>5, <2>2, <3>1, <3>3, MemoryAt
    <2> QED
      BY <1>3, <2>1, <2>2, FrameTyped
  <1>6. ASSUME NEW v \in DOMAIN a
        PROVE  Memory'[p][v] = c[a[v]]
    <2>1. pt'[p][v].frame = a[v] /\ v \in VAs /\ a[v] \in Frames /\ a[v] # NoFrame
      BY <1>1, <1>4 DEF RowShape
    <2>2. content'[a[v]] = c[a[v]]
      BY <1>2, <2>1, ContentKept
    <2> QED
      BY <2>1, <2>2, MemoryAt
  <1>7. ASSUME NEW v \in VAs, v \in D, v \notin DOMAIN a
        PROVE  Memory'[p][v] = Unmapped
    <2>1. pt'[p][v].frame = NoFrame
      BY <1>1, <1>7 DEF RowShape, NoPte
    <2> QED
      BY <2>1, MemoryAt
  <1> QED
    BY <1>1, <1>5, <1>6, <1>7 DEF MemoryShape, RowShape

\* The step leaves values in all pages that are mapped.
LEMMA RowContent ==
    ASSUME IInv, NEW p \in Procs, NEW a, NEW D \in SUBSET VAs, NEW c, RowStep(p, a, D, c)
    PROVE  content' \in [Frames -> Values \cup {Junk}] /\ MappedHaveValues'
  <1>1. RowShape(p, a, D) /\ pt' \in [Procs -> [VAs -> Pte]]
    BY RowTyped
  <1>2. \A f \in Frames : c[f] \in Values \cup {Junk}
    BY DEF RowStep, Filled, IInv, TypeOK
  <1>3. content' \in [Frames -> Values \cup {Junk}]
    BY <1>2 DEF RowStep, Forget
  <1>4. ASSUME NEW q \in Procs, NEW v \in VAs, pt'[q][v].frame # NoFrame
        PROVE  content'[pt'[q][v].frame] \in Values
    <2>1. pt'[q][v].frame \in Frames
      BY <1>1, <1>4, FrameTyped
    <2>2. content'[pt'[q][v].frame] = c[pt'[q][v].frame]
      BY <2>1, ContentKept DEF RowStep
    <2>3. CASE pt'[q][v].frame \in Named(a)
      BY <2>1, <2>2, <2>3 DEF RowStep, Filled
    <2>4. CASE pt'[q][v].frame \notin Named(a)
      <3>1. c[pt'[q][v].frame] = content[pt'[q][v].frame]
        BY <2>1, <2>4 DEF RowStep, Filled
      <3>2. pt'[q][v] = pt[q][v]
        BY <1>1, <1>4, <2>4 DEF RowShape, Named, NoPte
      <3> QED
        BY <1>4, <2>2, <3>1, <3>2 DEF IInv, MappedHaveValues, Present
    <2> QED
      BY <2>3, <2>4
  <1> QED
    BY <1>3, <1>4 DEF MappedHaveValues, Present

\* The other variables after the step.
RestTyped ==
    /\ pstate' \in [Procs -> {"UNUSED", "RUNNABLE", "ZOMBIE"}]
    /\ tables' \in [Procs -> SUBSET Tables]
    /\ brk' \in [Procs -> Nat] /\ mmap_next' \in [Procs -> Nat]
    /\ lost' \in [Frames -> Nat]
    /\ halted' \in Halts
    /\ refs' = [f \in Frames |-> refs'[f]]

\* The step keeps the invariant, if a slot becomes free only by losing all
\* its pages.
LEMMA RowSafe ==
    ASSUME IInv, NEW p \in Procs, NEW a, NEW D \in SUBSET VAs, NEW c, RowStep(p, a, D, c),
           RestTyped,
           \A q \in Procs : pstate'[q] = "UNUSED" =>
               \/ q # p /\ pstate[q] = "UNUSED"
               \/ q = p /\ DOMAIN a = {} /\ D = VAs
    PROVE  IInv'
  <1>1. pt' \in [Procs -> [VAs -> Pte]] /\ RowShape(p, a, D)
    BY RowTyped
  <1>2. RefsExact' /\ \A f \in Frames : refs'[f] \in Nat
    BY RowRefs
  <1>3. refs' \in [Frames -> Nat]
    BY <1>2 DEF RestTyped
  <1>4. content' \in [Frames -> Values \cup {Junk}] /\ MappedHaveValues'
    BY RowContent
  <1>5. TypeOK'
    BY <1>1, <1>3, <1>4 DEF TypeOK, RestTyped
  <1>6. UnusedEmpty'
    <2> SUFFICES ASSUME NEW q \in Procs, pstate'[q] = "UNUSED", NEW v \in VAs
                 PROVE  pt'[q][v] = NoPte
      BY DEF UnusedEmpty
    <2>1. CASE q # p /\ pstate[q] = "UNUSED"
      BY <1>1, <2>1 DEF RowShape, IInv, UnusedEmpty
    <2>2. CASE DOMAIN a = {} /\ D = VAs /\ q = p
      BY <1>1, <2>2 DEF RowShape
    <2> QED
      BY <2>1, <2>2
  <1> QED
    BY <1>2, <1>4, <1>5, <1>6, RowUnshared DEF IInv


-----------------------------------------------------------------------------
(***************************************************************************)
(* The operations as such steps.                                           *)
(***************************************************************************)
LEMMA UsesNone ==
    ASSUME NEW p, NEW V, NEW f, \A v \in V : pt[p][v].frame # f
    PROVE  Uses(p, V, f) = 0
  <1>1. {v \in V : pt[p][v].frame = f} = {}
    OBVIOUS
  <1> QED
    BY <1>1, FS_EmptySet DEF Uses

\* A count of PTEs is a natural number.
LEMMA UsesNat ==
    ASSUME NEW p \in Procs, NEW V \in SUBSET VAs, NEW f
    PROVE  Uses(p, V, f) \in Nat
  <1>1. {} \in SUBSET VAs /\ V \cap {} = {}
    OBVIOUS
  <1> QED
    BY <1>1, UsesSplit

\* What map_fresh leaves: syscall_grow_pages() and the stack fault.
LEMMA MapFreshRow ==
    ASSUME IInv, NEW p \in Procs, NEW V \in SUBSET VAs, NEW a \in Allocations(V),
           MapFresh(p, a)
    PROVE  /\ DOMAIN a = V /\ RowStep(p, a, {}, ZeroContent(a))
           /\ \A v \in V : ZeroContent(a)[a[v]] = 0
           /\ lost' \in [Frames -> Nat] /\ refs' = [f \in Frames |-> refs'[f]]
           /\ tables' \in [Procs -> SUBSET Tables]
  <1>1. FreshPages(a) /\ DOMAIN a = V
    BY AllocationsFresh
  <1>2. /\ pt' = [pt EXCEPT ![p] = [v \in VAs |->
                    IF v \in V THEN [frame |-> a[v], cow |-> FALSE] ELSE pt[p][v]]]
        /\ tables' = [tables EXCEPT ![p] = @ \cup {TableOf(v) : v \in V}]
        /\ refs' = [f \in Frames |-> IF f \in Range(a) THEN 1 ELSE refs[f]]
        /\ content' = Forget(ZeroContent(a))
        /\ lost' = [f \in Frames |-> lost[f] + Uses(p, V, f)]
    BY <1>1 DEF MapFresh, Overwrite
  <1>3. Range(a) = Named(a)
    BY DEF Range, Named
  <1>4. pt' = [pt EXCEPT ![p] = Built(p, a, {})]
    <2>1. Built(p, a, {}) = [v \in VAs |->
            IF v \in V THEN [frame |-> a[v], cow |-> FALSE] ELSE pt[p][v]]
      BY <1>1 DEF Built
    <2> QED
      BY <1>2, <2>1
  <1>5. \A f \in Frames : Uses(p, V, f) \in Nat /\ lost[f] \in Nat /\ refs[f] \in Nat
    BY UsesNat DEF IInv, TypeOK
  <1>6. \A f \in Frames : f \in Named(a) => Uses(p, V, f) = 0
    BY <1>1, FreeUnnamed, UsesNone DEF FreshPages, Named
  <1>7. Recounted(p, a, {})
    <2>1. DOMAIN a \cup {} = V
      BY <1>1
    <2> SUFFICES ASSUME NEW f \in Frames
                 PROVE  /\ lost'[f] \in Nat
                        /\ f \in Named(a) => refs'[f] = 1 /\ lost'[f] = lost[f]
                        /\ f \notin Named(a) =>
                             refs'[f] = refs[f] - Uses(p, V, f) + (lost'[f] - lost[f])
      BY <2>1 DEF Recounted
    <2>2. /\ lost'[f] = lost[f] + Uses(p, V, f)
          /\ refs'[f] = IF f \in Named(a) THEN 1 ELSE refs[f]
      BY <1>2, <1>3
    <2> QED
      BY <1>5, <1>6, <2>2
  <1>8. Filled(a, ZeroContent(a)) /\ \A v \in V : ZeroContent(a)[a[v]] = 0
    BY <1>1, <1>3, ValuesAssumption DEF Filled, ZeroContent, FreshPages, Named
  <1>9. lost' \in [Frames -> Nat] /\ refs' = [f \in Frames |-> refs'[f]]
    BY <1>2, <1>5
  <1>10. tables' \in [Procs -> SUBSET Tables]
    <2>1. {TableOf(v) : v \in V} \subseteq Tables
      BY DEF Tables
    <2> QED
      BY <1>2, <2>1 DEF IInv, TypeOK
  <1> QED
    BY <1>1, <1>2, <1>4, <1>7, <1>8, <1>9, <1>10 DEF RowStep

NoPages == [v \in {} |-> NoFrame]

\* munmap, and the end of an address space.
LEMMA UnmapRow ==
    ASSUME IInv, NEW p \in Procs, NEW V \in SUBSET VAs,
           pt' = [pt EXCEPT ![p] = PtWithout(p, V)],
           refs' = RefsWithout(p, V), content' = Forget(content), UNCHANGED lost
    PROVE  /\ DOMAIN NoPages = {} /\ RowStep(p, NoPages, V, content)
           /\ refs' = [f \in Frames |-> refs'[f]]
  <1>1. DOMAIN NoPages = {} /\ Named(NoPages) = {} /\ DOMAIN NoPages \cup V = V
    BY DEF NoPages, Named
  <1>2. FreshPages(NoPages) /\ Filled(NoPages, content)
    BY <1>1 DEF FreshPages, Filled
  <1>3. Built(p, NoPages, V) = PtWithout(p, V)
    BY <1>1 DEF Built, PtWithout
  <1>4. Recounted(p, NoPages, V)
    <2>1. \A f \in Frames : Uses(p, V, f) \in Nat /\ lost[f] \in Nat /\ refs[f] \in Nat
      BY UsesNat DEF IInv, TypeOK
    <2>2. \A f \in Frames : refs'[f] = refs[f] - Uses(p, V, f)
      BY DEF RefsWithout
    <2> QED
      BY <1>1, <2>1, <2>2 DEF Recounted
  <1> QED
    BY <1>1, <1>2, <1>3, <1>4 DEF RowStep, RefsWithout

\* The copy of a copy-on-write page.
LEMMA CowRow ==
    ASSUME IInv, NEW p \in Procs, NEW v \in VAs, Present(p, v), NEW x \in Values,
           FixCowPage(p, v, x)
    PROVE  \E a, c : /\ DOMAIN a = {v} /\ c[a[v]] = x /\ RowStep(p, a, {}, c)
                     /\ refs' = [f \in Frames |-> refs'[f]]
  <1>1. PICK a \in Allocations({v}) :
          /\ pt' = [pt EXCEPT ![p][v] = [frame |-> a[v], cow |-> FALSE]]
          /\ refs' = MoveRef(a[v], pt[p][v].frame)
          /\ content' = Forget([content EXCEPT ![a[v]] = x])
          /\ UNCHANGED lost
    BY DEF FixCowPage
  <1>2. FreshPages(a) /\ DOMAIN a = {v}
    BY AllocationsFresh
  <1>3. Named(a) = {a[v]} /\ a[v] \in Frames /\ refs[a[v]] = 0
    BY <1>2 DEF Named, FreshPages
  <1> DEFINE c == [content EXCEPT ![a[v]] = x]
             old == pt[p][v].frame
  <1>4. pt \in [Procs -> [VAs -> Pte]] /\ refs \in [Frames -> Nat] /\ lost \in [Frames -> Nat]
    BY DEF IInv, TypeOK
  <1>5. old \in Frames /\ old # a[v]
    BY <1>3, <1>4, FrameTyped, FreeUnnamed DEF Present
  <1>6. c[a[v]] = x /\ Filled(a, c)
    BY <1>3 DEF Filled, IInv, TypeOK
  <1>7. pt' = [pt EXCEPT ![p] = Built(p, a, {})]
    <2>1. [pt[p] EXCEPT ![v] = [frame |-> a[v], cow |-> FALSE]] = Built(p, a, {})
      BY <1>2, <1>4 DEF Built
    <2> QED
      BY <1>1, <1>4, <2>1
  <1>8. \A f \in Frames : refs'[f] = IF f = old THEN refs[f] - 1
                                     ELSE IF f = a[v] THEN 1 ELSE refs[f]
    BY <1>1, <1>3, <1>4, <1>5 DEF MoveRef
  <1>9. \A f \in Frames : Uses(p, {v}, f) = IF f = old THEN 1 ELSE 0
    <2> SUFFICES ASSUME NEW f \in Frames
                 PROVE  Uses(p, {v}, f) = IF f = old THEN 1 ELSE 0
      OBVIOUS
    <2>1. {u \in {v} : pt[p][u].frame = f} = IF f = old THEN {v} ELSE {}
      OBVIOUS
    <2> QED
      BY <2>1, FS_Singleton, FS_EmptySet DEF Uses
  <1>10. Recounted(p, a, {})
    <2>1. DOMAIN a \cup {} = {v}
      BY <1>2
    <2> SUFFICES ASSUME NEW f \in Frames
                 PROVE  /\ lost'[f] \in Nat
                        /\ f \in Named(a) => refs'[f] = 1 /\ lost'[f] = lost[f]
                        /\ f \notin Named(a) =>
                             refs'[f] = refs[f] - Uses(p, {v}, f) + (lost'[f] - lost[f])
      BY <2>1 DEF Recounted
    <2>2. /\ refs[f] \in Nat /\ lost[f] \in Nat /\ lost'[f] = lost[f]
      BY <1>1, <1>4
    <2>3. f \in Named(a) <=> f = a[v]
      BY <1>3
    <2>4. refs'[f] = IF f = old THEN refs[f] - 1 ELSE IF f = a[v] THEN 1 ELSE refs[f]
      BY <1>8
    <2>5. Uses(p, {v}, f) = IF f = old THEN 1 ELSE 0
      BY <1>9
    <2> HIDE DEF old
    <2>6. CASE f = a[v]
      BY <1>5, <2>2, <2>3, <2>4, <2>6
    <2>7. CASE f # a[v]
      <3>1. refs'[f] = refs[f] - Uses(p, {v}, f)
        BY <2>2, <2>4, <2>5, <2>7
      <3> QED
        BY <2>2, <2>3, <2>5, <2>7, <3>1
    <2> QED
      BY <2>6, <2>7
  <1>11. RowStep(p, a, {}, c)
    BY <1>1, <1>2, <1>6, <1>7, <1>10 DEF RowStep
  <1>12. refs' = [f \in Frames |-> refs'[f]]
    BY <1>1, <1>4 DEF MoveRef
  <1> HIDE DEF c
  <1> QED
    BY <1>2, <1>6, <1>11, <1>12

\* Each fresh frame a[v] of an mremap that moves holds the page that V's order
\* gives v, or zeros beyond the old length.
ContentMoved(p, Old, V, a) ==
    \A v \in V : Moved(p, Old, V, a)[a[v]] =
        IF v - mmap_next[p] + Min(Old) \in Old
        THEN content[pt[p][v - mmap_next[p] + Min(Old)].frame]
        ELSE 0

\* What an mremap that moves leaves in the fresh frames.
LEMMA MovedContent ==
    ASSUME IInv, NEW p \in Procs, NEW Old \in SUBSET VAs, NEW V \in SUBSET VAs,
           \A v \in Old : Present(p, v),
           NEW a, FreshPages(a), DOMAIN a = V
    PROVE  Filled(a, Moved(p, Old, V, a)) /\ ContentMoved(p, Old, V, a)
  <1> DEFINE Shift(v) == v - mmap_next[p] + Min(Old)
             c == Moved(p, Old, V, a)
  <1>1. Range(a) = Named(a)
    BY DEF Range, Named
  <1>2. \A f \in Frames : ZeroContent(a)[f] = IF f \in Named(a) THEN 0 ELSE content[f]
    BY <1>1 DEF ZeroContent
  <1>3. \A f \in Frames :
          c[f] = IF \E v \in V : f = a[v] /\ Shift(v) \in Old
                 THEN content[pt[p][Shift(CHOOSE v \in V : f = a[v])].frame]
                 ELSE ZeroContent(a)[f]
    BY DEF Moved
  <1> HIDE DEF c, Shift
  <1>4. ASSUME NEW v \in V
        PROVE  (CHOOSE u \in V : a[v] = a[u]) = v
    BY DEF FreshPages
  <1>5. ASSUME NEW v \in V
        PROVE  /\ a[v] \in Frames /\ a[v] \in Named(a)
               /\ c[a[v]] = IF Shift(v) \in Old THEN content[pt[p][Shift(v)].frame] ELSE 0
    <2>1. a[v] \in Frames /\ a[v] \in Named(a)
      BY DEF FreshPages, Named
    <2>2. (\E u \in V : a[v] = a[u] /\ Shift(u) \in Old) <=> Shift(v) \in Old
      BY DEF FreshPages
    <2> QED
      BY <1>2, <1>3, <1>4, <2>1, <2>2
  <1>6. \A v \in Old : content[pt[p][v].frame] \in Values
    BY DEF IInv, MappedHaveValues
  <1>7. \A v \in V : c[a[v]] \in Values
    BY <1>5, <1>6, ValuesAssumption
  <1>8. \A f \in Frames : f \notin Named(a) => c[f] = content[f]
    BY <1>2, <1>3 DEF Named
  <1>9. Filled(a, c)
    BY <1>7, <1>8 DEF Filled, Named
  <1> QED
    BY <1>5, <1>9 DEF c, Shift, ContentMoved

\* mremap that moves: V is mapped afresh, Old unmapped.
LEMMA MremapRow ==
    ASSUME IInv, NEW p \in Procs, NEW Old \in SUBSET VAs, NEW V \in SUBSET VAs,
           Old \cap V = {}, \A v \in Old : Present(p, v), NEW a \in Allocations(V),
           MovePages(p, Old, V, a)
    PROVE  /\ DOMAIN a = V /\ RowStep(p, a, Old, Moved(p, Old, V, a))
           /\ lost' \in [Frames -> Nat] /\ refs' = [f \in Frames |-> refs'[f]]
  <1>1. FreshPages(a) /\ DOMAIN a = V
    BY AllocationsFresh
  <1>2. Range(a) = Named(a)
    BY DEF Range, Named
  <1>3. pt' = [pt EXCEPT ![p] = Built(p, a, Old)]
    <2>1. Built(p, a, Old) = [v \in VAs |->
             CASE v \in V   -> [frame |-> a[v], cow |-> FALSE]
               [] v \in Old -> NoPte
               [] OTHER     -> pt[p][v]]
      BY <1>1 DEF Built
    <2> QED
      BY <2>1 DEF MovePages
  <1>4. lost' = [f \in Frames |-> lost[f] + Uses(p, V, f)]
    BY DEF Overwrite, MovePages
  <1>5. ASSUME NEW f \in Frames
        PROVE  /\ Uses(p, V, f) \in Nat /\ Uses(p, Old, f) \in Nat
               /\ Uses(p, V \cup Old, f) = Uses(p, V, f) + Uses(p, Old, f)
               /\ lost[f] \in Nat /\ refs[f] \in Nat
    <2>1. V \cap Old = {}
      OBVIOUS
    <2>2. lost[f] \in Nat /\ refs[f] \in Nat
      BY DEF IInv, TypeOK
    <2>3. Uses(p, V \cup Old, f) = Uses(p, V, f) + Uses(p, Old, f)
      BY <2>1, UsesSplit
    <2> QED
      BY <2>2, <2>3, UsesNat
  <1>6. \A f \in Frames : f \in Named(a) => Uses(p, V, f) = 0
    BY <1>1, FreeUnnamed, UsesNone DEF FreshPages, Named
  <1>7. Recounted(p, a, Old)
    <2> SUFFICES ASSUME NEW f \in Frames
                 PROVE  /\ lost'[f] \in Nat
                        /\ f \in Named(a) => refs'[f] = 1 /\ lost'[f] = lost[f]
                        /\ f \notin Named(a) =>
                             refs'[f] = refs[f] - Uses(p, V \cup Old, f) + (lost'[f] - lost[f])
      BY <1>1 DEF Recounted
    <2>1. /\ lost'[f] = lost[f] + Uses(p, V, f)
          /\ refs'[f] = IF f \in Named(a) THEN 1 ELSE refs[f] - Uses(p, Old, f)
      BY <1>2, <1>4 DEF RefsWithout, MovePages
    <2>2. /\ Uses(p, V, f) \in Nat /\ Uses(p, Old, f) \in Nat
          /\ Uses(p, V \cup Old, f) = Uses(p, V, f) + Uses(p, Old, f)
          /\ lost[f] \in Nat /\ refs[f] \in Nat
      BY <1>5
    <2>3. f \in Named(a) => Uses(p, V, f) = 0
      BY <1>6
    <2> QED
      BY <2>1, <2>2, <2>3
  <1>8. Filled(a, Moved(p, Old, V, a))
    BY <1>1, MovedContent
  <1>9. lost' \in [Frames -> Nat] /\ refs' = [f \in Frames |-> refs'[f]]
    BY <1>4, <1>5 DEF MovePages
  <1> QED
    BY <1>1, <1>3, <1>7, <1>8, <1>9 DEF RowStep, MovePages

\* The pages of a program that starts.
LEMMA NewPages ==
    /\ NewVAs \in SUBSET VAs /\ NewTables \in SUBSET Tables
    /\ StackTop \in NewVAs /\ StackTop \notin ImageVAs
    /\ \A v \in NewVAs : v \in ImageVAs \/ v = StackTop
    /\ BrkLo * Units \in Nat /\ MmapLo \in Nat
  <1>1. NewVAs \in SUBSET VAs /\ StackTop \in NewVAs /\ StackTop \notin ImageVAs
    BY LayoutAssumption DEF NewVAs, VAs, ImageVAs, StackTop
  <1>2. NewTables \in SUBSET Tables
    BY <1>1 DEF NewTables, Tables
  <1> QED
    BY <1>1, <1>2, LayoutAssumption DEF NewVAs

\* execve: nothing of the old address space stays.
ExecStep(p, a, x, y) ==
    /\ pt' = [pt EXCEPT ![p] = NewPt(a)]
    /\ refs' = [f \in Frames |-> IF f \in Range(a) THEN 1 ELSE RefsWithout(p, VAs)[f]]
    /\ content' = Forget(Loaded(a, x, y))
    /\ UNCHANGED lost

\* The new address space is such a step: everything is unmapped, and the
\* image and the stack are mapped.
LEMMA ExecveRow ==
    ASSUME IInv, NEW p \in Procs, NEW x \in FileValues, NEW y \in FileValues,
           NEW a \in Allocations(NewVAs), ExecStep(p, a, x, y)
    PROVE  /\ DOMAIN a = NewVAs /\ RowStep(p, a, VAs, Loaded(a, x, y))
           /\ refs' = [f \in Frames |-> refs'[f]]
           /\ \A v \in NewVAs : Loaded(a, x, y)[a[v]] = IF v = StackTop THEN y ELSE x
  <1>1. FreshPages(a) /\ DOMAIN a = NewVAs
    BY NewPages, AllocationsFresh
  <1>2. Range(a) = Named(a)
    BY DEF Range, Named
  <1>3. pt' = [pt EXCEPT ![p] = Built(p, a, VAs)]
    <2>1. Built(p, a, VAs) = NewPt(a)
      BY <1>1 DEF Built, NewPt
    <2> QED
      BY <2>1 DEF ExecStep
  <1>4. DOMAIN a \cup VAs = VAs
    BY <1>1, NewPages
  <1>5. \A f \in Frames : Uses(p, VAs, f) \in Nat /\ lost[f] \in Nat /\ refs[f] \in Nat
    BY UsesNat DEF IInv, TypeOK
  <1>6. Recounted(p, a, VAs)
    <2>1. \A f \in Frames :
            refs'[f] = IF f \in Named(a) THEN 1 ELSE refs[f] - Uses(p, VAs, f)
      BY <1>2 DEF RefsWithout, ExecStep
    <2> SUFFICES ASSUME NEW f \in Frames
                 PROVE  /\ lost'[f] \in Nat
                        /\ f \in Named(a) => refs'[f] = 1 /\ lost'[f] = lost[f]
                        /\ f \notin Named(a) =>
                             refs'[f] = refs[f] - Uses(p, VAs, f) + (lost'[f] - lost[f])
      BY <1>4 DEF Recounted
    <2>2. lost'[f] = lost[f]
      BY DEF ExecStep
    <2> QED
      BY <1>5, <2>1, <2>2
  <1>7. \A f \in Frames : Loaded(a, x, y)[f] =
          IF f = a[StackTop] THEN y ELSE IF f \in Named(a) THEN x ELSE content[f]
    BY <1>2 DEF Loaded
  <1>8. a[StackTop] \in Named(a)
    BY <1>1, NewPages DEF Named
  <1>9. Filled(a, Loaded(a, x, y))
    BY <1>7, <1>8, ValuesAssumption DEF Filled
  <1>10. \A v \in NewVAs : Loaded(a, x, y)[a[v]] = IF v = StackTop THEN y ELSE x
    BY <1>1, <1>7, NewPages DEF FreshPages, Named
  <1> QED
    BY <1>1, <1>3, <1>6, <1>9, <1>10 DEF RowStep, ExecStep


-----------------------------------------------------------------------------
(***************************************************************************)
(* Every step is of one of these kinds.                                    *)
(***************************************************************************)
\* Neither pages nor page tables change: a failure, an exit, a brk that
\* shrinks, the end of the machine.
Quiet ==
    /\ UNCHANGED <<pt, refs, content, lost>>
    /\ RestTyped
    /\ \A q \in Procs : pstate'[q] = "UNUSED" <=> pstate[q] = "UNUSED"

\* A store to a page mapped writable.
StoreKind(p, v, x) ==
    /\ pstate[p] = "RUNNABLE" /\ Present(p, v) /\ ~pt[p][v].cow
    /\ content' = [content EXCEPT ![pt[p][v].frame] = x]
    /\ UNCHANGED <<pt, refs, lost, pstate>> /\ RestTyped

\* A step in the address space of a running process.
RunningRow(p, a, D, c) ==
    RowStep(p, a, D, c) /\ RestTyped /\ UNCHANGED pstate /\ pstate[p] = "RUNNABLE"

MapKind(p) == \E a, c : RunningRow(p, a, {}, c) /\ \A v \in DOMAIN a : c[a[v]] = 0

CopyKind(p, v, x) ==
    \E a, c : /\ RunningRow(p, a, {}, c) /\ DOMAIN a = {v} /\ c[a[v]] = x
              /\ Present(p, v)

UnmapKind(p, V) == RunningRow(p, NoPages, V, content) /\ DOMAIN NoPages = {}

MoveKind(p, Old, k) ==
    \E a : LET V == mmap_next[p] .. (mmap_next[p] + Cardinality(Old) + k) - 1 IN
           /\ RunningRow(p, a, Old, Moved(p, Old, V, a))
           /\ FreshPages(a) /\ DOMAIN a = V /\ Old \cap V = {} /\ V \subseteq VAs
           /\ \A v \in Old : Present(p, v)

ExecKind(p, x, y) ==
    \E a, c : /\ RunningRow(p, a, VAs, c) /\ DOMAIN a = NewVAs
              /\ \A v \in NewVAs : c[a[v]] = IF v = StackTop THEN y ELSE x

\* The end of a zombie's address space.
ReapKind(p) ==
    /\ RowStep(p, NoPages, VAs, content) /\ DOMAIN NoPages = {} /\ RestTyped
    /\ pstate[p] = "ZOMBIE" /\ pstate' = [pstate EXCEPT ![p] = "UNUSED"]

\* A step that changes none of these variables is quiet.
LEMMA Untouched ==
    ASSUME IInv, UNCHANGED <<mapVars, pageVars, procVars>>, halted' \in Halts
    PROVE  Quiet
  BY DEF Quiet, RestTyped, IInv, TypeOK, mapVars, pageVars, procVars

\* So is one that stops the machine.
LEMMA HaltQuiet ==
    ASSUME IInv, NEW w \in Halts, Halt(w)
    PROVE  Quiet
  BY Untouched DEF Halt

\* Stores by the program and by the kernel.
LEMMA StoreKinds ==
    ASSUME IInv, NEW p \in Procs, NEW v \in VAs, NEW x \in Values, Runs(p),
           Present(p, v), ~pt[p][v].cow,
           content' = [content EXCEPT ![pt[p][v].frame] = x],
           UNCHANGED <<mapVars, refs, procVars, halted>>
    PROVE  StoreKind(p, v, x)
  BY DEF StoreKind, RestTyped, IInv, TypeOK, mapVars, procVars, Runs

\* fix_cow_page().
LEMMA CopyKinds ==
    ASSUME IInv, NEW p \in Procs, NEW v \in VAs, NEW x \in Values, Runs(p),
           Present(p, v), FixCowPage(p, v, x)
    PROVE  CopyKind(p, v, x)
  <1>1. PICK a, c : /\ DOMAIN a = {v} /\ c[a[v]] = x /\ RowStep(p, a, {}, c)
                    /\ refs' = [f \in Frames |-> refs'[f]]
    BY CowRow
  <1>2. RestTyped /\ UNCHANGED pstate /\ pstate[p] = "RUNNABLE"
    BY <1>1 DEF FixCowPage, RestTyped, IInv, TypeOK, procVars, Runs
  <1> QED
    BY <1>1, <1>2 DEF CopyKind, RunningRow

\* Fresh pages, for brk, mmap and the stack.
LEMMA MapKinds ==
    ASSUME IInv, NEW p \in Procs, NEW V \in SUBSET VAs, Runs(p),
           \E a \in Allocations(V) : MapFresh(p, a),
           UNCHANGED <<pstate, halted>>,
           brk' \in [Procs -> Nat], mmap_next' \in [Procs -> Nat]
    PROVE  MapKind(p)
  <1>1. PICK a \in Allocations(V) : MapFresh(p, a)
    OBVIOUS
  <1>2. /\ DOMAIN a = V /\ RowStep(p, a, {}, ZeroContent(a))
        /\ \A v \in V : ZeroContent(a)[a[v]] = 0
        /\ lost' \in [Frames -> Nat] /\ refs' = [f \in Frames |-> refs'[f]]
        /\ tables' \in [Procs -> SUBSET Tables]
    BY <1>1, MapFreshRow
  <1>3. RestTyped /\ pstate[p] = "RUNNABLE"
    BY <1>2 DEF RestTyped, IInv, TypeOK, Runs
  <1> QED
    BY <1>2, <1>3 DEF MapKind, RunningRow

\* The pages that get mapped are among those asked for.
LEMMA BackedSubset ==
    ASSUME NEW T, NEW V \in SUBSET VAs, NEW n
    PROVE  Backed(T, V, n) \in SUBSET VAs
  BY DEF Backed

\* Accesses and page faults.
LEMMA AccessKinds ==
    ASSUME IInv, NEW p \in Procs, NEW v \in VAs, NEW x \in Values,
           \/ CowFault(p, v) \/ StackFault(p, v) \/ FatalFault(p, v)
           \/ Store(p, v, x) \/ KernelWrite(p, v, x)
    PROVE  \/ Quiet \/ MapKind(p)
           \/ \E y \in Values : CopyKind(p, v, y) \/ StoreKind(p, v, y)
  <1>1. CASE CowFault(p, v)
    <2>1. content[pt[p][v].frame] \in Values
      BY <1>1 DEF CowFault, IInv, MappedHaveValues
    <2> QED
      BY <1>1, <2>1, CopyKinds DEF CowFault
  <1>2. CASE StackFault(p, v)
    <2>1. {v} \in SUBSET VAs /\ brk' \in [Procs -> Nat] /\ mmap_next' \in [Procs -> Nat]
      BY <1>2 DEF StackFault, IInv, TypeOK, procVars
    <2> QED
      BY <1>2, <2>1, MapKinds DEF StackFault, procVars
  <1>3. CASE FatalFault(p, v)
    BY <1>3, HaltQuiet DEF FatalFault, Halts
  <1>4. CASE Store(p, v, x)
    BY <1>4, StoreKinds DEF Store
  <1>5. CASE KernelWrite(p, v, x)
    <2>1. CASE Halt("fault")
      BY <2>1, HaltQuiet DEF Halts
    <2>2. CASE Present(p, v) /\ FixCowPage(p, v, x)
      BY <1>5, <2>2, CopyKinds DEF KernelWrite
    <2>3. CASE /\ Present(p, v) /\ ~pt[p][v].cow
               /\ content' = [content EXCEPT ![pt[p][v].frame] = x]
               /\ UNCHANGED <<mapVars, refs, procVars, halted>>
      BY <1>5, <2>3, StoreKinds DEF KernelWrite
    <2> QED
      BY <1>5, <2>1, <2>2, <2>3 DEF KernelWrite
  <1> QED
    BY <1>1, <1>2, <1>3, <1>4, <1>5

\* Rounding up to pages stays within the address space.
LEMMA RoundedUp ==
    ASSUME NEW u \in Nat
    PROVE  /\ PageRoundUp(u) \in Nat
           /\ u <= VATop * Units => PageRoundUp(u) <= VATop
  <1> DEFINE d == Units
             x == u + d - 1
             q == x \div d
             r == x % d
  <1>1. d \in Nat \ {0} /\ VATop \in Nat
    BY LayoutAssumption
  <1>2. x \in Nat /\ x = u + d - 1
    BY <1>1
  <1> HIDE DEF d, x
  <1>3. q \in Int /\ r \in 0 .. d - 1 /\ r = x - d * q
    BY <1>1, <1>2
  <1>4. PageRoundUp(u) = q
    BY DEF PageRoundUp, d, x
  <1> HIDE DEF q, r
  <1>5. q >= 0
    <2>1. d * q > -d
      BY <1>1, <1>2, <1>3
    <2>2. q <= -1 => d * q <= -d
      BY <1>1, <1>3
    <2> QED
      BY <1>1, <1>3, <2>1, <2>2
  <1>6. ASSUME u <= VATop * d
        PROVE  q <= VATop
    <2>1. d * q < VATop * d + d
      BY <1>1, <1>2, <1>3, <1>6
    <2>2. q >= VATop + 1 => d * q >= d * (VATop + 1)
      BY <1>1, <1>3
    <2>3. d * (VATop + 1) = VATop * d + d
      BY <1>1
    <2> QED
      BY <1>1, <1>3, <2>1, <2>2, <2>3
  <1> QED
    BY <1>3, <1>4, <1>5, <1>6 DEF d


\* brk: it shrinks, fails, stops the machine or maps pages.
LEMMA BrkKinds ==
    ASSUME IInv, NEW p \in Procs, NEW requested \in BrkRequests, Brk(p, requested)
    PROVE  Quiet \/ MapKind(p)
  <1>1. requested \in Nat /\ requested <= VATop * Units
    BY BrkAssumption, LayoutAssumption
  <1>2. brk \in [Procs -> Nat] /\ mmap_next \in [Procs -> Nat] /\ Runs(p)
    BY DEF IInv, TypeOK, Brk
  <1>3. [brk EXCEPT ![p] = requested] \in [Procs -> Nat]
    BY <1>1, <1>2
  <1>4. CASE requested <= brk[p]
    <2>1. \/ UNCHANGED vars
          \/ /\ UNCHANGED <<mapVars, pageVars, pstate, mmap_next, halted>>
             /\ brk' \in [Procs -> Nat]
      <3>1. ~(requested > brk[p])
        BY <1>1, <1>2, <1>4
      <3>2. \/ UNCHANGED vars
            \/ /\ UNCHANGED <<mapVars, pageVars, pstate, mmap_next, halted>>
               /\ brk' = [brk EXCEPT ![p] = requested]
        BY <3>1, Zenon DEF Brk
      <3> QED
        BY <1>3, <3>2, Zenon
    <2> QED
      BY <1>2, <2>1 DEF Quiet, RestTyped, IInv, TypeOK, vars, mapVars, pageVars, procVars
  <1>5. CASE ~(requested <= brk[p])
    <2> DEFINE V == PageRoundUp(brk[p]) .. PageRoundUp(requested) - 1
               B == Backed(tables[p], V, FreePages)
    <2>1. V \in SUBSET VAs
      <3>1. /\ PageRoundUp(brk[p]) \in Nat /\ PageRoundUp(requested) \in Nat
            /\ PageRoundUp(requested) <= VATop
        BY <1>1, <1>2, RoundedUp
      <3> QED
        BY <3>1, LayoutAssumption DEF VAs
    <2>2. B \in SUBSET VAs
      BY <2>1, BackedSubset
    <2>3. GrowPages(p, V, brk' = [brk EXCEPT ![p] = requested] /\ UNCHANGED mmap_next,
                          UNCHANGED <<brk, mmap_next>>)
      <3>1. requested # 0
        BY <1>1, <1>2, <1>5
      <3> QED
        BY <1>5, <3>1 DEF Brk
    <2> HIDE DEF V
    <2>4. \/ Halt("kernel window") \/ Halt("table")
          \/ /\ \E a \in Allocations(B) : MapFresh(p, a)
             /\ UNCHANGED mmap_next
             /\ brk' = [brk EXCEPT ![p] = requested] \/ UNCHANGED brk
             /\ UNCHANGED <<pstate, halted>>
      BY <2>3 DEF GrowPages
    <2> HIDE DEF B
    <2>5. CASE Halt("kernel window") \/ Halt("table")
      BY <2>5, HaltQuiet DEF Halts
    <2>6. CASE /\ \E a \in Allocations(B) : MapFresh(p, a)
               /\ UNCHANGED mmap_next
               /\ brk' = [brk EXCEPT ![p] = requested] \/ UNCHANGED brk
               /\ UNCHANGED <<pstate, halted>>
      BY <1>2, <1>3, <2>2, <2>6, MapKinds
    <2> QED
      BY <2>4, <2>5, <2>6
  <1> QED
    BY <1>4, <1>5

\* mmap at the cursor.
LEMMA MmapKinds ==
    ASSUME IInv, NEW p \in Procs, NEW len \in Lengths, Mmap(p, len)
    PROVE  Quiet \/ MapKind(p)
  <1> DEFINE end == mmap_next[p] + len
             V == mmap_next[p] .. end - 1
             B == Backed(tables[p], V, FreePages)
  <1>1. brk \in [Procs -> Nat] /\ mmap_next \in [Procs -> Nat] /\ Runs(p) /\ end <= VATop
    BY DEF IInv, TypeOK, Mmap
  <1>2. len \in Nat /\ VATop \in Nat
    BY LayoutAssumption DEF Lengths
  <1>3. V \in SUBSET VAs
    BY <1>1, <1>2 DEF VAs
  <1>4. B \in SUBSET VAs
    BY <1>3, BackedSubset
  <1>5. [mmap_next EXCEPT ![p] = end] \in [Procs -> Nat]
    BY <1>1, <1>2
  <1>6. GrowPages(p, V, mmap_next' = [mmap_next EXCEPT ![p] = end] /\ UNCHANGED brk,
                        mmap_next' = [mmap_next EXCEPT ![p] = end] /\ UNCHANGED brk)
    BY DEF Mmap
  <1> HIDE DEF V, end
  <1>7. \/ Halt("kernel window") \/ Halt("table")
        \/ /\ \E a \in Allocations(B) : MapFresh(p, a)
           /\ UNCHANGED <<pstate, halted>>
           /\ mmap_next' = [mmap_next EXCEPT ![p] = end] /\ UNCHANGED brk
    BY <1>6 DEF GrowPages
  <1> HIDE DEF B
  <1>8. CASE Halt("kernel window") \/ Halt("table")
    BY <1>8, HaltQuiet DEF Halts
  <1>9. CASE /\ \E a \in Allocations(B) : MapFresh(p, a)
             /\ UNCHANGED <<pstate, halted>>
             /\ mmap_next' = [mmap_next EXCEPT ![p] = end] /\ UNCHANGED brk
    BY <1>1, <1>4, <1>5, <1>9, MapKinds
  <1> QED
    BY <1>7, <1>8, <1>9

\* A range that a program names.
LEMMA RangeShape ==
    ASSUME NEW V \in Ranges
    PROVE  /\ V \in SUBSET VAs
           /\ \E lo \in VAs, n \in Nat \ {0} :
                 /\ V = lo .. lo + n - 1 /\ lo + n <= VATop
                 /\ Min(V) = lo /\ Max(V) = lo + n - 1 /\ Cardinality(V) = n
  <1>1. PICK lo \in MmapLo .. KernelLo - 1, n \in Lengths : V = lo .. lo + n - 1
    BY DEF Ranges
  <1>2. V \subseteq MmapLo .. KernelLo - 1
    BY DEF Ranges
  <1>3. /\ MmapLo \in Nat /\ KernelLo \in Nat /\ VATop \in Nat /\ KernelLo <= VATop
        /\ n \in Nat \ {0} /\ lo \in Nat
    BY LayoutAssumption DEF Lengths
  <1>4. lo \in V /\ lo + n - 1 \in V
    BY <1>1, <1>3
  <1>5. V \in SUBSET VAs /\ lo \in VAs /\ lo + n <= VATop
    BY <1>1, <1>2, <1>3, <1>4 DEF VAs
  <1>6. Min(V) = lo
    <2>1. \A x \in V : lo <= x
      BY <1>1, <1>3
    <2>2. \A x \in V : (\A y \in V : x <= y) => x = lo
      BY <1>1, <1>3, <1>4
    <2> QED
      BY <1>4, <2>1, <2>2 DEF Min
  <1>7. Max(V) = lo + n - 1
    <2>1. \A x \in V : lo + n - 1 >= x
      BY <1>1, <1>3
    <2>2. \A x \in V : (\A y \in V : x >= y) => x = lo + n - 1
      BY <1>1, <1>3, <1>4
    <2> QED
      BY <1>4, <2>1, <2>2 DEF Max
  <1>8. Cardinality(V) = n
    <2>1. lo \in Int /\ lo + n - 1 \in Int /\ ~(lo > lo + n - 1)
      BY <1>3
    <2>2. Cardinality(lo .. lo + n - 1) = (lo + n - 1) - lo + 1
      BY <2>1, FS_Interval
    <2> QED
      BY <1>1, <1>3, <2>2
  <1> QED
    BY <1>1, <1>3, <1>5, <1>6, <1>7, <1>8

\* mmap with MAP_FIXED.
LEMMA MmapFixedKinds ==
    ASSUME IInv, NEW p \in Procs, NEW V \in Ranges, MmapFixed(p, V)
    PROVE  Quiet \/ MapKind(p)
  <1> DEFINE end == Max(V) + 1
             B == Backed(tables[p], V, FreePages)
             next == [mmap_next EXCEPT ![p] = IF end > @ THEN end ELSE @]
  <1>1. brk \in [Procs -> Nat] /\ mmap_next \in [Procs -> Nat] /\ Runs(p)
    BY DEF IInv, TypeOK, MmapFixed
  <1>2. V \in SUBSET VAs /\ end \in Nat
    <2>1. PICK lo \in VAs, n \in Nat \ {0} : Max(V) = lo + n - 1
      BY RangeShape
    <2> QED
      BY <2>1, RangeShape, LayoutAssumption DEF VAs
  <1>3. B \in SUBSET VAs
    BY <1>2, BackedSubset
  <1>4. next \in [Procs -> Nat]
    BY <1>1, <1>2
  <1>5. GrowPages(p, V, mmap_next' = next /\ UNCHANGED brk, UNCHANGED <<brk, mmap_next>>)
    BY DEF MmapFixed
  <1> HIDE DEF next, end
  <1>6. \/ Halt("kernel window") \/ Halt("table")
        \/ /\ \E a \in Allocations(B) : MapFresh(p, a)
           /\ UNCHANGED <<pstate, halted>>
           /\ mmap_next' = next \/ UNCHANGED mmap_next
           /\ UNCHANGED brk
    BY <1>5 DEF GrowPages
  <1> HIDE DEF B
  <1>7. CASE Halt("kernel window") \/ Halt("table")
    BY <1>7, HaltQuiet DEF Halts
  <1>8. CASE /\ \E a \in Allocations(B) : MapFresh(p, a)
             /\ UNCHANGED <<pstate, halted>>
             /\ mmap_next' = next \/ UNCHANGED mmap_next
             /\ UNCHANGED brk
    BY <1>1, <1>3, <1>4, <1>8, MapKinds
  <1> QED
    BY <1>6, <1>7, <1>8

\* munmap.
LEMMA MunmapKinds ==
    ASSUME IInv, NEW p \in Procs, NEW V \in Ranges, Munmap(p, V)
    PROVE  UnmapKind(p, V)
  <1>1. V \in SUBSET VAs
    BY RangeShape
  <1>2. /\ DOMAIN NoPages = {} /\ RowStep(p, NoPages, V, content)
        /\ refs' = [f \in Frames |-> refs'[f]]
    BY <1>1, UnmapRow DEF Munmap
  <1>3. RestTyped /\ UNCHANGED pstate /\ pstate[p] = "RUNNABLE"
    BY <1>2 DEF Munmap, RestTyped, IInv, TypeOK, procVars, Runs
  <1> QED
    BY <1>2, <1>3 DEF UnmapKind, RunningRow

\* wait4.
LEMMA ReapKinds ==
    ASSUME IInv, NEW p \in Procs, Reap(p)
    PROVE  ReapKind(p)
  <1>1. VAs \in SUBSET VAs
    OBVIOUS
  <1>2. /\ DOMAIN NoPages = {} /\ RowStep(p, NoPages, VAs, content)
        /\ refs' = [f \in Frames |-> refs'[f]]
    BY <1>1, UnmapRow DEF Reap
  <1>3. RestTyped
    BY <1>2 DEF Reap, RestTyped, IInv, TypeOK
  <1> QED
    BY <1>2, <1>3 DEF ReapKind, Reap

\* exit.
LEMMA ExitKinds ==
    ASSUME IInv, NEW p \in Procs, Exit(p)
    PROVE  Quiet
  BY DEF Quiet, Exit, Runs, RestTyped, IInv, TypeOK, mapVars, pageVars

\* execve: it fails, stops the machine or starts the program.
LEMMA ExecveKinds ==
    ASSUME IInv, NEW p \in Procs, NEW x \in FileValues, NEW y \in FileValues,
           Execve(p, x, y)
    PROVE  Quiet \/ ExecKind(p, x, y)
  <1>1. CASE UNCHANGED vars
    BY <1>1, Untouched DEF vars, IInv, TypeOK
  <1>2. CASE Halt("execve")
    BY <1>2, HaltQuiet DEF Halts
  <1>3. ASSUME NEW a \in Allocations(NewVAs), ExecStep(p, a, x, y),
               tables' = [tables EXCEPT ![p] = NewTables],
               brk' = [brk EXCEPT ![p] = BrkLo * Units],
               mmap_next' = [mmap_next EXCEPT ![p] = MmapLo],
               UNCHANGED <<pstate, halted>>
        PROVE  ExecKind(p, x, y)
    <2>1. /\ DOMAIN a = NewVAs /\ RowStep(p, a, VAs, Loaded(a, x, y))
          /\ refs' = [f \in Frames |-> refs'[f]]
          /\ \A v \in NewVAs : Loaded(a, x, y)[a[v]] = IF v = StackTop THEN y ELSE x
      BY <1>3, ExecveRow
    <2>2. tables' \in [Procs -> SUBSET Tables]
      BY <1>3, NewPages DEF IInv, TypeOK
    <2>3. brk' \in [Procs -> Nat] /\ mmap_next' \in [Procs -> Nat]
      BY <1>3, NewPages DEF IInv, TypeOK
    <2>4. RestTyped /\ pstate[p] = "RUNNABLE"
      BY <1>3, <2>1, <2>2, <2>3 DEF RestTyped, IInv, TypeOK, Execve, Runs, ExecStep
    <2>5. RunningRow(p, a, VAs, Loaded(a, x, y))
      BY <1>3, <2>1, <2>4 DEF RunningRow
    <2> QED
      BY <2>1, <2>5 DEF ExecKind
  <1> QED
    BY <1>1, <1>2, <1>3 DEF Execve, ExecStep

\* mremap that may move: it fails half-way, stops the machine or moves.
LEMMA MremapKinds ==
    ASSUME IInv, NEW p \in Procs, NEW Old \in Returned(p), NEW k \in Lengths, Mremap(p, Old, k)
    PROVE  Quiet \/ MapKind(p) \/ MoveKind(p, Old, k)
  <1> DEFINE end == mmap_next[p] + Cardinality(Old) + k
             V == mmap_next[p] .. (mmap_next[p] + Cardinality(Old) + k) - 1
             B == Backed(tables[p], V, FreePages)
  <1>1. brk \in [Procs -> Nat] /\ mmap_next \in [Procs -> Nat] /\ Runs(p)
    BY DEF IInv, TypeOK, Mremap
  <1>2. Cardinality(Old) \in Nat /\ k \in Nat /\ Old \in SUBSET VAs /\ VATop \in Nat
    BY RangeShape, LayoutAssumption DEF Lengths, Returned
  <1>3. end <= VATop /\ Old \cap V = {}
    <2>1. \A v \in Old : v \in Int /\ v < mmap_next[p]
      BY <1>2, LayoutAssumption DEF VAs, Returned
    <2>2. end <= VATop
      BY DEF Mremap
    <2> QED
      BY <1>1, <2>1, <2>2
  <1>4. V \in SUBSET VAs
    BY <1>1, <1>2, <1>3 DEF VAs
  <1>5. B \in SUBSET VAs
    BY <1>4, BackedSubset
  <1>6. [mmap_next EXCEPT ![p] = end] \in [Procs -> Nat]
    BY <1>1, <1>2
  <1>7. \/ Halt("kernel window") \/ Halt("table") \/ Halt("fault")
        \/ /\ \E a \in Allocations(B) : MapFresh(p, a)
           /\ mmap_next' = [mmap_next EXCEPT ![p] = end]
           /\ UNCHANGED <<pstate, brk, halted>>
        \/ /\ \A v \in Old : Present(p, v)
           /\ \E a \in Allocations(V) : MovePages(p, Old, V, a)
           /\ mmap_next' = [mmap_next EXCEPT ![p] = end]
           /\ UNCHANGED <<pstate, brk, halted>>
    BY DEF Mremap
  <1> HIDE DEF B, V, end
  <1>8. CASE Halt("kernel window") \/ Halt("table") \/ Halt("fault")
    BY <1>8, HaltQuiet DEF Halts
  <1>9. CASE /\ \E a \in Allocations(B) : MapFresh(p, a)
             /\ mmap_next' = [mmap_next EXCEPT ![p] = end]
             /\ UNCHANGED <<pstate, brk, halted>>
    BY <1>1, <1>5, <1>6, <1>9, MapKinds
  <1>10. ASSUME \A v \in Old : Present(p, v), NEW a \in Allocations(V), MovePages(p, Old, V, a),
                mmap_next' = [mmap_next EXCEPT ![p] = end],
                UNCHANGED <<pstate, brk, halted>>
         PROVE  MoveKind(p, Old, k)
    <2>1. /\ DOMAIN a = V /\ RowStep(p, a, Old, Moved(p, Old, V, a))
          /\ lost' \in [Frames -> Nat] /\ refs' = [f \in Frames |-> refs'[f]]
      BY <1>2, <1>3, <1>4, <1>10, MremapRow
    <2>2. tables' \in [Procs -> SUBSET Tables]
      <3>1. {TableOf(v) : v \in V} \subseteq Tables
        BY <1>4 DEF Tables
      <3> QED
        BY <1>10, <3>1 DEF IInv, TypeOK, MovePages
    <2>3. RestTyped /\ pstate[p] = "RUNNABLE"
      BY <1>1, <1>6, <1>10, <2>1, <2>2 DEF RestTyped, IInv, TypeOK, Runs
    <2>4. RunningRow(p, a, Old, Moved(p, Old, V, a)) /\ FreshPages(a)
      BY <1>10, <2>1, <2>3 DEF RunningRow, RowStep
    <2> QED
      BY <1>3, <1>4, <1>10, <2>1, <2>4 DEF MoveKind, V
  <1> QED
    BY <1>7, <1>8, <1>9, <1>10


\* A fork that finds its pages: parent and child name the same frames.
ForkKind(p, c) ==
    /\ pstate[p] = "RUNNABLE" /\ pstate[c] = "UNUSED"
    /\ pstate' = [pstate EXCEPT ![c] = "RUNNABLE"]
    /\ pt' \in [Procs -> [VAs -> Pte]]
    /\ \A q \in Procs, v \in VAs : q # p /\ q # c => pt'[q][v] = pt[q][v]
    /\ \A v \in VAs : pt'[c][v].frame = pt[p][v].frame /\ pt'[p][v].frame = pt[p][v].frame
    /\ \A v \in VAs : Present(p, v) => pt'[c][v].cow /\ pt'[p][v].cow
    /\ \A f \in Frames : refs'[f] = refs[f] + Cardinality(Naming(pt[p], f))
    /\ UNCHANGED <<content, lost>> /\ RestTyped

\* fork: it stops the machine or shares all pages.
LEMMA ForkKinds ==
    ASSUME IInv, NEW p \in Procs, NEW c \in Procs, Fork(p, c)
    PROVE  Quiet \/ ForkKind(p, c)
  <1> DEFINE V == {v \in VAs : Present(p, v)}
             T == {Root} \cup {TableOf(v) : v \in V}
             t == [v \in VAs |-> v \in V]
             m == [v \in VAs |-> [frame |-> pt[p][v].frame, cow |-> t[v]]]
  <1>1. CASE Halt("fork")
    BY <1>1, HaltQuiet DEF Halts
  <1>2. CASE /\ pt' = Shared(p, c, t)
             /\ tables' = [tables EXCEPT ![c] = T]
             /\ refs' = [f \in Frames |-> refs[f] + Uses(p, V, f)]
             /\ pstate' = [pstate EXCEPT ![c] = "RUNNABLE"]
             /\ brk' = [brk EXCEPT ![c] = brk[p]]
             /\ mmap_next' = [mmap_next EXCEPT ![c] = mmap_next[p]]
             /\ UNCHANGED <<content, lost, halted>>
    <2>1. pstate[p] = "RUNNABLE" /\ pstate[c] = "UNUSED" /\ p # c
      BY DEF Fork, Runs
    <2>2. pt \in [Procs -> [VAs -> Pte]]
      BY DEF IInv, TypeOK
    <2>3. m \in [VAs -> Pte]
      <3>1. \A v \in VAs : pt[p][v].frame \in Frames \cup {NoFrame} /\ t[v] \in BOOLEAN
        BY <2>2, FrameTyped
      <3> HIDE DEF t
      <3> QED
        BY <3>1 DEF Pte
    <2>4. pt' = [pt EXCEPT ![p] = m, ![c] = m]
      BY <1>2 DEF Shared
    <2>5. \A v \in VAs : m[v].frame = pt[p][v].frame /\ (Present(p, v) => m[v].cow)
      OBVIOUS
    <2> HIDE DEF m
    <2>6. pt' \in [Procs -> [VAs -> Pte]]
      BY <2>2, <2>3, <2>4
    <2>7. /\ \A q \in Procs : q # p /\ q # c => pt'[q] = pt[q]
          /\ pt'[p] = m /\ pt'[c] = m
      BY <2>1, <2>2, <2>4
    <2>8. \A f \in Frames : refs'[f] = refs[f] + Cardinality(Naming(pt[p], f))
      <3> SUFFICES ASSUME NEW f \in Frames
                   PROVE  refs'[f] = refs[f] + Cardinality(Naming(pt[p], f))
        OBVIOUS
      <3>1. {v \in V : pt[p][v].frame = f} = Naming(pt[p], f)
        BY FramesAssumption DEF Naming, Present
      <3> QED
        BY <1>2, <3>1 DEF Uses
    <2>9. tables' \in [Procs -> SUBSET Tables]
      <3>1. T \subseteq Tables
        BY DEF Tables
      <3> QED
        BY <1>2, <3>1 DEF IInv, TypeOK
    <2>10. brk' \in [Procs -> Nat] /\ mmap_next' \in [Procs -> Nat]
      BY <1>2 DEF IInv, TypeOK
    <2>11. refs' = [f \in Frames |-> refs'[f]]
      BY <1>2
    <2>12. RestTyped
      BY <1>2, <2>9, <2>10, <2>11 DEF RestTyped, IInv, TypeOK
    <2> QED
      BY <1>2, <2>1, <2>5, <2>6, <2>7, <2>8, <2>12 DEF ForkKind
  <1> QED
    BY <1>1, <1>2 DEF Fork

\* A fork keeps the invariant: each frame of the parent gains the child's
\* PTEs, and none of the two's is writable any more.
LEMMA ForkSafe ==
    ASSUME IInv, NEW p \in Procs, NEW c \in Procs, ForkKind(p, c)
    PROVE  IInv'
  <1>1. p # c /\ pt \in [Procs -> [VAs -> Pte]] /\ pt' \in [Procs -> [VAs -> Pte]]
    BY DEF ForkKind, IInv, TypeOK
  <1>2. \A v \in VAs : pt[c][v].frame = NoFrame
    BY DEF ForkKind, IInv, UnusedEmpty, NoPte
  <1>3. ASSUME NEW f \in Frames
        PROVE  /\ refs'[f] = Cardinality(UsersIn(pt', f)) + lost'[f]
               /\ refs'[f] \in Nat
    <2>1. OthersKept(pt, pt', c)
      BY DEF OthersKept, ForkKind
    <2>2. Cardinality(UsersIn(pt', f)) = Cardinality(UsersIn(pt, f))
                - Cardinality(Naming(pt[c], f)) + Cardinality(Naming(pt'[c], f))
      BY <2>1, OneRowChanged
    <2>3. Naming(pt[c], f) = {} /\ Naming(pt'[c], f) = Naming(pt[p], f)
      BY <1>2, FramesAssumption DEF Naming, ForkKind
    <2>4. /\ Cardinality(UsersIn(pt, f)) \in Nat
          /\ Cardinality(Naming(pt[p], f)) \in Nat
      BY UsersFinite, NamingFinite
    <2>5. /\ refs[f] = Cardinality(UsersIn(pt, f)) + lost[f]
          /\ lost[f] \in Nat /\ lost'[f] = lost[f]
          /\ refs'[f] = refs[f] + Cardinality(Naming(pt[p], f))
      BY DEF IInv, RefsExact, Users, UsersIn, TypeOK, ForkKind
    <2>6. Cardinality(Naming(pt[c], f)) = 0
      BY <2>3, FS_EmptySet
    <2> QED
      BY <2>2, <2>3, <2>4, <2>5, <2>6
  <1>4. RefsExact'
    BY <1>3 DEF RefsExact, Users, UsersIn
  <1>5. refs' \in [Frames -> Nat]
    BY <1>3 DEF ForkKind, RestTyped
  <1>6. TypeOK'
    BY <1>1, <1>5 DEF TypeOK, IInv, ForkKind, RestTyped
  \* After the fork every PTE names the frame of some PTE before it.
  <1>7. \A q \in Procs, v \in VAs : \E r \in Procs :
          /\ r = IF q = c THEN p ELSE q
          /\ pt'[q][v].frame = pt[r][v].frame
    BY DEF ForkKind
  <1>8. WritableUnshared'
    <2> SUFFICES ASSUME NEW q \in Procs, NEW r \in Procs, NEW u \in VAs, NEW v \in VAs,
                        pt'[q][u].frame # NoFrame, ~pt'[q][u].cow,
                        pt'[r][v].frame = pt'[q][u].frame
                 PROVE  q = r /\ u = v
      BY DEF WritableUnshared, Present
    <2>1. q # p /\ q # c
      BY DEF ForkKind, Present
    <2>2. pt'[q][u] = pt[q][u]
      BY <2>1 DEF ForkKind
    <2>3. \A s \in Procs : pt[s][v].frame = pt[q][u].frame => q = s /\ u = v
      BY <2>2 DEF IInv, WritableUnshared, Present
    <2> QED
      BY <1>7, <2>1, <2>2, <2>3
  <1>9. MappedHaveValues'
    BY <1>7 DEF IInv, MappedHaveValues, Present, ForkKind
  <1>10. UnusedEmpty'
    BY DEF IInv, UnusedEmpty, ForkKind, TypeOK
  <1> QED
    BY <1>4, <1>6, <1>8, <1>9, <1>10 DEF IInv

\* A quiet step keeps the invariant.
LEMMA QuietSafe ==
    ASSUME IInv, Quiet
    PROVE  IInv'
  <1>1. TypeOK'
    BY DEF IInv, Quiet, RestTyped, TypeOK
  <1>2. RefsExact'
    BY DEF IInv, Quiet, RefsExact, Users
  <1>3. WritableUnshared' /\ UnusedEmpty' /\ MappedHaveValues'
    BY DEF IInv, Quiet, WritableUnshared, UnusedEmpty, MappedHaveValues, Present
  <1> QED
    BY <1>1, <1>2, <1>3 DEF IInv

\* A store keeps the invariant.
LEMMA StoreSafe ==
    ASSUME IInv, NEW p \in Procs, NEW v \in VAs, NEW x \in Values, StoreKind(p, v, x)
    PROVE  IInv'
  <1>1. content' \in [Frames -> Values \cup {Junk}]
    BY DEF IInv, TypeOK, StoreKind
  <1>2. TypeOK'
    BY <1>1 DEF IInv, StoreKind, RestTyped, TypeOK
  <1>3. RefsExact'
    BY DEF IInv, StoreKind, RefsExact, Users
  <1>4. WritableUnshared' /\ UnusedEmpty'
    BY DEF IInv, StoreKind, WritableUnshared, UnusedEmpty, Present
  <1>5. MappedHaveValues'
    <2> SUFFICES ASSUME NEW q \in Procs, NEW u \in VAs, pt[q][u].frame # NoFrame
                 PROVE  content'[pt[q][u].frame] \in Values
      BY DEF MappedHaveValues, Present, StoreKind
    <2>1. pt[q][u].frame \in Frames /\ content[pt[q][u].frame] \in Values
      BY FrameTyped DEF IInv, TypeOK, MappedHaveValues, Present
    <2> QED
      BY <2>1 DEF StoreKind, IInv, TypeOK
  <1> QED
    BY <1>2, <1>3, <1>4, <1>5 DEF IInv

\* A step in the address space of a running process keeps the invariant.
LEMMA RunningRowSafe ==
    ASSUME IInv, NEW p \in Procs, NEW a, NEW D \in SUBSET VAs, NEW c,
           RunningRow(p, a, D, c)
    PROVE  IInv'
  <1>1. RowStep(p, a, D, c) /\ RestTyped
    BY DEF RunningRow
  <1>2. \A q \in Procs : pstate'[q] = "UNUSED" => q # p /\ pstate[q] = "UNUSED"
    BY DEF RunningRow
  <1> QED
    BY <1>1, <1>2, RowSafe

\* The end of a zombie's address space keeps the invariant.
LEMMA ReapSafe ==
    ASSUME IInv, NEW p \in Procs, ReapKind(p)
    PROVE  IInv'
  <1>1. RowStep(p, NoPages, VAs, content) /\ RestTyped /\ DOMAIN NoPages = {}
        /\ VAs \in SUBSET VAs
    BY DEF ReapKind
  <1>2. \A q \in Procs : pstate'[q] = "UNUSED" =>
          (q # p /\ pstate[q] = "UNUSED") \/ q = p
    BY DEF ReapKind, IInv, TypeOK
  <1> QED
    BY <1>1, <1>2, RowSafe

-----------------------------------------------------------------------------
(***************************************************************************)
(* The invariant.                                                          *)
(***************************************************************************)
SomeKind ==
    \/ Quiet
    \/ \E p \in Procs : MapKind(p) \/ ReapKind(p)
    \/ \E p \in Procs, v \in VAs, x \in Values : StoreKind(p, v, x) \/ CopyKind(p, v, x)
    \/ \E p \in Procs, V \in Ranges : UnmapKind(p, V)
    \/ \E p \in Procs, Old \in Ranges, k \in Lengths : MoveKind(p, Old, k)
    \/ \E p \in Procs, x \in FileValues, y \in FileValues : ExecKind(p, x, y)
    \/ \E p, c \in Procs : ForkKind(p, c)

\* Every step is of one of the kinds.
LEMMA StepKinds ==
    ASSUME IInv, [Next]_vars
    PROVE  SomeKind
  <1>1. CASE UNCHANGED vars
    <2>1. UNCHANGED <<mapVars, pageVars, procVars>> /\ halted' \in Halts
      BY <1>1 DEF vars, IInv, TypeOK
    <2> QED
      BY <2>1, Untouched DEF SomeKind
  <1>2. ASSUME NEW p \in Procs, NEW v \in VAs \ KernelVAs, NEW x \in Values,
               \/ CowFault(p, v) \/ StackFault(p, v) \/ FatalFault(p, v)
               \/ Store(p, v, x) \/ KernelWrite(p, v, x)
        PROVE  SomeKind
    BY <1>2, AccessKinds DEF SomeKind
  <1>3. ASSUME NEW p \in Procs, NEW v \in VAs \ KernelVAs,
               CowFault(p, v) \/ StackFault(p, v) \/ FatalFault(p, v)
        PROVE  SomeKind
    BY <1>2, <1>3, ValuesAssumption
  <1>4. ASSUME NEW p \in Procs, NEW requested \in BrkRequests, Brk(p, requested)
        PROVE  SomeKind
    BY <1>4, BrkKinds DEF SomeKind
  <1>5. ASSUME NEW p \in Procs, NEW len \in Lengths, Mmap(p, len)
        PROVE  SomeKind
    BY <1>5, MmapKinds DEF SomeKind
  <1>6. ASSUME NEW p \in Procs, NEW V \in Ranges, MmapFixed(p, V)
        PROVE  SomeKind
    BY <1>6, MmapFixedKinds DEF SomeKind
  <1>7. ASSUME NEW p \in Procs, NEW V \in Ranges, Munmap(p, V)
        PROVE  SomeKind
    BY <1>7, MunmapKinds DEF SomeKind
  <1>8. ASSUME NEW p \in Procs, NEW V \in Returned(p), NEW k \in Lengths, Mremap(p, V, k)
        PROVE  SomeKind
    BY <1>8, MremapKinds DEF SomeKind, Returned
  <1>9. ASSUME NEW p \in Procs, NEW c \in Procs, Fork(p, c)
        PROVE  SomeKind
    BY <1>9, ForkKinds DEF SomeKind
  <1>10. ASSUME NEW p \in Procs, NEW x \in FileValues, NEW y \in FileValues, Execve(p, x, y)
         PROVE  SomeKind
    BY <1>10, ExecveKinds DEF SomeKind
  <1>11. ASSUME NEW p \in Procs, Exit(p) \/ Reap(p)
         PROVE  SomeKind
    BY <1>11, ExitKinds, ReapKinds DEF SomeKind
  <1>12. CASE HaltForever
    BY <1>1, <1>12 DEF HaltForever
  <1> QED
    BY <1>1, <1>2, <1>3, <1>4, <1>5, <1>6, <1>7, <1>8, <1>9, <1>10, <1>11, <1>12 DEF Next

\* Every kind of step keeps the invariant.
LEMMA KindSafe ==
    ASSUME IInv, SomeKind
    PROVE  IInv'
  <1>1. {} \in SUBSET VAs /\ VAs \in SUBSET VAs
    OBVIOUS
  <1>2. ASSUME NEW p \in Procs, MapKind(p)
        PROVE  IInv'
    BY <1>1, <1>2, RunningRowSafe DEF MapKind
  <1>3. ASSUME NEW p \in Procs, NEW v, NEW x, CopyKind(p, v, x)
        PROVE  IInv'
    BY <1>1, <1>3, RunningRowSafe DEF CopyKind
  <1>4. ASSUME NEW p \in Procs, NEW V \in Ranges, UnmapKind(p, V)
        PROVE  IInv'
    <2>1. V \in SUBSET VAs
      BY RangeShape
    <2> QED
      BY <1>4, <2>1, RunningRowSafe DEF UnmapKind
  <1>5. ASSUME NEW p \in Procs, NEW Old \in Ranges, NEW k \in Lengths, MoveKind(p, Old, k)
        PROVE  IInv'
    <2>1. Old \in SUBSET VAs
      BY RangeShape
    <2>2. \E a, c : RunningRow(p, a, Old, c)
      BY <1>5 DEF MoveKind
    <2> QED
      BY <2>1, <2>2, RunningRowSafe
  <1>6. ASSUME NEW p \in Procs, NEW x, NEW y, ExecKind(p, x, y)
        PROVE  IInv'
    BY <1>1, <1>6, RunningRowSafe DEF ExecKind
  <1> QED
    BY <1>2, <1>3, <1>4, <1>5, <1>6, QuietSafe, ReapSafe, StoreSafe, ForkSafe DEF SomeKind

\* The first process: its frames are in one PTE each, the others in none.
LEMMA InitStep == Init => IInv
  <1> SUFFICES ASSUME Init
               PROVE  IInv
    OBVIOUS
  <1>1. PICK p \in Procs, a \in Alloc(Frames, NewVAs), x \in FileValues, y \in FileValues :
        /\ a \in Injection(NewVAs, Frames)
        /\ pstate = [q \in Procs |-> IF q = p THEN "RUNNABLE" ELSE "UNUSED"]
        /\ pt = [q \in Procs |-> IF q = p THEN NewPt(a) ELSE [v \in VAs |-> NoPte]]
        /\ tables = [q \in Procs |-> IF q = p THEN NewTables ELSE {}]
        /\ refs = [f \in Frames |-> IF f \in Range(a) THEN 1 ELSE 0]
        /\ content = [f \in Frames |-> IF f = a[StackTop] THEN y
                                       ELSE IF f \in Range(a) THEN x ELSE Junk]
        /\ brk = [q \in Procs |-> BrkLo * Units]
        /\ mmap_next = [q \in Procs |-> MmapLo]
        /\ lost = [f \in Frames |-> 0]
        /\ halted = "no"
    BY DEF Init
  <1>2. /\ DOMAIN a = NewVAs /\ \A v \in NewVAs : a[v] \in Frames /\ a[v] # NoFrame
        /\ \A u, v \in NewVAs : a[u] = a[v] => u = v
    BY <1>1, FramesAssumption DEF Injection, IsInjective
  <1>3. Range(a) = Named(a)
    BY DEF Range, Named
  <1>4. NoPte \in Pte /\ NoPte.frame = NoFrame
    BY DEF NoPte, Pte
  <1>5. NewPt(a) \in [VAs -> Pte]
    BY <1>2, <1>4 DEF NewPt, Pte
  <1>6. \A v \in VAs : v \in NewVAs => pt[p][v].frame = a[v]
    <2> SUFFICES ASSUME NEW v \in VAs, v \in NewVAs
                 PROVE  pt[p][v].frame = a[v]
      OBVIOUS
    <2>1. pt[p][v] = [frame |-> a[v], cow |-> FALSE]
      BY <1>1 DEF NewPt
    <2> QED
      BY <2>1
  <1>7. \A q \in Procs, v \in VAs : q # p \/ v \notin NewVAs => pt[q][v] = NoPte
    BY <1>1 DEF NewPt
  <1>8. TypeOK
    <2>1. pt \in [Procs -> [VAs -> Pte]]
      BY <1>1, <1>4, <1>5
    <2>2. tables \in [Procs -> SUBSET Tables] /\ brk \in [Procs -> Nat] /\ mmap_next \in [Procs -> Nat]
      BY <1>1, NewPages
    <2>3. content \in [Frames -> Values \cup {Junk}] /\ refs \in [Frames -> Nat]
          /\ lost \in [Frames -> Nat]
      BY <1>1, ValuesAssumption
    <2>4. halted \in Halts
      BY <1>1 DEF Halts
    <2> QED
      BY <1>1, <2>1, <2>2, <2>3, <2>4 DEF TypeOK
  <1>9. ASSUME NEW f \in Frames
        PROVE  Cardinality(UsersIn(pt, f)) = refs[f]
    <2>1. f # NoFrame
      BY FramesAssumption
    <2>2. \A q \in Procs, v \in VAs : pt[q][v].frame = f => q = p /\ v \in NewVAs /\ a[v] = f
      BY <1>4, <1>6, <1>7, <2>1
    <2>3. CASE f \in Range(a)
      <3>1. PICK u \in NewVAs : a[u] = f
        BY <1>2, <1>3, <2>3 DEF Named
      <3>2. \A q \in Procs, v \in VAs : pt[q][v].frame = f <=> q = p /\ v = u
        BY <1>2, <1>6, <2>2, <3>1, NewPages
      <3>3. UsersIn(pt, f) = {<<p, u>>}
        <4>1. \A z \in Procs \X VAs : pt[z[1]][z[2]].frame = f <=> z = <<p, u>>
          BY <3>2, NewPages
        <4>2. <<p, u>> \in Procs \X VAs
          BY NewPages
        <4> QED
          BY <4>1, <4>2 DEF UsersIn
      <3> QED
        BY <1>1, <2>3, <3>3, FS_Singleton
    <2>4. CASE f \notin Range(a)
      <3>1. \A q \in Procs, v \in VAs : pt[q][v].frame # f
        BY <1>2, <1>3, <2>2, <2>4 DEF Named
      <3>2. UsersIn(pt, f) = {}
        BY <3>1 DEF UsersIn
      <3> QED
        BY <1>1, <2>4, <3>2, FS_EmptySet
    <2> QED
      BY <2>3, <2>4
  <1>10. RefsExact
    <2> SUFFICES ASSUME NEW f \in Frames
                 PROVE  refs[f] = Cardinality(UsersIn(pt, f)) + lost[f]
      BY DEF RefsExact, Users, UsersIn
    <2>1. refs[f] \in Nat /\ lost[f] = 0
      BY <1>1
    <2> QED
      BY <1>9, <2>1
  <1>11. WritableUnshared
    BY <1>2, <1>4, <1>6, <1>7 DEF WritableUnshared, Present
  <1>12. UnusedEmpty
    BY <1>1, <1>7 DEF UnusedEmpty
  <1>13. MappedHaveValues
    <2> SUFFICES ASSUME NEW q \in Procs, NEW v \in VAs, pt[q][v].frame # NoFrame
                 PROVE  content[pt[q][v].frame] \in Values
      BY DEF MappedHaveValues, Present
    <2>1. q = p /\ v \in NewVAs /\ pt[q][v].frame = a[v]
      BY <1>4, <1>6, <1>7
    <2>2. a[v] \in Frames /\ a[v] \in Range(a)
      BY <1>2, <1>3, <2>1 DEF Named
    <2> QED
      BY <1>1, <2>1, <2>2, ValuesAssumption
  <1> QED
    BY <1>8, <1>10, <1>11, <1>12, <1>13 DEF IInv

\* The invariant that the kernel's steps keep.
LEMMA Inductive == Spec => []IInv
  <1>1. IInv /\ [Next]_vars => IInv'
    BY StepKinds, KindSafe
  <1> QED
    BY <1>1, InitStep, PTL DEF Spec

\* Whatever is forked, copied, unmapped, moved or reaped, in whichever order
\* and with however little memory: a page's count is the number of PTEs that
\* name it plus those overwritten, and a page that a process can store to is
\* in no other PTE.
THEOREM FramesSafe == Spec => []FramesOK
  <1>1. IInv => FramesOK
    BY DEF IInv, FramesOK
  <1> QED
    BY <1>1, Inductive, PTL

-----------------------------------------------------------------------------
(***************************************************************************)
(* The refinement: each kind of step is one of PrivateMemory.              *)
(***************************************************************************)
MemoryTyped(m) == m \in [Procs -> [VAs -> Values \cup {Unmapped}]]

\* What the programs see is values, and nothing where no page is.
LEMMA MemoryType ==
    /\ IInv => MemoryTyped(Memory)
    /\ IInv' => MemoryTyped(Memory')
  <1>1. IInv => MemoryTyped(Memory)
    BY DEF MemoryTyped, Memory, IInv, MappedHaveValues
  <1>2. IInv' => MemoryTyped(Memory')
    BY DEF MemoryTyped, Memory, IInv, MappedHaveValues
  <1> QED
    BY <1>1, <1>2

\* Two memories are the same where their pages are.
LEMMA SameMemory ==
    ASSUME NEW m, NEW n, MemoryTyped(m), MemoryTyped(n), NEW q \in Procs,
           \A v \in VAs : n[q][v] = m[q][v]
    PROVE  n[q] = m[q]
  BY DEF MemoryTyped

\* What is not unmapped is a value.
LEMMA PresentMemory ==
    ASSUME IInv, NEW p \in Procs, NEW v \in VAs, Present(p, v)
    PROVE  Memory[p][v] \in Values /\ Memory[p][v] # Unmapped
           /\ Memory[p][v] = content[pt[p][v].frame]
  BY MemoryAt, NoFrameAssumption DEF IInv, MappedHaveValues, Present, Unmapped

\* A step of a running process that leaves the pages of the others alone.
LEMMA OneChanges ==
    ASSUME IInv, IInv', NEW p \in Procs, pstate[p] = "RUNNABLE", UNCHANGED pstate,
           \A q \in Procs, v \in VAs : q # p => Memory'[q][v] = Memory[q][v]
    PROVE  P!Changes(p)
  <1>1. MemoryTyped(Memory) /\ MemoryTyped(Memory')
    BY MemoryType
  <1>2. p \in Live /\ Live' = Live
    BY DEF Live
  <1>3. \A q \in Procs \ {p} : Memory'[q] = Memory[q]
    <2> HIDE DEF Memory
    <2> QED
      BY <1>1, SameMemory
  <1> QED
    BY <1>1, <1>2, <1>3 DEF P!Changes, MemoryTyped

\* A step in one address space changes what that process sees, and nothing
\* else.
LEMMA RowChanges ==
    ASSUME IInv, IInv', NEW p \in Procs, NEW a, NEW D \in SUBSET VAs, NEW c,
           RunningRow(p, a, D, c)
    PROVE  P!Changes(p) /\ MemoryShape(p, a, D, c) /\ DOMAIN a \subseteq VAs
  <1>1. MemoryShape(p, a, D, c) /\ DOMAIN a \subseteq VAs
    BY RowMemory DEF RunningRow, RowStep, FreshPages
  <1> QED
    BY <1>1, OneChanges DEF RunningRow, MemoryShape

\* A quiet step is not seen.
LEMMA QuietPrivate ==
    ASSUME IInv, Quiet
    PROVE  UNCHANGED P!vars
  BY DEF Quiet, P!vars, Memory, Present, Live

\* A store is seen by the process that makes it: no other PTE names the
\* frame.
LEMMA StorePrivate ==
    ASSUME IInv, IInv', NEW p \in Procs, NEW v \in VAs, NEW x \in Values, StoreKind(p, v, x)
    PROVE  P!Store(p)
  <1>1. pt \in [Procs -> [VAs -> Pte]] /\ content \in [Frames -> Values \cup {Junk}]
    BY DEF IInv, TypeOK
  <1>2. ASSUME NEW q \in Procs, NEW u \in VAs, q # p \/ u # v
        PROVE  Memory'[q][u] = Memory[q][u]
    <2>1. Present(q, u) => pt[q][u].frame # pt[p][v].frame /\ pt[q][u].frame \in Frames
      BY <1>1, <1>2, FrameTyped DEF StoreKind, IInv, WritableUnshared, Present
    <2>2. Present(q, u) => content'[pt[q][u].frame] = content[pt[q][u].frame]
      BY <1>1, <2>1 DEF StoreKind
    <2> QED
      BY <2>2, MemoryAt DEF StoreKind, Present
  <1>3. Memory[p][v] # Unmapped
    BY PresentMemory DEF StoreKind
  <1>4. Memory'[p][v] # Unmapped
    <2>1. pt[p][v].frame \in Frames /\ pt[p][v].frame # NoFrame
      BY <1>1, FrameTyped DEF StoreKind, Present
    <2>2. Memory'[p][v] = x
      BY <1>1, <2>1, MemoryAt DEF StoreKind
    <2> QED
      BY <2>2, NoFrameAssumption DEF Unmapped
  <1>5. P!Changes(p)
    BY <1>2, OneChanges DEF StoreKind
  <1> HIDE DEF Memory
  <1> QED
    BY <1>2, <1>3, <1>4, <1>5 DEF P!Store

\* A copied page reads as before, or as the kernel wrote it.
LEMMA CopyPrivate ==
    ASSUME IInv, IInv', NEW p \in Procs, NEW v \in VAs, NEW x \in Values, CopyKind(p, v, x)
    PROVE  P!Store(p)
  <1>1. PICK a, c : /\ RunningRow(p, a, {}, c) /\ DOMAIN a = {v} /\ c[a[v]] = x
                    /\ Present(p, v)
    BY DEF CopyKind
  <1>2. P!Changes(p) /\ MemoryShape(p, a, {}, c)
    BY <1>1, RowChanges
  <1>3. Memory[p][v] # Unmapped
    BY <1>1, PresentMemory
  <1>4. Memory'[p][v] # Unmapped
    BY <1>1, <1>2, NoFrameAssumption DEF MemoryShape, Unmapped
  <1>5. \A u \in VAs \ {v} : Memory'[p][u] = Memory[p][u]
    BY <1>1, <1>2 DEF MemoryShape
  <1> HIDE DEF Memory
  <1> QED
    BY <1>2, <1>3, <1>4, <1>5 DEF P!Store

\* Fresh pages read as zero.
LEMMA MapPrivate ==
    ASSUME IInv, IInv', NEW p \in Procs, MapKind(p)
    PROVE  P!Map(p)
  <1>1. PICK a, c : RunningRow(p, a, {}, c) /\ \A v \in DOMAIN a : c[a[v]] = 0
    BY DEF MapKind
  <1>2. P!Changes(p) /\ MemoryShape(p, a, {}, c)
    BY <1>1, RowChanges
  <1>3. \A v \in VAs : Memory'[p][v] \in {0, Memory[p][v]}
    BY <1>1, <1>2 DEF MemoryShape
  <1> HIDE DEF Memory
  <1> QED
    BY <1>2, <1>3 DEF P!Map

\* munmap takes away pages of its caller.
LEMMA UnmapPrivate ==
    ASSUME IInv, IInv', NEW p \in Procs, NEW V \in Ranges, UnmapKind(p, V)
    PROVE  P!Unmap(p)
  <1>1. V \in SUBSET VAs /\ RunningRow(p, NoPages, V, content) /\ DOMAIN NoPages = {}
    BY RangeShape DEF UnmapKind
  <1>2. P!Changes(p) /\ MemoryShape(p, NoPages, V, content)
    BY <1>1, RowChanges
  <1>3. \A v \in VAs : Memory'[p][v] \in {Unmapped, Memory[p][v]}
    BY <1>1, <1>2 DEF MemoryShape
  <1> HIDE DEF Memory
  <1> QED
    BY <1>2, <1>3 DEF P!Unmap

\* execve leaves the image and the stack.
LEMMA ExecPrivate ==
    ASSUME IInv, IInv', NEW p \in Procs, NEW x \in FileValues, NEW y \in FileValues,
           ExecKind(p, x, y)
    PROVE  P!Execve(p)
  <1>1. PICK a, c : /\ RunningRow(p, a, VAs, c) /\ DOMAIN a = NewVAs
                    /\ \A v \in NewVAs : c[a[v]] = IF v = StackTop THEN y ELSE x
    BY DEF ExecKind
  <1>2. VAs \in SUBSET VAs
    OBVIOUS
  <1>3. P!Changes(p) /\ MemoryShape(p, a, VAs, c)
    BY <1>1, <1>2, RowChanges
  <1>4. MemoryTyped(Memory')
    BY MemoryType
  <1>5. \A v \in VAs : Memory'[p][v] = IF v \in ImageVAs THEN x
                                       ELSE IF v = StackTop THEN y ELSE Unmapped
    BY <1>1, <1>3, NewPages DEF MemoryShape, NewVAs
  <1> HIDE DEF Memory
  <1>6. Memory'[p] = Image(x, y)
    BY <1>4, <1>5 DEF Image, MemoryTyped
  <1> QED
    BY <1>3, <1>6 DEF P!Execve

\* A reaped slot has no memory.
LEMMA ReapPrivate ==
    ASSUME IInv, IInv', NEW p \in Procs, ReapKind(p)
    PROVE  P!Reap(p)
  <1>1. VAs \in SUBSET VAs /\ RowStep(p, NoPages, VAs, content) /\ DOMAIN NoPages = {}
    BY DEF ReapKind
  <1>2. MemoryShape(p, NoPages, VAs, content)
    BY <1>1, RowMemory
  <1>3. MemoryTyped(Memory) /\ MemoryTyped(Memory')
    BY MemoryType
  <1>4. Live' = Live \ {p} /\ p \in Live
    BY DEF ReapKind, Live, IInv, TypeOK
  <1> HIDE DEF Memory
  <1>5. \A q \in Procs : q # p => Memory'[q] = Memory[q]
    BY <1>2, <1>3, SameMemory DEF MemoryShape
  <1>6. Memory'[p] = P!Empty
    BY <1>1, <1>2, <1>3 DEF MemoryShape, MemoryTyped, P!Empty
  <1>7. Memory' = [Memory EXCEPT ![p] = P!Empty]
    BY <1>3, <1>5, <1>6 DEF MemoryTyped
  <1> QED
    BY <1>4, <1>7 DEF P!Reap

\* The child of a fork sees what its parent does.
LEMMA ForkPrivate ==
    ASSUME IInv, IInv', NEW p \in Procs, NEW c \in Procs, ForkKind(p, c)
    PROVE  P!Fork(p)
  <1>1. MemoryTyped(Memory) /\ MemoryTyped(Memory')
    BY MemoryType
  <1>2. \A q \in Procs, v \in VAs : Memory'[q][v] = IF q = c THEN Memory[p][v] ELSE Memory[q][v]
    <2> SUFFICES ASSUME NEW q \in Procs, NEW v \in VAs
                 PROVE  Memory'[q][v] = IF q = c THEN Memory[p][v] ELSE Memory[q][v]
      OBVIOUS
    <2>1. pt'[q][v].frame = IF q = c THEN pt[p][v].frame ELSE pt[q][v].frame
      BY DEF ForkKind
    <2> QED
      BY <2>1, MemoryAt DEF ForkKind
  <1>3. Live' = Live \cup {c} /\ p \in Live /\ c \in Procs \ Live
    BY DEF ForkKind, Live, IInv, TypeOK
  <1> HIDE DEF Memory
  <1>4. \A q \in Procs : Memory'[q] = IF q = c THEN Memory[p] ELSE Memory[q]
    BY <1>1, <1>2 DEF MemoryTyped
  <1>5. Memory' = [Memory EXCEPT ![c] = Memory[p]]
    BY <1>1, <1>4 DEF MemoryTyped
  <1> QED
    BY <1>3, <1>5 DEF P!Fork

\* An mremap that moves: the copy has the contents of Old in their order.
LEMMA MovePrivate ==
    ASSUME IInv, IInv', NEW p \in Procs, NEW Old \in Ranges, NEW k \in Lengths,
           MoveKind(p, Old, k)
    PROVE  P!Move(p)
  <1> DEFINE to == mmap_next[p]
  <1>1. to \in Nat /\ k \in Nat \ {0} /\ VATop \in Nat
    BY LayoutAssumption DEF IInv, TypeOK, Lengths
  <1>2. PICK lo \in VAs, n \in Nat \ {0} :
          Old = lo .. lo + n - 1 /\ lo + n <= VATop /\ Min(Old) = lo /\ Cardinality(Old) = n
    BY RangeShape
  <1>3. Old \in SUBSET VAs /\ lo \in Nat
    BY <1>1, RangeShape DEF VAs
  <1> DEFINE V == to .. (to + n + k) - 1
  <1>4. PICK a : /\ RunningRow(p, a, Old, Moved(p, Old, V, a))
                 /\ FreshPages(a) /\ DOMAIN a = V /\ Old \cap V = {} /\ V \subseteq VAs
                 /\ \A v \in Old : Present(p, v)
    BY <1>2 DEF MoveKind
  <1> DEFINE c == Moved(p, Old, V, a)
  <1>5. P!Changes(p) /\ MemoryShape(p, a, Old, c)
    BY <1>3, <1>4, RowChanges
  <1>6. \A v \in V : c[a[v]] = IF v - to + lo \in Old
                               THEN content[pt[p][v - to + lo].frame] ELSE 0
    <2>1. V \in SUBSET VAs
      BY <1>4
    <2> HIDE DEF V
    <2>2. ContentMoved(p, Old, V, a)
      <3> HIDE DEF to, c
      <3>1. FreshPages(a) /\ DOMAIN a = V /\ \A v \in Old : Present(p, v)
        BY <1>4
      <3> QED
        BY <1>3, <2>1, <3>1, MovedContent
    <2>3. Min(Old) = lo
      BY <1>2
    <2> QED
      BY <2>2, <2>3 DEF ContentMoved
  <1>7. \A v \in Old : Memory[p][v] = content[pt[p][v].frame]
    BY <1>3, <1>4, PresentMemory
  <1> HIDE DEF Memory, c, to
  <1>8. to \in VAs /\ n \in VAs /\ k \in VAs
    <2>1. (to + n + k) - 1 \in V /\ to \in V
      BY <1>1, <1>2
    <2>2. to + n + k <= VATop
      BY <1>1, <1>2, <1>4, <2>1 DEF VAs
    <2> QED
      BY <1>1, <1>2, <2>2 DEF VAs
  <1>9. ASSUME NEW v \in VAs, v \in Old
        PROVE  Memory'[p][v] = Unmapped
    BY <1>4, <1>5, <1>9 DEF MemoryShape
  <1>10. ASSUME NEW v \in VAs, v \in to .. to + n - 1
         PROVE  Memory'[p][v] = Memory[p][lo + (v - to)]
    <2>1. v \in V /\ v - to + lo \in Old /\ v - to + lo = lo + (v - to)
      BY <1>1, <1>2, <1>3, <1>10 DEF VAs
    <2>2. Memory'[p][v] = c[a[v]]
      BY <1>4, <1>5, <2>1 DEF MemoryShape
    <2>3. c[a[v]] = content[pt[p][v - to + lo].frame]
      BY <1>6, <2>1
    <2> QED
      BY <1>7, <2>1, <2>2, <2>3
  <1>11. ASSUME NEW v \in VAs, v \in to + n .. to + n + k - 1
         PROVE  Memory'[p][v] = 0
    <2>1. v \in V /\ v - to + lo \notin Old
      BY <1>1, <1>2, <1>3, <1>11 DEF VAs
    <2>2. Memory'[p][v] = c[a[v]]
      BY <1>4, <1>5, <2>1 DEF MemoryShape
    <2> QED
      BY <1>6, <2>1, <2>2
  <1>12. ASSUME NEW v \in VAs, v \notin Old, v \notin to .. to + n - 1,
                v \notin to + n .. to + n + k - 1
         PROVE  Memory'[p][v] = Memory[p][v]
    <2>1. v \notin V
      BY <1>1, <1>2, <1>12 DEF VAs
    <2> QED
      BY <1>4, <1>5, <1>12, <2>1 DEF MemoryShape
  <1>13. lo .. lo + n - 1 \subseteq VAs
    BY <1>2, <1>3
  <1>14. ASSUME NEW v \in VAs
         PROVE  Memory'[p][v] = P!AfterMove(Memory[p], lo, to, n, k, v)
    <2>1. ~(v \in Old /\ (v \in to .. to + n - 1 \/ v \in to + n .. to + n + k - 1))
      BY <1>1, <1>2, <1>3, <1>4
    <2>2. ~(v \in to .. to + n - 1 /\ v \in to + n .. to + n + k - 1)
      BY <1>1, <1>2, <1>3
    <2>3. v \in Old <=> v \in lo .. lo + n - 1
      BY <1>2
    <2> QED
      BY <1>9, <1>10, <1>11, <1>12, <2>1, <2>2, <2>3 DEF P!AfterMove
  <1> QED
    BY <1>5, <1>8, <1>13, <1>14 DEF P!Move

\* Every kind of step is a step of PrivateMemory, or not seen.
LEMMA StepPrivate ==
    ASSUME IInv, IInv', SomeKind
    PROVE  [P!Next]_(P!vars)
  <1>1. ASSUME NEW p \in Procs, P!Store(p) \/ P!Execve(p) \/ P!Fork(p) \/ P!Reap(p)
        PROVE  P!Next
    BY <1>1 DEF P!Next
  <1>2. ASSUME NEW p \in Procs, P!Map(p) \/ P!Unmap(p) \/ P!Move(p)
        PROVE  P!Next
    BY <1>2 DEF P!Next
  <1>3. CASE Quiet
    BY <1>3, QuietPrivate
  <1>4. CASE \E p \in Procs : MapKind(p) \/ ReapKind(p)
    BY <1>1, <1>2, <1>4, MapPrivate, ReapPrivate
  <1>5. CASE \E p \in Procs, v \in VAs, x \in Values : StoreKind(p, v, x) \/ CopyKind(p, v, x)
    BY <1>1, <1>5, StorePrivate, CopyPrivate
  <1>6. CASE \E p \in Procs, V \in Ranges : UnmapKind(p, V)
    BY <1>2, <1>6, UnmapPrivate
  <1>7. CASE \E p \in Procs, Old \in Ranges, k \in Lengths : MoveKind(p, Old, k)
    BY <1>2, <1>7, MovePrivate
  <1>8. CASE \E p \in Procs, x \in FileValues, y \in FileValues : ExecKind(p, x, y)
    BY <1>1, <1>8, ExecPrivate
  <1>9. CASE \E p, c \in Procs : ForkKind(p, c)
    BY <1>1, <1>9, ForkPrivate
  <1> QED
    BY <1>3, <1>4, <1>5, <1>6, <1>7, <1>8, <1>9 DEF SomeKind

\* The first process has the image of a program.
LEMMA BootPrivate == Init => P!Init
  <1> SUFFICES ASSUME Init
               PROVE  P!Init
    OBVIOUS
  <1>1. PICK p \in Procs, a \in Alloc(Frames, NewVAs), x \in FileValues, y \in FileValues :
        /\ a \in Injection(NewVAs, Frames)
        /\ pstate = [q \in Procs |-> IF q = p THEN "RUNNABLE" ELSE "UNUSED"]
        /\ pt = [q \in Procs |-> IF q = p THEN NewPt(a) ELSE [v \in VAs |-> NoPte]]
        /\ content = [f \in Frames |-> IF f = a[StackTop] THEN y
                                       ELSE IF f \in Range(a) THEN x ELSE Junk]
    BY DEF Init
  <1>2. /\ DOMAIN a = NewVAs /\ \A v \in NewVAs : a[v] \in Frames /\ a[v] # NoFrame
        /\ \A u, v \in NewVAs : a[u] = a[v] => u = v
    BY <1>1, FramesAssumption DEF Injection, IsInjective
  <1>3. \A v \in NewVAs : content[a[v]] = IF v = StackTop THEN y ELSE x
    BY <1>1, <1>2, NewPages DEF Range
  <1>4. NoPte.frame = NoFrame
    BY DEF NoPte
  <1>5. \A q \in Procs, v \in VAs : q # p \/ v \notin NewVAs => pt[q][v].frame = NoFrame
    BY <1>1, <1>4 DEF NewPt
  <1>6. \A v \in VAs : v \in NewVAs => pt[p][v].frame = a[v]
    <2> SUFFICES ASSUME NEW v \in VAs, v \in NewVAs
                 PROVE  pt[p][v].frame = a[v]
      OBVIOUS
    <2>1. pt[p][v] = [frame |-> a[v], cow |-> FALSE]
      BY <1>1 DEF NewPt
    <2> QED
      BY <2>1
  <1>7. MemoryTyped(Memory)
    BY InitStep, MemoryType
  <1>8. \A q \in Procs, v \in VAs : q # p => Memory[q][v] = Unmapped
    BY <1>5, MemoryAt
  <1>9. \A v \in VAs : Memory[p][v] = IF v \in ImageVAs THEN x
                                      ELSE IF v = StackTop THEN y ELSE Unmapped
    <2> SUFFICES ASSUME NEW v \in VAs
                 PROVE  Memory[p][v] = IF v \in ImageVAs THEN x
                                       ELSE IF v = StackTop THEN y ELSE Unmapped
      OBVIOUS
    <2>1. CASE v \in NewVAs
      BY <1>2, <1>3, <1>6, <2>1, MemoryAt, NewPages
    <2>2. CASE v \notin NewVAs
      BY <1>5, <2>2, MemoryAt DEF NewVAs
    <2> QED
      BY <2>1, <2>2
  <1>10. Live = {p}
    BY <1>1 DEF Live
  <1> HIDE DEF Memory
  <1>11. Memory[p] = Image(x, y)
    BY <1>7, <1>9 DEF MemoryTyped, Image
  <1>12. \A q \in Procs : q # p => Memory[q] = P!Empty
    BY <1>7, <1>8 DEF MemoryTyped, P!Empty
  <1>13. Memory = [q \in Procs |-> IF q = p THEN Image(x, y) ELSE P!Empty]
    BY <1>7, <1>11, <1>12 DEF MemoryTyped
  <1> QED
    BY <1>10, <1>13 DEF P!Init

\* Page frames, reference counts and copy-on-write implement a memory of its
\* own for every process: a store is seen by no other process, a page that is
\* handed out reads as zero, and a fork copies.
THEOREM MemoryPrivate == Spec => MemoryIsPrivate
  <1>1. Init => P!Init
    BY BootPrivate
  <1>2. IInv /\ IInv' /\ [Next]_vars => [P!Next]_(P!vars)
    BY StepKinds, StepPrivate
  <1> QED
    BY Inductive, <1>1, <1>2, PTL DEF Spec, MemoryIsPrivate, P!Spec

=============================================================================
