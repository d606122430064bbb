----------------------------- MODULE RamfsProofs -----------------------------
(* The names of ramfs for every number of slots, paths, buckets and            *)
(* descriptors and every hash function: TableOK, and the refinement of         *)
(* Namespace, of programs that do not rename a file to its own name; the       *)
(* constant RemoveOpen says whether they remove files that are open.  What a   *)
(* walk along a chain meets is not inductive as it stands: a chain is shown to *)
(* be a list of slots without repetition, and the walk to go through it.  Then *)
(* the contents of a file, for every page size and number of descriptors:      *)
(* FileKept, as long as no open file is unlinked.                              *)
EXTENDS Ramfs, RamfsFile, FiniteSetTheorems, WellFoundedInduction, TLAPS

-----------------------------------------------------------------------------
(* Chains as lists.                                                            *)

\* The link to the k-th slot of the list s of n slots.
Link(n, s, k) == IF k <= n THEN s[k] + 1 ELSE 0

\* The chain of bucket b is the list s.
IsChain(t, b, n, s) ==
    /\ \A k, l \in 1 .. n : s[k] = s[l] => k = l
    /\ t.hash[b] = Link(n, s, 1)
    /\ \A k \in 1 .. n : t.next[s[k]] = Link(n, s, k + 1)

\* The chain of bucket b is a list of exactly the slots in X.
Listed(t, b, X) ==
    \E n \in Nat : \E s \in [1 .. n -> Slots] :
        IsChain(t, b, n, s) /\ X = {s[k] : k \in 1 .. n}

Table == [hash : [Buckets -> Links], next : [Slots -> Links]]

\* A non-empty set of naturals has a least element.
LEMMA LeastNat ==
    ASSUME NEW X, X \subseteq Nat, X # {}
    PROVE  \E x \in X : \A y \in X : x <= y
<1>1. IsWellFoundedOn(OpToRel(<, Nat), Nat) BY NatLessThanWellFounded
<1>2. PICK x \in X : \A y \in X : ~(<<y, x>> \in OpToRel(<, Nat)) BY <1>1, WFMin
<1>3. ASSUME NEW y \in X PROVE x <= y
  <2>1. ~(y < x) BY <1>2, <1>3 DEF OpToRel
  <2> QED BY <2>1
<1> QED BY <1>3

\* A list without repetition is no longer than the table.
LEMMA ListShort ==
    ASSUME NEW n \in Nat, NEW s \in [1 .. n -> Slots], \A k, l \in 1 .. n : s[k] = s[l] => k = l
    PROVE  n <= MaxFiles
<1>1. s \in Injection(1 .. n, Slots) BY DEF Injection, IsInjective
<1>2. IsFiniteSet(Slots) /\ Cardinality(Slots) = MaxFiles
  BY FS_Interval, MaxFilesAssumption DEF Slots
<1>3. Cardinality(1 .. n) <= MaxFiles BY <1>1, <1>2, FS_Injection
<1>4. Cardinality(1 .. n) = n BY FS_Interval
<1> QED BY <1>3, <1>4

\* A walk along a chain goes through the list.
LEMMA WalkLinks ==
    ASSUME NEW t \in Table, NEW b \in Buckets, NEW n \in Nat, NEW s \in [1 .. n -> Slots],
           IsChain(t, b, n, s)
    PROVE  /\ DOMAIN Walk(t, b) = 0 .. MaxFiles
           /\ \A k \in 0 .. MaxFiles : Walk(t, b)[k] = Link(n, s, k + 1)
<1> DEFINE Step(f, k) == IF k = 0 THEN t.hash[b]
                         ELSE IF f[k - 1] = 0 THEN 0 ELSE t.next[f[k - 1] - 1]
           w == Walk(t, b)
           g == [k \in 0 .. MaxFiles |-> Link(n, s, k + 1)]
<1>1. ASSUME NEW k \in 0 .. MaxFiles PROVE g[k] = Step(g, k)
  <2>1. CASE k = 0 BY <2>1, MaxFilesAssumption DEF IsChain
  <2>2. CASE k # 0
    <3>1. k - 1 \in 0 .. MaxFiles /\ g[k - 1] = Link(n, s, k) /\ g[k] = Link(n, s, k + 1)
      BY <2>2, MaxFilesAssumption
    <3>2. CASE k <= n
      <4>1. k \in 1 .. n /\ s[k] \in 0 .. MaxFiles - 1 BY <2>2, <3>2 DEF Slots
      <4>2. g[k - 1] = s[k] + 1 BY <3>1, <3>2 DEF Link
      <4>3. t.next[s[k]] = Link(n, s, k + 1) BY <4>1 DEF IsChain
      <4>4. g[k - 1] # 0 /\ g[k - 1] - 1 = s[k] BY <4>1, <4>2
      <4>5. Step(g, k) = t.next[g[k - 1] - 1] BY <2>2, <4>4
      <4> QED BY <3>1, <4>3, <4>4, <4>5
    <3>3. CASE ~(k <= n)
      BY <2>2, <3>1, <3>3 DEF Link
    <3> QED BY <3>2, <3>3
  <2> QED BY <2>1, <2>2
<1>2. g = [k \in 0 .. MaxFiles |-> Step(g, k)] BY <1>1
<1>3. \E f : f = [k \in 0 .. MaxFiles |-> Step(f, k)] BY <1>2
<1>4. w = CHOOSE f : f = [k \in 0 .. MaxFiles |-> Step(f, k)] BY DEF Walk
<1> HIDE DEF w
<1>5. w = [k \in 0 .. MaxFiles |-> Step(w, k)] BY <1>3, <1>4
<1> DEFINE Bad == {k \in 0 .. MaxFiles : w[k] # g[k]}
<1>6. Bad = {}
  <2>1. SUFFICES ASSUME Bad # {} PROVE FALSE OBVIOUS
  <2>0. Bad \subseteq Nat BY MaxFilesAssumption
  <2>2. PICK k \in Bad : \A l \in Bad : k <= l
    <3> HIDE DEF Bad
    <3> QED BY <2>0, <2>1, LeastNat
  <2>3. w[k] = Step(w, k) /\ g[k] = Step(g, k) BY <1>1, <1>5, <2>2
  <2>4. CASE k = 0 BY <2>2, <2>3, <2>4
  <2>5. CASE k # 0
    <3>1. k - 1 \in 0 .. MaxFiles /\ k - 1 \notin Bad BY <2>2, <2>5, MaxFilesAssumption
    <3>2. w[k - 1] = g[k - 1] BY <3>1
    <3> HIDE DEF g
    <3> QED BY <2>2, <2>3, <2>5, <3>2
  <2> QED BY <2>4, <2>5
<1>7. DOMAIN w = 0 .. MaxFiles BY <1>5
<1>8. ASSUME NEW k \in 0 .. MaxFiles PROVE w[k] = Link(n, s, k + 1) BY <1>6
<1> QED BY <1>7, <1>8 DEF w

\* What a walk meets is the list, and it comes to its end.
LEMMA ListedMeans ==
    ASSUME NEW t \in Table, NEW b \in Buckets, NEW X, Listed(t, b, X)
    PROVE  OnChain(t, b) = X /\ Ends(t, b) /\ X \subseteq Slots
<1>1. PICK n \in Nat : \E s \in [1 .. n -> Slots] :
                          IsChain(t, b, n, s) /\ X = {s[k] : k \in 1 .. n}
  BY DEF Listed
<1>2. PICK s \in [1 .. n -> Slots] : IsChain(t, b, n, s) /\ X = {s[k] : k \in 1 .. n}
  BY <1>1
<1> DEFINE w == Walk(t, b)
<1>3. n <= MaxFiles BY <1>2, ListShort DEF IsChain
<1>4. DOMAIN w = 0 .. MaxFiles /\ \A k \in 0 .. MaxFiles : w[k] = Link(n, s, k + 1)
  BY <1>2, WalkLinks
<1>5. Ends(t, b) BY <1>3, <1>4, MaxFilesAssumption DEF Ends, Link
<1>6. OnChain(t, b) = {w[k] - 1 : k \in {j \in DOMAIN w : w[j] # 0}} BY DEF OnChain
<1> HIDE DEF w
<1>7. ASSUME NEW k \in 0 .. MaxFiles, w[k] # 0 PROVE w[k] - 1 \in X
  <2>1. k + 1 \in 1 .. n /\ w[k] = s[k + 1] + 1 BY <1>4, <1>7, MaxFilesAssumption DEF Link
  <2>2. s[k + 1] \in 0 .. MaxFiles - 1 BY <2>1 DEF Slots
  <2>3. w[k] - 1 = s[k + 1] BY <2>1, <2>2, MaxFilesAssumption
  <2> QED BY <1>2, <2>1, <2>3
<1>8. ASSUME NEW k \in 1 .. n PROVE \E j \in 0 .. MaxFiles : w[j] # 0 /\ w[j] - 1 = s[k]
  <2>1. k - 1 \in 0 .. MaxFiles /\ s[k] \in 0 .. MaxFiles - 1
    BY <1>3, MaxFilesAssumption DEF Slots
  <2>2. w[k - 1] = s[k] + 1 BY <1>4, <2>1 DEF Link
  <2> QED BY <2>1, <2>2, MaxFilesAssumption
<1>9. OnChain(t, b) = X BY <1>2, <1>4, <1>6, <1>7, <1>8
<1> QED BY <1>2, <1>5, <1>9

\* hash_insert() of a slot that is on no chain puts it on that of its name.
LEMMA InsertListed ==
    ASSUME NEW t \in Table, NEW b \in Buckets, NEW X, Listed(t, b, X),
           NEW p \in Paths, NEW i \in Slots, i \notin X
    PROVE  /\ HashInsert(t, p, i) \in Table
           /\ Listed(HashInsert(t, p, i), b, IF b = NameHash(p) THEN X \cup {i} ELSE X)
<1> DEFINE u == HashInsert(t, p, i)
<1>1. PICK n \in Nat : \E s \in [1 .. n -> Slots] :
                          IsChain(t, b, n, s) /\ X = {s[k] : k \in 1 .. n}
  BY DEF Listed
<1>2. PICK s \in [1 .. n -> Slots] : IsChain(t, b, n, s) /\ X = {s[k] : k \in 1 .. n}
  BY <1>1
<1>3. i + 1 \in Links /\ t.hash[NameHash(p)] \in Links
  BY HashAssumption, MaxFilesAssumption DEF Slots, Links, Table
<1>4. u \in Table
  BY <1>3, HashAssumption DEF HashInsert, Table
<1>5. /\ u.hash = [t.hash EXCEPT ![NameHash(p)] = i + 1]
      /\ u.next = [t.next EXCEPT ![i] = t.hash[NameHash(p)]]
  BY DEF HashInsert
<1>6. t.hash \in [Buckets -> Links] /\ t.next \in [Slots -> Links] BY DEF Table
<1> HIDE DEF u
<1>7. \A k \in 1 .. n : s[k] # i /\ s[k] \in Slots /\ u.next[s[k]] = t.next[s[k]]
  BY <1>2, <1>5, <1>6
<1>8. CASE b # NameHash(p)
  <2>1. IsChain(u, b, n, s) BY <1>2, <1>5, <1>6, <1>7, <1>8 DEF IsChain
  <2> QED BY <1>2, <1>4, <1>8, <2>1 DEF Listed, u
<1>9. CASE b = NameHash(p)
  <2> DEFINE r == [k \in 1 .. n + 1 |-> IF k = 1 THEN i ELSE s[k - 1]]
  <2>1. r \in [1 .. n + 1 -> Slots] BY <1>7
  <2>2. /\ r[1] = i
        /\ \A k \in 2 .. n + 1 : r[k] = s[k - 1] /\ k - 1 \in 1 .. n
    OBVIOUS
  <2>3. \A k \in 1 .. n + 1 : k = 1 \/ k \in 2 .. n + 1 OBVIOUS
  <2>4. \A k \in 1 .. n : k + 1 \in 2 .. n + 1 /\ r[k + 1] = s[k] OBVIOUS
  <2> HIDE DEF r
  <2>5. \A k, l \in 1 .. n + 1 : r[k] = r[l] => k = l
    BY <1>2, <1>7, <2>2, <2>3 DEF IsChain
  <2>6. u.hash[b] = Link(n + 1, r, 1) BY <1>5, <1>6, <1>9, <2>2 DEF Link
  <2>7. ASSUME NEW k \in 1 .. n + 1 PROVE u.next[r[k]] = Link(n + 1, r, k + 1)
    <3>1. CASE k = 1
      <4>1. u.next[r[k]] = Link(n, s, 1) BY <1>2, <1>5, <1>6, <1>9, <2>2, <3>1 DEF IsChain
      <4>2. n # 0 => r[2] = s[1] BY <2>4
      <4> QED BY <3>1, <4>1, <4>2 DEF Link
    <3>2. CASE k \in 2 .. n + 1
      <4>1. u.next[r[k]] = Link(n, s, k) BY <1>2, <1>7, <2>2, <3>2 DEF IsChain
      <4>2. k <= n => r[k + 1] = s[k] BY <2>4, <3>2
      <4> QED BY <3>2, <4>1, <4>2 DEF Link
    <3> QED BY <2>3, <3>1, <3>2
  <2>8. X \cup {i} = {r[k] : k \in 1 .. n + 1}
    <3>1. ASSUME NEW k \in 1 .. n PROVE \E l \in 1 .. n + 1 : r[l] = s[k] BY <2>4
    <3>2. ASSUME NEW k \in 1 .. n + 1 PROVE r[k] \in X \cup {i} BY <1>2, <2>2, <2>3
    <3>3. 1 \in 1 .. n + 1 OBVIOUS
    <3> QED BY <1>2, <2>2, <3>1, <3>2, <3>3
  <2>9. IsChain(u, b, n + 1, r) BY <2>5, <2>6, <2>7 DEF IsChain
  <2>10. n + 1 \in Nat OBVIOUS
  <2>11. Listed(u, b, X \cup {i}) BY <2>1, <2>8, <2>9, <2>10 DEF Listed
  <2> QED BY <1>4, <1>9, <2>11 DEF u
<1> QED BY <1>8, <1>9

\* A slot that is on no chain may have any link (the unlinked one has 0).
LEMMA ClearListed ==
    ASSUME NEW t \in Table, NEW b \in Buckets, NEW X, Listed(t, b, X), NEW i \in Slots, i \notin X
    PROVE  /\ [t EXCEPT !.next[i] = 0] \in Table
           /\ Listed([t EXCEPT !.next[i] = 0], b, X)
<1> DEFINE u == [t EXCEPT !.next[i] = 0]
<1>1. PICK n \in Nat : \E s \in [1 .. n -> Slots] :
                          IsChain(t, b, n, s) /\ X = {s[k] : k \in 1 .. n}
  BY DEF Listed
<1>2. PICK s \in [1 .. n -> Slots] : IsChain(t, b, n, s) /\ X = {s[k] : k \in 1 .. n}
  BY <1>1
<1>3. u \in Table /\ u.hash = t.hash /\ u.next = [t.next EXCEPT ![i] = 0]
  <2> DEFINE v == [t.next EXCEPT ![i] = 0]
  <2>1. v \in [Slots -> Links] BY MaxFilesAssumption DEF Table, Links
  <2>2. u = [t EXCEPT !.next = v] OBVIOUS
  <2> HIDE DEF v
  <2>3. u \in Table /\ u.hash = t.hash /\ u.next = v BY <2>1, <2>2 DEF Table
  <2> QED BY <2>3 DEF v
<1>4. t.next \in [Slots -> Links] BY DEF Table
<1> HIDE DEF u
<1>5. \A k \in 1 .. n : s[k] # i /\ s[k] \in Slots /\ u.next[s[k]] = t.next[s[k]]
  BY <1>2, <1>3, <1>4
<1>6. IsChain(u, b, n, s) BY <1>2, <1>3, <1>5 DEF IsChain
<1> QED BY <1>2, <1>3, <1>6 DEF Listed, u

\* The walk of ramfs_dynamic_unlink() and ramfs_dynamic_rename() takes slot i
\* out of the chain of its name, wherever in it, and leaves the others alone.
LEMMA RemoveListed ==
    ASSUME NEW t \in Table, NEW p \in Paths, NEW X, Listed(t, NameHash(p), X),
           NEW i \in Slots, i \in X,
           NEW b \in Buckets, NEW Y, Listed(t, b, Y), b = NameHash(p) => Y = X,
           b # NameHash(p) => X \cap Y = {}
    PROVE  HashRemove(t, p, i) \in Table /\ Listed(HashRemove(t, p, i), b, Y \ {i})
<1> DEFINE c == NameHash(p)
           u == HashRemove(t, p, i)
           before == {j \in OnChain(t, c) : t.next[j] = i + 1}
<1>0. c \in Buckets BY HashAssumption
<1>1. PICK n \in Nat : \E s \in [1 .. n -> Slots] :
                          IsChain(t, c, n, s) /\ X = {s[k] : k \in 1 .. n}
  BY DEF Listed
<1>2. PICK s \in [1 .. n -> Slots] : IsChain(t, c, n, s) /\ X = {s[k] : k \in 1 .. n}
  BY <1>1
<1>3. PICK m \in 1 .. n : s[m] = i BY <1>2
<1>4. OnChain(t, c) = X BY <1>0, ListedMeans
<1>5. t.hash \in [Buckets -> Links] /\ t.next \in [Slots -> Links] /\ i \in Nat
  BY MaxFilesAssumption DEF Table, Slots
<1>6. t.next[i] = Link(n, s, m + 1) BY <1>2, <1>3 DEF IsChain
<1>7. ASSUME NEW k \in 1 .. n PROVE s[k] \in before <=> k + 1 = m
  <2>1. s[k] \in X /\ t.next[s[k]] = Link(n, s, k + 1) BY <1>2 DEF IsChain
  <2>2. CASE k + 1 <= n
    <3>1. k + 1 \in 1 .. n /\ s[k + 1] \in 0 .. MaxFiles - 1 BY <2>2 DEF Slots
    <3>2. t.next[s[k]] = i + 1 <=> s[k + 1] = i
      BY <1>5, <2>1, <2>2, <3>1, MaxFilesAssumption DEF Link
    <3>3. s[k + 1] = i <=> k + 1 = m BY <1>2, <1>3, <3>1 DEF IsChain
    <3> QED BY <1>4, <2>1, <3>2, <3>3
  <2>3. CASE ~(k + 1 <= n) BY <1>4, <1>5, <2>1, <2>3 DEF Link
  <2> QED BY <2>2, <2>3
<1>8. before \subseteq X BY <1>4
<1>9. m = 1 <=> t.hash[c] = i + 1
  <2>1. t.hash[c] = s[1] + 1 /\ 1 \in 1 .. n /\ s[1] \in 0 .. MaxFiles - 1
    BY <1>2, <1>3 DEF IsChain, Link, Slots
  <2>2. s[1] = i <=> m = 1 BY <1>2, <1>3, <2>1 DEF IsChain
  <2> QED BY <1>5, <2>1, <2>2, MaxFilesAssumption
<1>10. /\ u \in Table
       /\ m = 1 => u.hash = [t.hash EXCEPT ![c] = t.next[i]] /\ u.next = t.next
       /\ m # 1 => /\ u.hash = t.hash
                   /\ u.next = [j \in Slots |-> IF j \in before THEN t.next[i] ELSE t.next[j]]
  <2>1. CASE m = 1
    <3> DEFINE v == [t.hash EXCEPT ![c] = t.next[i]]
    <3>1. v \in [Buckets -> Links] BY <1>5
    <3>2. u = [t EXCEPT !.hash = v] BY <1>9, <2>1 DEF HashRemove
    <3> HIDE DEF v
    <3>3. u \in Table /\ u.hash = v /\ u.next = t.next BY <3>1, <3>2 DEF Table
    <3> QED BY <2>1, <3>3 DEF v
  <2>2. CASE m # 1
    <3> DEFINE v == [j \in Slots |-> IF j \in before THEN t.next[i] ELSE t.next[j]]
    <3>1. v \in [Slots -> Links] BY <1>5
    <3>2. u = [t EXCEPT !.next = v] BY <1>9, <2>2 DEF HashRemove
    <3> HIDE DEF v
    <3>3. u \in Table /\ u.next = v /\ u.hash = t.hash BY <3>1, <3>2 DEF Table
    <3> QED BY <2>2, <3>3 DEF v
  <2> QED BY <2>1, <2>2
<1> HIDE DEF u, before
<1>11. CASE b # c
  <2>1. PICK n2 \in Nat : \E s2 \in [1 .. n2 -> Slots] :
                            IsChain(t, b, n2, s2) /\ Y = {s2[k] : k \in 1 .. n2}
    BY DEF Listed
  <2>2. PICK s2 \in [1 .. n2 -> Slots] : IsChain(t, b, n2, s2) /\ Y = {s2[k] : k \in 1 .. n2}
    BY <2>1
  <2>3. X \cap Y = {} BY <1>11
  <2>4. \A k \in 1 .. n2 : s2[k] \in Slots /\ s2[k] \notin X /\ s2[k] \notin before
    BY <1>8, <2>2, <2>3
  <2>5. u.hash[b] = t.hash[b] BY <1>5, <1>10, <1>11
  <2>6. \A k \in 1 .. n2 : u.next[s2[k]] = t.next[s2[k]] BY <1>10, <2>4
  <2>7. IsChain(u, b, n2, s2) BY <2>2, <2>5, <2>6 DEF IsChain
  <2>8. Y \ {i} = Y BY <2>3
  <2>9. Listed(u, b, Y) BY <2>2, <2>7 DEF Listed
  <2>10. u \in Table BY <1>10
  <2> QED BY <2>8, <2>9, <2>10 DEF u
<1>12. CASE b = c
  <2> DEFINE r == [k \in 1 .. n - 1 |-> IF k < m THEN s[k] ELSE s[k + 1]]
  <2>1. r \in [1 .. n - 1 -> Slots] BY <1>3
  <2>2. ASSUME NEW k \in 1 .. n - 1
        PROVE  /\ k < m => r[k] = s[k] /\ k \in 1 .. n
               /\ ~(k < m) => r[k] = s[k + 1] /\ k + 1 \in 1 .. n
    BY <1>3
  <2> HIDE DEF r
  <2>3. \A k, l \in 1 .. n - 1 : r[k] = r[l] => k = l
    <3>1. ASSUME NEW k \in 1 .. n - 1, NEW l \in 1 .. n - 1, r[k] = r[l] PROVE k = l
      <4> DEFINE kk == IF k < m THEN k ELSE k + 1
                 ll == IF l < m THEN l ELSE l + 1
      <4>1. kk \in 1 .. n /\ ll \in 1 .. n /\ s[kk] = s[ll] BY <2>2, <3>1
      <4>2. kk = ll
        <5> HIDE DEF kk, ll
        <5> QED BY <1>2, <4>1 DEF IsChain
      <4> QED BY <1>3, <4>2
    <3> QED BY <3>1
  <2>4. ASSUME NEW k \in 1 .. n - 1 PROVE r[k] # i
    BY <1>2, <1>3, <2>2 DEF IsChain
  <2>5. u.hash[b] = Link(n - 1, r, 1)
    <3>1. CASE m = 1
      <4>1. u.hash[b] = Link(n, s, 2) BY <1>0, <1>5, <1>6, <1>10, <1>12, <3>1
      <4>2. 1 <= n - 1 => r[1] = s[2] BY <1>3, <2>2, <3>1
      <4> QED BY <1>3, <4>1, <4>2 DEF Link
    <3>2. CASE m # 1
      <4>1. u.hash[b] = Link(n, s, 1) BY <1>2, <1>10, <1>12, <3>2 DEF IsChain
      <4>2. 1 <= n - 1 /\ r[1] = s[1] BY <1>3, <2>2, <3>2
      <4> QED BY <1>3, <4>1, <4>2 DEF Link
    <3> QED BY <3>1, <3>2
  <2>6. ASSUME NEW k \in 1 .. n - 1 PROVE u.next[r[k]] = Link(n - 1, r, k + 1)
    <3>0. k + 1 <= n - 1 => k + 1 \in 1 .. n - 1 OBVIOUS
    <3>1. CASE k + 1 < m
      <4>1. r[k] = s[k] /\ k \in 1 .. n /\ s[k] \notin before /\ s[k] \in Slots
        BY <1>3, <1>7, <2>2, <3>1
      <4>2. u.next[s[k]] = t.next[s[k]] BY <1>10, <4>1
      <4>3. u.next[r[k]] = Link(n, s, k + 1) BY <1>2, <4>1, <4>2 DEF IsChain
      <4>4. k + 1 <= n - 1 /\ r[k + 1] = s[k + 1] BY <1>3, <2>2, <3>0, <3>1
      <4> QED BY <1>3, <3>1, <4>3, <4>4 DEF Link
    <3>2. CASE k + 1 = m
      <4>1. r[k] = s[k] /\ k \in 1 .. n /\ s[k] \in before /\ s[k] \in Slots
        BY <1>3, <1>7, <2>2, <3>2
      <4>2. u.next[r[k]] = Link(n, s, m + 1) BY <1>6, <1>10, <3>2, <4>1
      <4>3. k + 1 <= n - 1 => r[k + 1] = s[m + 1] BY <1>3, <2>2, <3>0, <3>2
      <4> QED BY <1>3, <3>2, <4>2, <4>3 DEF Link
    <3>3. CASE k >= m
      <4>1. /\ r[k] = s[k + 1] /\ k + 1 \in 1 .. n
            /\ s[k + 1] \notin before /\ s[k + 1] \in Slots
        BY <1>3, <1>7, <2>2, <3>3
      <4>2. u.next[s[k + 1]] = t.next[s[k + 1]] BY <1>10, <4>1
      <4>3. u.next[r[k]] = Link(n, s, k + 2) BY <1>2, <4>1, <4>2 DEF IsChain
      <4>4. k + 1 <= n - 1 => r[k + 1] = s[k + 2] BY <1>3, <2>2, <3>0, <3>3
      <4> QED BY <1>3, <3>3, <4>3, <4>4 DEF Link
    <3> QED BY <1>3, <3>1, <3>2, <3>3
  <2>7. X \ {i} = {r[k] : k \in 1 .. n - 1}
    <3>1. ASSUME NEW k \in 1 .. n - 1 PROVE r[k] \in X \ {i} BY <1>2, <2>2, <2>4
    <3>2. ASSUME NEW k \in 1 .. n, s[k] # i PROVE \E l \in 1 .. n - 1 : r[l] = s[k]
      <4>1. CASE k < m
        <5>1. k \in 1 .. n - 1 BY <1>3, <4>1
        <5> QED BY <2>2, <4>1, <5>1
      <4>2. CASE k > m
        <5>1. k - 1 \in 1 .. n - 1 /\ ~(k - 1 < m) /\ (k - 1) + 1 = k BY <1>3, <4>2
        <5> QED BY <2>2, <5>1
      <4>3. k # m BY <1>3, <3>2
      <4> QED BY <1>3, <4>1, <4>2, <4>3
    <3> QED BY <1>2, <3>1, <3>2
  <2>8. IsChain(u, b, n - 1, r) BY <2>3, <2>5, <2>6 DEF IsChain
  <2>9. n - 1 \in Nat BY <1>3
  <2>10. Listed(u, b, X \ {i}) BY <2>1, <2>7, <2>8, <2>9 DEF Listed
  <2> QED BY <1>10, <1>12, <2>10 DEF u
<1> QED BY <1>11, <1>12

-----------------------------------------------------------------------------
(* All chains at once.                                                         *)

\* The chains are lists of the slots that F says, no slot on two of them.
Holds(t, F) ==
    /\ t \in Table
    /\ F \in [Buckets -> SUBSET Slots]
    /\ \A b, c \in Buckets : b # c => F[b] \cap F[c] = {}
    /\ \A b \in Buckets : Listed(t, b, F[b])

\* hash_insert() of a slot that is on no chain.
LEMMA HoldsInsert ==
    ASSUME NEW t, NEW F, Holds(t, F), NEW p \in Paths, NEW i \in Slots,
           \A b \in Buckets : i \notin F[b]
    PROVE  Holds(HashInsert(t, p, i),
                 [b \in Buckets |-> IF b = NameHash(p) THEN F[b] \cup {i} ELSE F[b]])
<1> DEFINE u == HashInsert(t, p, i)
           G == [b \in Buckets |-> IF b = NameHash(p) THEN F[b] \cup {i} ELSE F[b]]
<1>1. t \in Table /\ NameHash(p) \in Buckets BY HashAssumption DEF Holds
<1>2. ASSUME NEW b \in Buckets PROVE u \in Table /\ Listed(u, b, G[b])
  <2>1. Listed(t, b, F[b]) /\ i \notin F[b] BY DEF Holds
  <2>2. u \in Table /\ Listed(u, b, IF b = NameHash(p) THEN F[b] \cup {i} ELSE F[b])
    BY <1>1, <2>1, InsertListed
  <2> QED BY <2>2
<1>3. G \in [Buckets -> SUBSET Slots] BY DEF Holds
<1>4. \A b, c \in Buckets : b # c => G[b] \cap G[c] = {} BY DEF Holds
<1> HIDE DEF u, G
<1>5. Holds(u, G) BY <1>1, <1>2, <1>3, <1>4 DEF Holds
<1> QED BY <1>5 DEF u, G

\* The walk that takes a slot out of its chain.
LEMMA HoldsRemove ==
    ASSUME NEW t, NEW F, Holds(t, F), NEW p \in Paths, NEW i \in F[NameHash(p)]
    PROVE  Holds(HashRemove(t, p, i), [b \in Buckets |-> F[b] \ {i}])
<1> DEFINE u == HashRemove(t, p, i)
           G == [b \in Buckets |-> F[b] \ {i}]
<1>1. t \in Table /\ NameHash(p) \in Buckets /\ i \in Slots BY HashAssumption DEF Holds
<1>2. ASSUME NEW b \in Buckets PROVE u \in Table /\ Listed(u, b, G[b])
  <2>1. /\ Listed(t, NameHash(p), F[NameHash(p)]) /\ Listed(t, b, F[b])
        /\ b # NameHash(p) => F[NameHash(p)] \cap F[b] = {}
    BY <1>1 DEF Holds
  <2>2. u \in Table /\ Listed(u, b, F[b] \ {i}) BY <1>1, <2>1, RemoveListed
  <2> QED BY <2>2
<1>3. G \in [Buckets -> SUBSET Slots] BY DEF Holds
<1>4. \A b, c \in Buckets : b # c => G[b] \cap G[c] = {} BY DEF Holds
<1> HIDE DEF u, G
<1>5. Holds(u, G) BY <1>1, <1>2, <1>3, <1>4 DEF Holds
<1> QED BY <1>5 DEF u, G

\* ramfs_dynamic_unlink() also clears the link of the slot.
LEMMA HoldsUnlink ==
    ASSUME NEW t, NEW F, Holds(t, F), NEW p \in Paths, NEW i \in F[NameHash(p)]
    PROVE  Holds(Unlinked(t, p, i), [b \in Buckets |-> F[b] \ {i}])
<1> DEFINE r == HashRemove(t, p, i)
           G == [b \in Buckets |-> F[b] \ {i}]
           u == [r EXCEPT !.next[i] = 0]
<1>1. Holds(r, G) /\ \A b \in Buckets : i \notin G[b] BY HoldsRemove
<1>2. NameHash(p) \in Buckets /\ i \in Slots BY HashAssumption DEF Holds
<1>3. Unlinked(t, p, i) = u BY DEF Unlinked
<1> HIDE DEF r, G
<1>4. ASSUME NEW b \in Buckets PROVE u \in Table /\ Listed(u, b, G[b])
  <2>1. r \in Table /\ Listed(r, b, G[b]) /\ i \notin G[b] BY <1>1 DEF Holds
  <2> QED BY <1>2, <2>1, ClearListed
<1> HIDE DEF u
<1>5. Holds(u, G) BY <1>1, <1>2, <1>4 DEF Holds
<1> QED BY <1>3, <1>5 DEF G

-----------------------------------------------------------------------------
(* The invariant.                                                              *)

\* The files by the bucket of their name.
Files == [b \in Buckets |-> {i \in Slots : used[i] /\ NameHash(name[i]) = b}]

\* Files have paths, no two the same one, and are below the high water mark.
NamesOK ==
    /\ \A i \in Slots : used[i] => name[i] \in Paths /\ i < high_water
    /\ \A i, j \in Slots : used[i] /\ used[j] /\ name[i] = name[j] => i = j

\* The table, whose chains are lists.
NamesKept ==
    /\ used \in [Slots -> BOOLEAN]
    /\ name \in [Slots -> Paths \cup {NoPath}]
    /\ high_water \in 0 .. MaxFiles
    /\ NamesOK
    /\ Holds(Chains, Files)

\* Descriptors point to slots, in use unless programs remove open files.
FdsOK ==
    /\ fd \in [Handles -> Fd]
    /\ ~RemoveOpen => \A h \in Handles : fd[h].open => used[fd[h].slot]

\* The cache and the directory that is being read.
ReadingOK ==
    /\ DOMAIN cache = {"valid", "dir", "names"} /\ DOMAIN dirfd = {"open", "dir", "pos"}
    /\ cache = [x \in DOMAIN cache |-> cache[x]] /\ dirfd = [x \in DOMAIN dirfd |-> dirfd[x]]
    /\ cache.valid \in BOOLEAN /\ cache.dir \in Dirs \cup {<<>>}
    /\ Len(cache.names) \in Nat /\ Len(cache.names) <= DirCacheEntries
    /\ dirfd.dir \in Dirs \cup {<<>>} /\ dirfd.pos \in Nat

\* What is proved to be inductive.
RamfsInv == NamesKept /\ FdsOK /\ ReadingOK /\ DirCacheFresh

\* A lookup finds exactly the file of that name (ramfs_dynamic_lookup()).
LEMMA FoundIs ==
    ASSUME NamesKept, NEW p \in Paths
    PROVE  /\ \A i \in Slots : Found(p, i) <=> used[i] /\ name[i] = p
           /\ Ends(Chains, NameHash(p))
<1>1. /\ NameHash(p) \in Buckets /\ Chains \in Table
      /\ Listed(Chains, NameHash(p), Files[NameHash(p)])
  BY HashAssumption DEF NamesKept, Holds
<1>2. OnChain(Chains, NameHash(p)) = Files[NameHash(p)] /\ Ends(Chains, NameHash(p))
  BY <1>1, ListedMeans
<1> QED BY <1>1, <1>2 DEF Found, Files

\* The invariant says what the runs check.
LEMMA RamfsInvMeans == ASSUME RamfsInv PROVE TableOK
<1>1. Chains \in Table /\ \A b \in Buckets : Listed(Chains, b, Files[b])
  BY DEF RamfsInv, NamesKept, Holds
<1>2. ChainsExact
  <2>1. ASSUME NEW b \in Buckets PROVE Ends(Chains, b) /\ OnChain(Chains, b) = Files[b]
    BY <1>1, ListedMeans
  <2> QED BY <2>1 DEF ChainsExact, Files
<1>3. hash \in [Buckets -> Links] /\ next \in [Slots -> Links] BY <1>1 DEF Table, Chains
<1>4. TypeOK BY <1>3 DEF RamfsInv, NamesKept, FdsOK, ReadingOK, TypeOK
<1> QED BY <1>2, <1>4 DEF RamfsInv, TableOK

\* The empty file system.
LEMMA RamfsInit == ASSUME Init PROVE RamfsInv
<1>1. NamesKept
  <2>1. used \in [Slots -> BOOLEAN] /\ name \in [Slots -> Paths \cup {NoPath}]
        /\ high_water \in 0 .. MaxFiles /\ \A i \in Slots : ~used[i]
    BY MaxFilesAssumption DEF Init
  <2>2. Chains \in Table BY MaxFilesAssumption DEF Init, Chains, Table, Links
  <2>3. ASSUME NEW b \in Buckets PROVE Listed(Chains, b, {})
    <3> DEFINE s == [k \in 1 .. 0 |-> 0]
    <3>1. s \in [1 .. 0 -> Slots] /\ {} = {s[k] : k \in 1 .. 0} OBVIOUS
    <3>2. Chains.hash[b] = 0 BY DEF Init, Chains
    <3>3. IsChain(Chains, b, 0, s) BY <3>2 DEF IsChain, Link
    <3> QED BY <3>1, <3>3 DEF Listed
  <2>4. Files = [b \in Buckets |-> {}] BY <2>1 DEF Files
  <2>5. Holds(Chains, Files) BY <2>2, <2>3, <2>4 DEF Holds
  <2> QED BY <2>1, <2>5 DEF NamesKept, NamesOK
<1>2. FdsOK
  BY MaxFilesAssumption DEF Init, FdsOK, Fd, ClosedFd, Slots
<1>3. ReadingOK
  BY RoomAssumption DEF Init, ReadingOK, ClosedDir
<1> QED BY <1>1, <1>2, <1>3 DEF RamfsInv, DirCacheFresh, Init

-----------------------------------------------------------------------------
(* The table in each operation.                                                *)

\* The chains after a step that computes them as t.
LEMMA ChainsAre ==
    ASSUME NEW t \in Table, hash' = t.hash, next' = t.next
    PROVE  Chains' = t
BY DEF Chains, Table

\* A slot that ramfs_dynamic_open_or_create() takes for a new file is free.
LEMMA FreeSlotIs ==
    ASSUME NamesKept, NEW i \in Slots, IsFreeSlot(i)
    PROVE  ~used[i] /\ i <= high_water /\ (i = high_water => high_water < MaxFiles)
<1> DEFINE holes == {j \in Slots : j < high_water /\ ~used[j]}
<1>0. i \in Nat /\ high_water \in Nat BY MaxFilesAssumption DEF NamesKept, Slots
<1>1. CASE holes # {}
  <2>1. i < high_water /\ ~used[i] BY <1>1 DEF IsFreeSlot
  <2> QED BY <1>0, <2>1
<1>2. CASE holes = {}
  <2>1. i = high_water /\ high_water < MaxFiles BY <1>2 DEF IsFreeSlot
  <2>2. ~(i < high_water) BY <1>0, <2>1
  <2>3. ~used[i] BY <2>2 DEF NamesKept, NamesOK
  <2> QED BY <1>0, <2>1, <2>3
<1> QED BY <1>1, <1>2

\* ramfs_dynamic_open_or_create(): afterwards slot i holds p, and nothing else
\* has changed; a slot that is taken was free.
LEMMA CreatesKept ==
    ASSUME NamesKept, NEW p \in Paths, NEW i \in Slots, Creates(p, i)
    PROVE  /\ NamesKept'
           /\ used' = [used EXCEPT ![i] = TRUE] /\ name' = [name EXCEPT ![i] = p]
           /\ used[i] => UNCHANGED <<used, name>>
<1>1. CASE Found(p, i) /\ UNCHANGED <<tableVars, cache>>
  <2>1. used[i] /\ name[i] = p BY <1>1, FoundIs
  <2>2. UNCHANGED <<used, name, hash, next, high_water>> BY <1>1 DEF tableVars
  <2>3. NamesKept' BY <2>2 DEF NamesKept, NamesOK, Files, Chains
  <2> QED BY <2>1, <2>2, <2>3 DEF NamesKept
<1>2. CASE /\ Missing(p) /\ IsFreeSlot(i)
           /\ used' = [used EXCEPT ![i] = TRUE]
           /\ name' = [name EXCEPT ![i] = p]
           /\ LET t == HashInsert(Chains, p, i) IN hash' = t.hash /\ next' = t.next
           /\ high_water' = IF i = high_water THEN i + 1 ELSE high_water
           /\ cache' = Invalidate(cache)
  <2> DEFINE t == HashInsert(Chains, p, i)
             G == [b \in Buckets |-> IF b = NameHash(p) THEN Files[b] \cup {i} ELSE Files[b]]
  <2>1. ~used[i] /\ i <= high_water /\ (i = high_water => high_water < MaxFiles)
    BY <1>2, FreeSlotIs
  <2>2. \A j \in Slots : used[j] => name[j] # p BY <1>2, FoundIs DEF Missing
  <2>3. Holds(t, G)
    <3>1. \A b \in Buckets : i \notin Files[b] BY <2>1 DEF Files
    <3> QED BY <3>1, HoldsInsert DEF NamesKept
  <2>4. G = Files'
    <3>1. ASSUME NEW b \in Buckets PROVE G[b] = Files'[b]
      BY <1>2, <2>1 DEF Files, NamesKept
    <3> QED BY <3>1 DEF Files
  <2>5. Chains' = t
    <3>1. t \in Table BY <2>3 DEF Holds
    <3>2. hash' = t.hash /\ next' = t.next BY <1>2
    <3> HIDE DEF t
    <3> QED BY <3>1, <3>2, ChainsAre
  <2> HIDE DEF t, G
  <2>6. Holds(Chains, Files)' BY <2>3, <2>4, <2>5
  <2>7. /\ used' \in [Slots -> BOOLEAN] /\ name' \in [Slots -> Paths \cup {NoPath}]
        /\ high_water' \in 0 .. MaxFiles
    BY <1>2, <2>1, MaxFilesAssumption DEF NamesKept, Slots
  <2>8. NamesOK'
    <3>1. ASSUME NEW j \in Slots, used'[j] PROVE name'[j] \in Paths /\ j < high_water'
      BY <1>2, <2>1, <3>1, MaxFilesAssumption DEF NamesKept, NamesOK, Slots
    <3>2. ASSUME NEW j \in Slots, NEW k \in Slots, used'[j], used'[k], name'[j] = name'[k]
          PROVE  j = k
      BY <1>2, <2>1, <2>2, <3>2 DEF NamesKept, NamesOK
    <3> QED BY <3>1, <3>2 DEF NamesOK
  <2> QED BY <1>2, <2>1, <2>6, <2>7, <2>8 DEF NamesKept
<1> QED BY <1>1, <1>2 DEF Creates

\* ramfs_dynamic_unlink() of the file in slot i.
LEMMA UnlinkKept ==
    ASSUME NamesKept, NEW p \in Paths, NEW i \in Slots, used[i], name[i] = p,
           hash' = Unlinked(Chains, p, i).hash, next' = Unlinked(Chains, p, i).next,
           used' = [used EXCEPT ![i] = FALSE], name' = [name EXCEPT ![i] = NoPath],
           high_water' = high_water
    PROVE  NamesKept'
<1> DEFINE t == Unlinked(Chains, p, i)
           G == [b \in Buckets |-> Files[b] \ {i}]
<1>1. i \in Files[NameHash(p)] BY HashAssumption DEF Files
<1>2. Holds(t, G) BY <1>1, HoldsUnlink DEF NamesKept
<1>3. G = Files'
  <2>1. ASSUME NEW b \in Buckets PROVE G[b] = Files'[b] BY DEF Files, NamesKept
  <2> QED BY <2>1 DEF Files
<1>4. Chains' = t
  <2>1. t \in Table BY <1>2 DEF Holds
  <2> HIDE DEF t
  <2> QED BY <2>1, ChainsAre DEF t
<1> HIDE DEF t, G
<1>5. Holds(Chains, Files)' BY <1>2, <1>3, <1>4
<1>6. used' \in [Slots -> BOOLEAN] /\ name' \in [Slots -> Paths \cup {NoPath}]
  BY DEF NamesKept
<1>7. NamesOK' BY DEF NamesKept, NamesOK
<1> QED BY <1>5, <1>6, <1>7 DEF NamesKept

\* ramfs_dynamic_rename(): what had the new name is unlinked, if it is another
\* file, and slot i moves from one chain to the other, or within one.
LEMMA RenameKept ==
    ASSUME NamesKept, NEW p \in Paths, NEW q \in Paths, p # q,
           NEW i \in Slots, used[i], name[i] = p,
           LET r == Replaced(Chains, q)
               t == HashInsert(HashRemove(r.chains, p, i), q, i)
           IN  /\ hash' = t.hash /\ next' = t.next
               /\ name' = [j \in Slots |-> IF j = i THEN q
                                           ELSE IF j \in r.gone THEN NoPath ELSE name[j]]
               /\ used' = [j \in Slots |-> used[j] /\ j \notin r.gone],
           high_water' = high_water
    PROVE  /\ NamesKept'
           /\ Replaced(Chains, q).gone = {j \in Slots : used[j] /\ name[j] = q}
<1> DEFINE gone == {j \in Slots : Found(q, j)}
           r == Replaced(Chains, q)
           F1 == [b \in Buckets |-> Files[b] \ gone]
           F2 == [b \in Buckets |-> F1[b] \ {i}]
           F3 == [b \in Buckets |-> IF b = NameHash(q) THEN F2[b] \cup {i} ELSE F2[b]]
           t2 == HashRemove(r.chains, p, i)
           t3 == HashInsert(t2, q, i)
<1>1. /\ r.gone = gone
      /\ r.chains = IF gone = {} THEN Chains ELSE Unlinked(Chains, q, CHOOSE j \in gone : TRUE)
  BY DEF Replaced
<1>0. gone = {j \in Slots : used[j] /\ name[j] = q} BY FoundIs
<1> HIDE DEF gone
<1>2. Holds(r.chains, F1)
  <2>1. CASE gone = {}
    <3>1. F1 = Files BY <2>1 DEF Files
    <3>2. r.chains = Chains BY <1>1, <2>1
    <3> QED BY <3>1, <3>2 DEF NamesKept
  <2>2. CASE gone # {}
    <3> DEFINE g == CHOOSE j \in gone : TRUE
    <3>1. g \in gone BY <2>2
    <3>2. gone = {g} BY <1>0, <3>1 DEF NamesKept, NamesOK
    <3>3. r.chains = Unlinked(Chains, q, g) BY <1>1, <2>2
    <3> HIDE DEF g
    <3>4. g \in Files[NameHash(q)] BY <1>0, <3>1, HashAssumption DEF Files
    <3>5. Holds(Unlinked(Chains, q, g), [b \in Buckets |-> Files[b] \ {g}])
      BY <3>4, HoldsUnlink DEF NamesKept
    <3> QED BY <3>2, <3>3, <3>5
  <2> QED BY <2>1, <2>2
<1>3. i \notin gone BY <1>0
<1>4. Holds(t2, F2)
  <2>1. i \in F1[NameHash(p)] BY <1>3, HashAssumption DEF Files
  <2> HIDE DEF F1
  <2> QED BY <1>2, <2>1, HoldsRemove
<1>5. Holds(t3, F3)
  <2>1. \A b \in Buckets : i \notin F2[b] OBVIOUS
  <2> HIDE DEF F2, t2
  <2> QED BY <1>4, <2>1, HoldsInsert
<1>6. hash' = t3.hash /\ next' = t3.next
      /\ name' = [j \in Slots |-> IF j = i THEN q ELSE IF j \in gone THEN NoPath ELSE name[j]]
      /\ used' = [j \in Slots |-> used[j] /\ j \notin gone]
  BY <1>1
<1>7. F3 = Files'
  <2>1. ASSUME NEW b \in Buckets PROVE F3[b] = Files'[b]
    <3>1. F3[b] = IF b = NameHash(q) THEN ((Files[b] \ gone) \ {i}) \cup {i} ELSE (Files[b] \ gone) \ {i}
      OBVIOUS
    <3> HIDE DEF F3
    <3>2. Files'[b] = {j \in Slots : used'[j] /\ NameHash(name'[j]) = b} BY DEF Files
    <3>3. Files[b] = {j \in Slots : used[j] /\ NameHash(name[j]) = b} BY DEF Files
    <3>4. ASSUME NEW j \in Slots
          PROVE  /\ used'[j] <=> used[j] /\ j \notin gone
                 /\ j = i => name'[j] = q
                 /\ j # i /\ j \notin gone => name'[j] = name[j]
      BY <1>6
    <3>5. ASSUME NEW j \in Slots PROVE j \in F3[b] <=> j \in Files'[b]
      BY <1>3, <3>1, <3>2, <3>3, <3>4
    <3>6. F3[b] \subseteq Slots /\ Files'[b] \subseteq Slots BY <3>1, <3>2, <3>3
    <3> QED BY <3>5, <3>6
  <2> QED BY <2>1 DEF Files
<1>8. Chains' = t3
  <2>1. t3 \in Table BY <1>5 DEF Holds
  <2> HIDE DEF t3
  <2> QED BY <1>6, <2>1, ChainsAre
<1> HIDE DEF t3, F3
<1>9. Holds(Chains, Files)' BY <1>5, <1>7, <1>8
<1>10. used' \in [Slots -> BOOLEAN] /\ name' \in [Slots -> Paths \cup {NoPath}]
  BY <1>6 DEF NamesKept
<1>11. NamesOK'
  <2>1. ASSUME NEW j \in Slots, used'[j]
        PROVE  used[j] /\ j \notin gone /\ name'[j] = IF j = i THEN q ELSE name[j]
    BY <1>6, <2>1
  <2>2. ASSUME NEW j \in Slots, used'[j] PROVE name'[j] \in Paths /\ j < high_water'
    BY <2>1, <2>2 DEF NamesKept, NamesOK
  <2>3. ASSUME NEW j \in Slots, used'[j], j # i PROVE name'[j] # q
    BY <1>0, <2>1, <2>3
  <2>4. ASSUME NEW j \in Slots, NEW k \in Slots, used'[j], used'[k], name'[j] = name'[k]
        PROVE  j = k
    BY <2>1, <2>3, <2>4 DEF NamesKept, NamesOK
  <2> QED BY <2>2, <2>4 DEF NamesOK
<1> QED BY <1>0, <1>1, <1>9, <1>10, <1>11 DEF NamesKept

-----------------------------------------------------------------------------
(* The directory cache.                                                        *)

\* ramfs_dir_entry() fills the cache with no more than it takes.
LEMMA ChildrenFit ==
    ASSUME NEW dir
    PROVE  Len(Children(dir)) \in Nat /\ Len(Children(dir)) <= DirCacheEntries
<1> DEFINE n == Cardinality(ChildSlots(dir))
<1>1. IsFiniteSet(Slots) BY FS_Interval, MaxFilesAssumption DEF Slots
<1>2. ChildSlots(dir) \subseteq Slots BY DEF ChildSlots
<1>3. n \in Nat BY <1>1, <1>2, FS_Subset, FS_CardinalityType
<1> HIDE DEF n
<1>4. CacheCount(n) \in Nat /\ CacheCount(n) <= DirCacheEntries
  BY <1>3, RoomAssumption DEF CacheCount
<1> DEFINE m == CacheCount(n)
           s == [k \in 1 .. m |-> ChildName(dir, name[Nth(ChildSlots(dir), k)])]
<1>5. Children(dir) = s BY DEF Children, n
<1> HIDE DEF m
<1>6. Len(s) = m BY <1>4 DEF m
<1> QED BY <1>4, <1>5, <1>6 DEF m

\* A directory's entries come from the table alone.
LEMMA EntriesSame ==
    ASSUME UNCHANGED tableVars, NEW dir, cache'.dir = dir
    PROVE  Children(cache.dir)' = Children(dir)
<1>1. UNCHANGED <<used, name, high_water>> BY DEF tableVars
<1>2. ChildSlots(cache.dir)' = ChildSlots(dir) BY <1>1 DEF ChildSlots, Below, ChildName
<1> QED BY <1>1, <1>2 DEF Children, ChildName

\* The cache stays what it should be.
LEMMA ChildrenSame ==
    ASSUME UNCHANGED tableVars, UNCHANGED cache, DirCacheFresh
    PROVE  DirCacheFresh'
<1>1. Children(cache.dir)' = Children(cache.dir) BY EntriesSame
<1> QED BY <1>1 DEF DirCacheFresh

\* dir_cache_valid = 0 is right whatever has happened to the table.
LEMMA InvalidateKept ==
    ASSUME ReadingOK, cache' = Invalidate(cache), UNCHANGED dirfd
    PROVE  ReadingOK' /\ DirCacheFresh'
<1>1. /\ DOMAIN cache' = DOMAIN cache /\ cache'.valid = FALSE
      /\ cache'.dir = cache.dir /\ cache'.names = cache.names
      /\ cache' = [x \in DOMAIN cache' |-> cache'[x]]
  BY DEF ReadingOK, Invalidate
<1>2. ReadingOK' BY <1>1 DEF ReadingOK
<1> QED BY <1>1, <1>2 DEF DirCacheFresh

\* getdents64, through ramfs_dir_entry().
LEMMA GetdentsKept == ASSUME ReadingOK, DirCacheFresh, Getdents PROVE ReadingOK' /\ DirCacheFresh'
<1> DEFINE n == cache'.names
           last == IF dirfd.pos + Room < Len(n) THEN dirfd.pos + Room ELSE Len(n)
           place == IF last > dirfd.pos THEN last ELSE dirfd.pos
<1>1. UNCHANGED tableVars /\ dirfd' = [dirfd EXCEPT !.pos = place] BY DEF Getdents
<1>2. CASE cache.valid /\ cache.dir = dirfd.dir
  <2>1. cache' = cache BY <1>2 DEF Getdents
  <2>2. place \in Nat BY <2>1, RoomAssumption DEF ReadingOK
  <2> HIDE DEF place
  <2>3. /\ DOMAIN dirfd' = DOMAIN dirfd /\ dirfd'.pos = place /\ dirfd'.dir = dirfd.dir
        /\ dirfd' = [x \in DOMAIN dirfd' |-> dirfd'[x]]
    BY <1>1 DEF ReadingOK
  <2> QED BY <1>1, <2>1, <2>2, <2>3, ChildrenSame DEF ReadingOK
<1>3. CASE ~(cache.valid /\ cache.dir = dirfd.dir)
  <2>1. cache' = [valid |-> TRUE, dir |-> dirfd.dir, names |-> Children(dirfd.dir)]
    BY <1>3 DEF Getdents
  <2>2. /\ cache'.names = Children(dirfd.dir) /\ cache'.dir = dirfd.dir /\ cache'.valid = TRUE
        /\ DOMAIN cache' = {"valid", "dir", "names"} /\ cache' = [x \in DOMAIN cache' |-> cache'[x]]
    BY <2>1
  <2>3. Len(n) \in Nat /\ Len(n) <= DirCacheEntries BY <2>2, ChildrenFit
  <2>4. place \in Nat BY <2>3, RoomAssumption DEF ReadingOK
  <2> HIDE DEF place
  <2>5. /\ DOMAIN dirfd' = DOMAIN dirfd /\ dirfd'.pos = place /\ dirfd'.dir = dirfd.dir
        /\ dirfd' = [x \in DOMAIN dirfd' |-> dirfd'[x]]
    BY <1>1 DEF ReadingOK
  <2>6. ReadingOK' BY <2>2, <2>3, <2>4, <2>5 DEF ReadingOK
  <2>7. DirCacheFresh'
    <3>1. Children(dirfd.dir) = Children(cache.dir)'
      BY <1>1, <2>2, EntriesSame
    <3> QED BY <2>2, <3>1 DEF DirCacheFresh
  <2> QED BY <2>6, <2>7
<1> QED BY <1>2, <1>3

-----------------------------------------------------------------------------
(* The file system as a set of paths.                                          *)

\* The refinement mapping.
Exists == {name[i] : i \in {j \in Slots : Found(name[j], j)}}
Refers == [h \in Handles |-> IF ~fd[h].open THEN Closed
                             ELSE IF used[fd[h].slot] THEN name[fd[h].slot] ELSE Deleted]

UsedNames == {name[i] : i \in {j \in Slots : used[j]}}

\* The paths that have a file are the names of the slots in use.
LEMMA ExistsIs == NamesKept => Exists = UsedNames
<1> SUFFICES ASSUME NamesKept PROVE Exists = UsedNames OBVIOUS
<1>1. ASSUME NEW j \in Slots PROVE Found(name[j], j) <=> used[j]
  BY FoundIs DEF NamesKept, NamesOK, Found
<1> QED BY <1>1 DEF Exists, UsedNames

\* So after a step.
LEMMA ExistsNext == NamesKept' => (Exists = UsedNames)'
BY ExistsIs, PTL

\* A descriptor refers to p exactly if the file in its slot is called p.
LEMMA RefersIs ==
    ASSUME NamesKept, FdsOK, NEW h \in Handles
    PROVE  /\ fd[h] \in Fd /\ fd[h].slot \in Slots
           /\ Refers[h] = Closed <=> ~fd[h].open
           /\ Refers[h] = Deleted <=> fd[h].open /\ ~used[fd[h].slot]
           /\ \A p \in Paths : Refers[h] = p <=> /\ fd[h].open /\ used[fd[h].slot]
                                                /\ name[fd[h].slot] = p
<1>1. fd[h] \in Fd /\ fd[h].slot \in Slots BY DEF FdsOK, Fd
<1>2. used[fd[h].slot] => name[fd[h].slot] \in Paths
  BY <1>1 DEF NamesKept, NamesOK
<1> QED BY <1>1, <1>2, MarksAssumption DEF Refers

-----------------------------------------------------------------------------
(* The steps: the invariant, and the step of Namespace.                        *)

\* The descriptors that are open on slot i, which no file has.
Waiting(i) == {h \in Handles : fd[h].open /\ fd[h].slot = i /\ ~used[i]}

\* ramfs_dynamic_open_or_create() adds p to the paths, and gives the new file to
\* the descriptors of the one that had the slot.
LEMMA CreatesMeans ==
    ASSUME NamesKept, FdsOK, NEW p \in Paths, NEW i \in Slots, Creates(p, i)
    PROVE  /\ Exists' = Exists \cup {p}
           /\ used'[i] /\ name'[i] = p
           /\ \A j \in Slots : used[j] => used'[j] /\ name'[j] = name[j]
           /\ \A j \in Slots : ~used[j] /\ j # i => ~used'[j]
           /\ Waiting(i) \subseteq {h \in Handles : Refers[h] = Deleted}
           /\ Waiting(i) # {} => RemoveOpen /\ p \notin Exists
<1>1. /\ NamesKept' /\ used' = [used EXCEPT ![i] = TRUE] /\ name' = [name EXCEPT ![i] = p]
      /\ used[i] => UNCHANGED <<used, name>>
  BY CreatesKept
<1>2. used \in [Slots -> BOOLEAN] /\ name \in [Slots -> Paths \cup {NoPath}] BY DEF NamesKept
<1>3. Exists = {name[k] : k \in {j \in Slots : used[j]}} BY ExistsIs DEF UsedNames
<1>4. Exists' = {name'[k] : k \in {j \in Slots : used'[j]}}
  <2>1. Exists' = UsedNames' BY <1>1, ExistsNext
  <2> QED BY <2>1 DEF UsedNames
<1>5. ASSUME NEW j \in Slots PROVE used'[j] <=> used[j] \/ j = i BY <1>1, <1>2
<1>6. ASSUME NEW j \in Slots, used[j] PROVE name'[j] = name[j] BY <1>1, <1>2, <1>6
<1>7. name'[i] = p BY <1>1, <1>2
<1>8. Exists' = Exists \cup {p} BY <1>3, <1>4, <1>5, <1>6, <1>7
<1>9. Waiting(i) \subseteq {h \in Handles : Refers[h] = Deleted}
  BY RefersIs DEF Waiting
<1>10. ASSUME Waiting(i) # {} PROVE RemoveOpen /\ p \notin Exists
  <2>1. ~used[i] BY <1>10 DEF Waiting
  <2>2. Missing(p) BY <2>1 DEF Creates, Found
  <2>3. p \notin Exists
    <3>1. ASSUME NEW j \in Slots, used[j] PROVE name[j] # p BY <2>2, <3>1, FoundIs DEF Missing
    <3> QED BY <1>3, <3>1
  <2> QED BY <1>10, <2>3, RemoveOpenAssumption DEF Waiting, FdsOK
<1> QED BY <1>5, <1>6, <1>7, <1>8, <1>9, <1>10

\* The cache after ramfs_dynamic_open_or_create().
LEMMA CreatesReading ==
    ASSUME ReadingOK, DirCacheFresh, NEW p, NEW i, Creates(p, i), UNCHANGED dirfd
    PROVE  ReadingOK' /\ DirCacheFresh'
<1>1. CASE UNCHANGED <<tableVars, cache>> BY <1>1, ChildrenSame DEF ReadingOK
<1>2. CASE cache' = Invalidate(cache) BY <1>2, InvalidateKept
<1> QED BY <1>1, <1>2 DEF Creates

\* utimensat, and openat without a descriptor to give.
LEMMA CreateStep ==
    ASSUME RamfsInv, NEW p \in Paths, Create(p)
    PROVE  /\ RamfsInv' /\ Exists' = Exists \cup {p}
           /\ \E A \in SUBSET {h \in Handles : Refers[h] = Deleted} :
                /\ A # {} => RemoveOpen /\ p \notin Exists
                /\ Refers' = [h \in Handles |-> IF h \in A THEN p ELSE Refers[h]]
<1>1. PICK i \in Slots : Creates(p, i) BY DEF Create
<1>2. UNCHANGED <<fd, dirfd>> BY DEF Create
<1>3. NamesKept' /\ NamesKept /\ FdsOK BY <1>1, CreatesKept DEF RamfsInv
<1>4. /\ Exists' = Exists \cup {p}
      /\ used'[i] /\ name'[i] = p
      /\ \A j \in Slots : used[j] => used'[j] /\ name'[j] = name[j]
      /\ \A j \in Slots : ~used[j] /\ j # i => ~used'[j]
      /\ Waiting(i) \subseteq {h \in Handles : Refers[h] = Deleted}
      /\ Waiting(i) # {} => RemoveOpen /\ p \notin Exists
  BY <1>1, <1>3, CreatesMeans
<1>5. \A h \in Handles : fd[h].slot \in Slots BY <1>3 DEF FdsOK, Fd
<1>6. FdsOK' BY <1>2, <1>3, <1>4, <1>5 DEF FdsOK
<1>7. ReadingOK' /\ DirCacheFresh' BY <1>1, <1>2, CreatesReading DEF RamfsInv
<1>8. Refers' = [h \in Handles |-> IF h \in Waiting(i) THEN p ELSE Refers[h]]
  <2>1. ASSUME NEW h \in Handles
        PROVE  Refers'[h] = IF h \in Waiting(i) THEN p ELSE Refers[h]
    BY <1>2, <1>4, <1>5 DEF Refers, Waiting
  <2> QED BY <2>1 DEF Refers
<1> QED BY <1>3, <1>4, <1>6, <1>7, <1>8 DEF RamfsInv

\* openat: the descriptor refers to the file, and so do those of a file that had
\* the slot before and is gone.
LEMMA OpenStep ==
    ASSUME RamfsInv, NEW p \in Paths, NEW h \in Handles, Open(h, p)
    PROVE  /\ RamfsInv' /\ Refers[h] = Closed /\ Exists' = Exists \cup {p}
           /\ \E A \in SUBSET {g \in Handles : Refers[g] = Deleted} :
                /\ A # {} => RemoveOpen /\ p \notin Exists
                /\ Refers' = [[g \in Handles |-> IF g \in A THEN p ELSE Refers[g]] EXCEPT ![h] = p]
<1>1. PICK i \in Slots : /\ Creates(p, i)
                         /\ fd' = [fd EXCEPT ![h] = [open |-> TRUE, slot |-> i]]
  BY DEF Open
<1>2. UNCHANGED dirfd /\ ~fd[h].open BY DEF Open
<1>3. NamesKept' /\ NamesKept /\ FdsOK BY <1>1, CreatesKept DEF RamfsInv
<1>4. /\ Exists' = Exists \cup {p}
      /\ used'[i] /\ name'[i] = p
      /\ \A j \in Slots : used[j] => used'[j] /\ name'[j] = name[j]
      /\ \A j \in Slots : ~used[j] /\ j # i => ~used'[j]
      /\ Waiting(i) \subseteq {g \in Handles : Refers[g] = Deleted}
      /\ Waiting(i) # {} => RemoveOpen /\ p \notin Exists
  BY <1>1, <1>3, CreatesMeans
<1>5. \A g \in Handles : fd[g].slot \in Slots BY <1>3 DEF FdsOK, Fd
<1>6. /\ fd'[h] = [open |-> TRUE, slot |-> i]
      /\ \A g \in Handles : g # h => fd'[g] = fd[g]
      /\ fd' \in [Handles -> Fd]
  BY <1>1, <1>3 DEF FdsOK, Fd
<1>7. FdsOK' BY <1>3, <1>4, <1>5, <1>6 DEF FdsOK
<1>8. ReadingOK' /\ DirCacheFresh' BY <1>1, <1>2, CreatesReading DEF RamfsInv
<1>9. Refers' = [[g \in Handles |-> IF g \in Waiting(i) THEN p ELSE Refers[g]] EXCEPT ![h] = p]
  <2>1. Refers'[h] = p BY <1>4, <1>6 DEF Refers
  <2>2. ASSUME NEW g \in Handles, g # h
        PROVE  Refers'[g] = IF g \in Waiting(i) THEN p ELSE Refers[g]
    BY <1>4, <1>5, <1>6, <2>2 DEF Refers, Waiting
  <2> QED BY <2>1, <2>2 DEF Refers
<1>10. Refers[h] = Closed BY <1>2 DEF Refers
<1> QED BY <1>3, <1>4, <1>7, <1>8, <1>9, <1>10 DEF RamfsInv

\* close.
LEMMA CloseStep ==
    ASSUME RamfsInv, NEW h \in Handles, Close(h)
    PROVE  RamfsInv' /\ Exists' = Exists /\ Refers' = [Refers EXCEPT ![h] = Closed]
<1>1. UNCHANGED <<used, name, hash, next, high_water, cache, dirfd>> BY DEF Close, tableVars
<1>2. /\ fd'[h] = ClosedFd
      /\ \A g \in Handles : g # h => fd'[g] = fd[g]
      /\ fd' \in [Handles -> Fd]
  BY MaxFilesAssumption DEF Close, RamfsInv, FdsOK, Fd, ClosedFd, Slots
<1>3. NamesKept' BY <1>1 DEF RamfsInv, NamesKept, NamesOK, Files, Chains
<1>4. FdsOK' BY <1>1, <1>2 DEF RamfsInv, FdsOK, ClosedFd
<1>5. ReadingOK' /\ DirCacheFresh' BY <1>1, ChildrenSame DEF RamfsInv, ReadingOK, tableVars
<1>6. Exists' = Exists BY <1>1 DEF Exists, Found, Chains, OnChain, Walk
<1>7. Refers' = [Refers EXCEPT ![h] = Closed]
  <2>1. Refers'[h] = Closed BY <1>2 DEF Refers, ClosedFd
  <2>2. ASSUME NEW g \in Handles, g # h PROVE Refers'[g] = Refers[g]
    BY <1>1, <1>2, <2>2 DEF Refers
  <2> QED BY <2>1, <2>2 DEF Refers
<1> QED BY <1>3, <1>4, <1>5, <1>6, <1>7 DEF RamfsInv

\* unlink.
LEMMA UnlinkStep ==
    ASSUME RamfsInv, NEW p \in Paths, Unlink(p)
    PROVE  /\ RamfsInv' /\ Exists' = Exists \ {p}
           /\ Refers' = [h \in Handles |-> IF Refers[h] = p THEN Deleted ELSE Refers[h]]
<1>1. PICK i \in Slots :
        /\ Found(p, i) /\ MayGo(i)
        /\ LET t == Unlinked(Chains, p, i) IN hash' = t.hash /\ next' = t.next
        /\ used' = [used EXCEPT ![i] = FALSE]
        /\ cache' = Invalidate(cache)
        /\ name' = [name EXCEPT ![i] = NoPath]
        /\ UNCHANGED <<high_water, fd, dirfd>>
  BY DEF Unlink
<1>2. used[i] /\ name[i] = p /\ NamesKept BY <1>1, FoundIs DEF RamfsInv
<1>3. NamesKept' BY <1>1, <1>2, UnlinkKept
<1>4. used \in [Slots -> BOOLEAN] /\ name \in [Slots -> Paths \cup {NoPath}]
  BY <1>2 DEF NamesKept
<1>5. ASSUME NEW j \in Slots
      PROVE  (used'[j] <=> used[j] /\ j # i) /\ (j # i => name'[j] = name[j])
  BY <1>1, <1>4
<1>6. FdsOK'
  <2>1. fd' = fd /\ FdsOK /\ MayGo(i) BY <1>1 DEF RamfsInv
  <2>2. \A h \in Handles : fd[h].slot \in Slots BY <2>1 DEF FdsOK, Fd
  <2> QED BY <1>5, <2>1, <2>2 DEF FdsOK, MayGo
<1>7. ReadingOK' /\ DirCacheFresh' BY <1>1, InvalidateKept DEF RamfsInv
<1>8. Exists' = Exists \ {p}
  <2>1. Exists = {name[k] : k \in {j \in Slots : used[j]}} BY <1>2, ExistsIs DEF UsedNames
  <2>2. Exists' = {name'[k] : k \in {j \in Slots : used'[j]}}
    <3>1. Exists' = UsedNames' BY <1>3, ExistsNext
    <3> QED BY <3>1 DEF UsedNames
  <2>3. \A j \in Slots : used[j] /\ name[j] = p => j = i BY <1>2 DEF NamesKept, NamesOK
  <2> QED BY <1>2, <1>5, <2>1, <2>2, <2>3
<1>9. Refers' = [h \in Handles |-> IF Refers[h] = p THEN Deleted ELSE Refers[h]]
  <2>1. ASSUME NEW h \in Handles
        PROVE  Refers'[h] = IF Refers[h] = p THEN Deleted ELSE Refers[h]
    <3>1. /\ fd[h].slot \in Slots
          /\ Refers[h] = p <=> fd[h].open /\ used[fd[h].slot] /\ name[fd[h].slot] = p
      BY <1>2, RefersIs DEF RamfsInv
    <3>2. used[fd[h].slot] => (name[fd[h].slot] = p <=> fd[h].slot = i)
      BY <1>2, <3>1 DEF NamesKept, NamesOK
    <3>3. fd' = fd BY <1>1
    <3> QED BY <1>2, <1>5, <3>1, <3>2, <3>3 DEF Refers
  <2> QED BY <2>1 DEF Refers
<1> QED BY <1>3, <1>6, <1>7, <1>8, <1>9 DEF RamfsInv

\* rename, of a file to another name.
LEMMA RenameStep ==
    ASSUME ~SelfRename, RamfsInv, NEW p \in Paths, NEW q \in Paths, Rename(p, q)
    PROVE  /\ RamfsInv' /\ p # q /\ p \in Exists /\ Exists' = (Exists \ {p}) \cup {q}
           /\ Refers' = [h \in Handles |-> IF Refers[h] = p THEN q
                                            ELSE IF Refers[h] = q THEN Deleted ELSE Refers[h]]
<1> DEFINE r == Replaced(Chains, q)
           gone == {j \in Slots : used[j] /\ name[j] = q}
<1>1. p # q BY DEF Rename
<1>2. PICK i \in Slots :
        /\ Found(p, i) /\ \A j \in r.gone : MayGo(j)
        /\ LET t == HashInsert(HashRemove(r.chains, p, i), q, i)
           IN  hash' = t.hash /\ next' = t.next
        /\ name' = [j \in Slots |-> IF j = i THEN q
                                    ELSE IF j \in r.gone THEN NoPath ELSE name[j]]
        /\ used' = [j \in Slots |-> used[j] /\ j \notin r.gone]
  BY DEF Rename
<1>3. cache' = Invalidate(cache) /\ UNCHANGED <<high_water, fd, dirfd>> BY DEF Rename
<1>4. used[i] /\ name[i] = p /\ NamesKept BY <1>2, FoundIs DEF RamfsInv
<1>5. NamesKept' /\ r.gone = gone BY <1>1, <1>2, <1>3, <1>4, RenameKept
<1> HIDE DEF r
<1>6. i \notin gone BY <1>1, <1>4
<1>7. ASSUME NEW j \in Slots
      PROVE  /\ used'[j] <=> used[j] /\ j \notin gone
             /\ j = i => name'[j] = q
             /\ j # i /\ j \notin gone => name'[j] = name[j]
  BY <1>2, <1>5
<1>8. FdsOK'
  <2>1. fd' = fd /\ FdsOK /\ \A j \in gone : MayGo(j) BY <1>2, <1>3, <1>5 DEF RamfsInv
  <2> HIDE DEF gone
  <2>2. \A h \in Handles : fd[h].slot \in Slots BY <2>1 DEF FdsOK, Fd
  <2> QED BY <1>7, <2>1, <2>2 DEF FdsOK, MayGo
<1>9. ReadingOK' /\ DirCacheFresh' BY <1>3, InvalidateKept DEF RamfsInv
<1>10. Exists = {name[k] : k \in {j \in Slots : used[j]}} BY <1>4, ExistsIs DEF UsedNames
<1>11. Exists' = (Exists \ {p}) \cup {q}
  <2>1. Exists' = {name'[k] : k \in {j \in Slots : used'[j]}}
    <3>1. Exists' = UsedNames' BY <1>5, ExistsNext
    <3> QED BY <3>1 DEF UsedNames
  <2>2. \A j \in Slots : used[j] /\ name[j] = p => j = i BY <1>4 DEF NamesKept, NamesOK
  <2> QED BY <1>1, <1>4, <1>6, <1>7, <1>10, <2>1, <2>2
<1>12. Refers' = [h \in Handles |-> IF Refers[h] = p THEN q
                                    ELSE IF Refers[h] = q THEN Deleted ELSE Refers[h]]
  <2>1. ASSUME NEW h \in Handles
        PROVE  Refers'[h] = IF Refers[h] = p THEN q
                            ELSE IF Refers[h] = q THEN Deleted ELSE Refers[h]
    <3>1. /\ fd[h].slot \in Slots
          /\ Refers[h] = p <=> fd[h].open /\ used[fd[h].slot] /\ name[fd[h].slot] = p
          /\ Refers[h] = q <=> fd[h].open /\ used[fd[h].slot] /\ name[fd[h].slot] = q
      BY <1>4, RefersIs DEF RamfsInv
    <3>2. used[fd[h].slot] => /\ name[fd[h].slot] = p <=> fd[h].slot = i
                              /\ name[fd[h].slot] = q <=> fd[h].slot \in gone
      BY <1>4, <3>1 DEF NamesKept, NamesOK
    <3>3. fd' = fd BY <1>3
    <3>4. fd[h].slot \in gone => used[fd[h].slot] OBVIOUS
    <3>5. /\ used'[fd[h].slot] <=> used[fd[h].slot] /\ fd[h].slot \notin gone
          /\ fd[h].slot = i => name'[fd[h].slot] = q
          /\ fd[h].slot # i /\ fd[h].slot \notin gone => name'[fd[h].slot] = name[fd[h].slot]
      BY <1>7, <3>1
    <3> HIDE DEF gone
    <3> QED BY <1>1, <1>4, <1>6, <3>1, <3>2, <3>3, <3>4, <3>5 DEF Refers
  <2> QED BY <2>1 DEF Refers
<1>13. p \in Exists BY <1>4, <1>10
<1> QED BY <1>1, <1>5, <1>8, <1>9, <1>11, <1>12, <1>13 DEF RamfsInv

\* opendir, getdents64 and closedir change no name and no descriptor.
LEMMA DirStep ==
    ASSUME RamfsInv, (\E dir \in Dirs : OpenDir(dir)) \/ Getdents \/ CloseDir \/ UNCHANGED vars
    PROVE  RamfsInv' /\ Exists' = Exists /\ Refers' = Refers
<1>1. UNCHANGED <<used, name, hash, next, high_water, fd>>
  BY DEF OpenDir, Getdents, CloseDir, vars, tableVars
<1>2. NamesKept' BY <1>1 DEF RamfsInv, NamesKept, NamesOK, Files, Chains
<1>3. FdsOK' BY <1>1 DEF RamfsInv, FdsOK
<1>4. Exists' = Exists /\ Refers' = Refers
  BY <1>1 DEF Exists, Refers, Found, Chains, OnChain, Walk
<1>5. ReadingOK' /\ DirCacheFresh'
  <2>1. CASE \E dir \in Dirs : OpenDir(dir)
    <3>1. PICK dir \in Dirs : OpenDir(dir) BY <2>1
    <3>2. UNCHANGED <<tableVars, cache>> /\ dirfd' = [open |-> TRUE, dir |-> dir, pos |-> 0]
      BY <3>1 DEF OpenDir
    <3> QED BY <3>2, ChildrenSame DEF RamfsInv, ReadingOK
  <2>2. CASE Getdents BY <2>2, GetdentsKept DEF RamfsInv
  <2>3. CASE CloseDir
    <3>1. UNCHANGED <<tableVars, cache>> /\ dirfd' = ClosedDir BY <2>3 DEF CloseDir
    <3> QED BY <3>1, ChildrenSame DEF RamfsInv, ReadingOK, ClosedDir
  <2>4. CASE UNCHANGED vars
    <3>1. UNCHANGED <<tableVars, cache, dirfd>> BY <2>4 DEF vars
    <3> QED BY <3>1, ChildrenSame DEF RamfsInv, ReadingOK
  <2> QED BY <2>1, <2>2, <2>3, <2>4
<1> QED BY <1>2, <1>3, <1>4, <1>5 DEF RamfsInv

\* Every step keeps the invariant and is a step of Namespace.
LEMMA RamfsStep ==
    ASSUME ~SelfRename, RamfsInv, [Next]_vars
    PROVE  RamfsInv' /\ [FS!Next]_(FS!vars)
<1> DEFINE E == Exists
           R == Refers
<1>0. /\ FS!vars = <<E, R>>
      /\ FS!vars' = <<E', R'>>
  BY DEF FS!vars, Exists, Refers
<1>1. ASSUME NEW p \in Paths, Create(p) PROVE RamfsInv' /\ FS!Create(p)
  BY <1>1, CreateStep DEF FS!Create, FS!Adoptions, FS!Adopted, Exists, Refers
<1>2. ASSUME NEW p \in Paths, NEW h \in Handles, Open(h, p) PROVE RamfsInv' /\ FS!Open(h, p)
  <2>1. /\ RamfsInv' /\ R[h] = Closed /\ E' = E \cup {p}
        /\ \E A \in SUBSET {g \in Handles : R[g] = Deleted} :
             /\ A # {} => RemoveOpen /\ p \notin E
             /\ R' = [[g \in Handles |-> IF g \in A THEN p ELSE R[g]] EXCEPT ![h] = p]
    BY <1>2, OpenStep
  <2>2. FS!Open(h, p) <=>
          /\ R[h] = Closed /\ E' = E \cup {p}
          /\ \E A \in {B \in SUBSET {g \in Handles : R[g] = Deleted} : B # {} => RemoveOpen /\ p \notin E} :
               R' = [[g \in Handles |-> IF g \in A THEN p ELSE R[g]] EXCEPT ![h] = p]
    BY DEF FS!Open, FS!Adoptions, FS!Adopted, Exists, Refers
  <2> HIDE DEF E, R
  <2> QED BY <2>1, <2>2
<1>3. ASSUME NEW p \in Paths, Unlink(p) PROVE RamfsInv' /\ FS!Unlink(p)
  BY <1>3, UnlinkStep DEF FS!Unlink, FS!Orphaned, Exists, Refers
<1>4. ASSUME NEW p \in Paths, NEW q \in Paths, Rename(p, q) PROVE RamfsInv' /\ FS!Rename(p, q)
  BY <1>4, RenameStep DEF FS!Rename, FS!Orphaned, Exists, Refers
<1>5. ASSUME NEW h \in Handles, Close(h) PROVE RamfsInv' /\ FS!Close(h)
  BY <1>5, CloseStep DEF FS!Close, Exists, Refers
<1>6. ASSUME (\E dir \in Dirs : OpenDir(dir)) \/ Getdents \/ CloseDir \/ UNCHANGED vars
      PROVE  RamfsInv' /\ UNCHANGED FS!vars
  BY <1>0, <1>6, DirStep
<1> QED BY <1>1, <1>2, <1>3, <1>4, <1>5, <1>6 DEF Next, FS!Next

-----------------------------------------------------------------------------
(* The theorems.                                                               *)

\* As long as no file is renamed to its own name, every file is on the chain of
\* its name and every chain ends, and the directory cache is what the directory
\* holds, for every table, every hash function and every sequence of system
\* calls (hash_insert(), ramfs_dynamic_unlink(), ramfs_dynamic_rename(),
\* ramfs_dir_entry()).
THEOREM TableSafe == ~SelfRename => (Spec => []TableOK)
<1> SUFFICES ASSUME ~SelfRename PROVE Spec => []TableOK OBVIOUS
<1>1. Init => RamfsInv BY RamfsInit
<1>2. RamfsInv /\ [Next]_vars => RamfsInv' BY RamfsStep
<1>3. RamfsInv => TableOK BY RamfsInvMeans
<1> QED BY <1>1, <1>2, <1>3, PTL DEF Spec

\* Slots, chains and descriptors implement a set of paths with descriptors that
\* stay with their file, through every rename and reuse of slots, if programs
\* remove no file that is open; if they do, a descriptor whose file is gone may
\* come to have a later file open, and no other descriptor may
\* (ramfs_dynamic_open_or_create(), ramfs_dynamic_unlink(),
\* ramfs_dynamic_rename()).
THEOREM NamespaceImplemented == ~SelfRename => (Spec => IsNamespace)
<1> SUFFICES ASSUME ~SelfRename PROVE Spec => IsNamespace OBVIOUS
<1>1. Init => RamfsInv BY RamfsInit
<1>2. RamfsInv /\ [Next]_vars => RamfsInv' /\ [FS!Next]_(FS!vars) BY RamfsStep
<1>3. Init => FS!Init
  <2>1. ASSUME Init PROVE Exists = {} /\ Refers = [h \in Handles |-> Closed]
    BY <2>1 DEF Init, Exists, Found, Refers, ClosedFd
  <2> QED BY <2>1 DEF FS!Init, Exists, Refers
<1> QED BY <1>1, <1>2, <1>3, PTL DEF Spec, IsNamespace, FS!Spec

-----------------------------------------------------------------------------
(* THE CONTENTS OF A FILE.                                                     *)

\* What has not been written beyond a page is the initrd's, or there is a buffer
\* that holds the file; a file that is gone has no buffer and no descriptor.
BufferOK ==
    /\ data \in Seq(Bytes \cup {Junk})
    /\ size <= Len(data)
    /\ capacity > 0 => Len(data) = capacity
    /\ capacity = 0 => size <= PageSize
GoneOK == ~in_use => size = 0 /\ capacity = 0 /\ \A d \in Fds : ~IsOpen(d)
FileInv == FileTypeOK /\ PagesOwned /\ BufferOK /\ GoneOK

\* What initrd files are so short that the first write makes room for them.
SmallInitrd == \A c \in Initrd : Len(c) <= PageSize

\* The rounds of the loop: the capacities are a sequence that doubles.
LEMMA DoubledRounds ==
    ASSUME NEW first \in Nat \ {0}, NEW n \in Nat
    PROVE  /\ Doubled(first, n) \in [0 .. n -> Nat \ {0}]
           /\ Doubled(first, n)[0] = first
           /\ \A k \in 1 .. n : Doubled(first, n)[k] = 2 * Doubled(first, n)[k - 1]
<1> DEFINE Step(f, k) == IF k = 0 THEN first ELSE 2 * f[k - 1]
           Rounds(f, m) == /\ f \in [0 .. m -> Nat \ {0}]
                           /\ \A k \in 0 .. m : f[k] = Step(f, k)
           Bad == {m \in Nat : ~ \E f : Rounds(f, m)}
<1>1. Bad = {}
  <2> SUFFICES ASSUME Bad # {} PROVE FALSE OBVIOUS
  <2>1. PICK m \in Bad : \A l \in Bad : m <= l
    <3>1. Bad \subseteq Nat OBVIOUS
    <3> HIDE DEF Bad
    <3> QED BY <3>1, LeastNat
  <2>2. CASE m = 0
    <3>1. Rounds([k \in 0 .. 0 |-> first], 0) OBVIOUS
    <3> QED BY <2>1, <2>2, <3>1
  <2>3. CASE m # 0
    <3>0. m - 1 \in Nat /\ ~(m <= m - 1) BY <2>1, <2>3
    <3>1. m - 1 \in Nat /\ m - 1 \notin Bad
      <4> HIDE DEF Bad
      <4> QED BY <2>1, <3>0
    <3>2. PICK f : Rounds(f, m - 1) BY <3>1
    <3> DEFINE g == [k \in 0 .. m |-> IF k = m THEN 2 * f[m - 1] ELSE f[k]]
    <3>3. f[m - 1] \in Nat \ {0} BY <3>1, <3>2
    <3>4. ASSUME NEW k \in 0 .. m PROVE g[k] \in Nat \ {0} /\ g[k] = Step(g, k)
      <4>1. CASE k = m BY <2>3, <3>1, <3>3, <4>1
      <4>2. CASE k # m
        <5>1. k \in 0 .. m - 1 /\ g[k] = f[k] BY <3>1, <4>2
        <5>2. k # 0 => k - 1 \in 0 .. m - 1 /\ g[k - 1] = f[k - 1] BY <3>1, <5>1
        <5> QED BY <3>2, <5>1, <5>2
      <4> QED BY <4>1, <4>2
    <3>5. g \in [0 .. m -> Nat \ {0}]
      <4> HIDE DEF Step
      <4>1. \A k \in 0 .. m : g[k] \in Nat \ {0} BY <3>4
      <4> QED BY <4>1
    <3>6. Rounds(g, m)
      <4> HIDE DEF g
      <4> QED BY <3>4, <3>5
    <3> HIDE DEF Rounds
    <3> QED BY <2>1, <3>6
  <2> QED BY <2>2, <2>3
<1>2. PICK f : Rounds(f, n) BY <1>1
<1>3. f = [k \in 0 .. n |-> Step(f, k)] BY <1>2
<1>4. Doubled(first, n) = CHOOSE h : h = [k \in 0 .. n |-> Step(h, k)] BY DEF Doubled
<1> DEFINE h == Doubled(first, n)
<1> HIDE DEF h
<1>5. h = [k \in 0 .. n |-> Step(h, k)] BY <1>3, <1>4 DEF h
<1> DEFINE Odd == {k \in 0 .. n : h[k] \notin Nat \ {0}}
<1>6. Odd = {}
  <2> SUFFICES ASSUME Odd # {} PROVE FALSE OBVIOUS
  <2>1. PICK k \in Odd : \A l \in Odd : k <= l
    <3>1. Odd \subseteq Nat OBVIOUS
    <3> HIDE DEF Odd
    <3> QED BY <3>1, LeastNat
  <2>2. h[k] = Step(h, k) BY <1>5, <2>1
  <2>3. CASE k = 0 BY <2>1, <2>2, <2>3
  <2>4. CASE k # 0
    <3>1. k - 1 \in 0 .. n /\ k - 1 \notin Odd BY <2>1, <2>4
    <3>2. h[k - 1] \in Nat \ {0} BY <3>1
    <3> QED BY <2>1, <2>2, <2>4, <3>2
  <2> QED BY <2>3, <2>4
<1>7. ASSUME NEW k \in 0 .. n PROVE h[k] = Step(h, k) BY <1>5
<1>8. h \in [0 .. n -> Nat \ {0}]
  <2>1. DOMAIN h = 0 .. n BY <1>5
  <2>2. h = [k \in 0 .. n |-> h[k]] BY <1>5
  <2>3. \A k \in 0 .. n : h[k] \in Nat \ {0} BY <1>6
  <2> HIDE DEF Odd
  <2> QED BY <2>2, <2>3
<1> QED BY <1>7, <1>8 DEF h

\* Twice a multiple is a multiple.
LEMMA TwiceMultiple ==
    ASSUME NEW a \in Nat, NEW b \in Nat \ {0}, a % b = 0
    PROVE  (2 * a) % b = 0
<1> DEFINE q == a \div b
<1>1. q \in Int /\ a = b * q OBVIOUS
<1> HIDE DEF q
<1>2. 2 * a = b * (2 * q) BY <1>1
<1>3. 2 * q \in Int BY <1>1
<1>4. (b * (2 * q)) % b = 0 BY <1>3
<1> QED BY <1>2, <1>4

\* A capacity that has been doubled often enough is found; it is a number of
\* whole pages.
LEMMA CapacityGrows ==
    ASSUME NEW needed \in Nat, capacity \in Nat, capacity % PageSize = 0
    PROVE  /\ NewCapacity(needed) \in Nat \ {0}
           /\ NewCapacity(needed) >= needed
           /\ NewCapacity(needed) % PageSize = 0
           /\ capacity = 0 => NewCapacity(needed) >= PageSize
<1> DEFINE first == IF capacity = 0 THEN PageSize ELSE capacity
           c == Doubled(first, needed)
           Enough == {c[k] : k \in {k \in 0 .. needed : c[k] >= needed}}
<1>1. first \in Nat \ {0} /\ first % PageSize = 0 BY PageSizeAssumption
<1> HIDE DEF first
<1>2. /\ c \in [0 .. needed -> Nat \ {0}]
      /\ c[0] = first
      /\ \A k \in 1 .. needed : c[k] = 2 * c[k - 1]
  BY <1>1, DoubledRounds
<1> HIDE DEF c
<1> DEFINE Fine(k) == c[k] >= first + k /\ c[k] % PageSize = 0
           Bad == {k \in 0 .. needed : ~Fine(k)}
<1>3. Bad = {}
  <2> SUFFICES ASSUME Bad # {} PROVE FALSE OBVIOUS
  <2>1. PICK k \in Bad : \A l \in Bad : k <= l
    <3>1. Bad \subseteq Nat OBVIOUS
    <3> HIDE DEF Bad
    <3> QED BY <3>1, LeastNat
  <2>2. CASE k = 0 BY <1>1, <1>2, <2>1, <2>2
  <2>3. CASE k # 0
    <3>1. k - 1 \in 0 .. needed /\ ~(k <= k - 1) /\ k \in 1 .. needed BY <2>1, <2>3
    <3>2. k - 1 \notin Bad
      <4> HIDE DEF Bad
      <4> QED BY <2>1, <3>1
    <3>3. Fine(k - 1) /\ c[k - 1] \in Nat BY <1>2, <3>1, <3>2
    <3>4. c[k] = 2 * c[k - 1] BY <1>2, <3>1
    <3>5. c[k] % PageSize = 0 BY <3>3, <3>4, TwiceMultiple, PageSizeAssumption
    <3>6. c[k] >= first + k BY <1>1, <3>1, <3>3, <3>4
    <3> QED BY <2>1, <3>5, <3>6
  <2> QED BY <2>2, <2>3
<1>4. \A k \in 0 .. needed : Fine(k) BY <1>3
<1>5. Enough \subseteq Nat /\ Enough # {}
  <2>1. needed \in 0 .. needed /\ c[needed] >= needed BY <1>1, <1>2, <1>4
  <2>2. c[needed] \in Enough BY <2>1
  <2> QED BY <1>2, <2>2
<1>6. \E x \in Enough : \A y \in Enough : x <= y
  <2> HIDE DEF Enough
  <2> QED BY <1>5, LeastNat
<1>7. Min(Enough) \in Enough
  <2> HIDE DEF Enough
  <2> QED BY <1>6 DEF Min
<1>8. NewCapacity(needed) = Min(Enough) BY DEF NewCapacity, c, first
<1>9. PICK k \in 0 .. needed : Min(Enough) = c[k] /\ c[k] >= needed BY <1>7
<1>10. c[k] >= first BY <1>1, <1>2, <1>4, <1>9
<1> QED BY <1>1, <1>2, <1>4, <1>8, <1>9, <1>10 DEF first

-----------------------------------------------------------------------------
(* What the invariant says.                                                    *)
LEMMA FileFacts ==
    ASSUME FileInv
    PROVE  /\ size \in Nat /\ size <= MaxOffset /\ capacity \in Nat /\ Len(data) \in Nat
           /\ DOMAIN data = 1 .. Len(data)
           /\ Content = [i \in 1 .. size |-> data[i]]
           /\ Content \in Seq(Bytes \cup {Junk}) /\ Len(Content) = size
           /\ \A d \in Fds : IsOpen(d) => pos[d] \in Nat /\ pos[d] <= MaxOffset
<1>1. size \in Nat /\ size <= MaxOffset /\ capacity \in Nat
  BY BoundsAssumption DEF FileInv, FileTypeOK
<1>2. Len(data) \in Nat /\ DOMAIN data = 1 .. Len(data) /\ data \in [1 .. Len(data) -> Bytes \cup {Junk}]
  BY DEF FileInv, BufferOK
<1>3. size <= Len(data) BY DEF FileInv, BufferOK
<1>4. \A i \in 1 .. size : i \in 1 .. Len(data) BY <1>1, <1>2, <1>3
<1>5. Content = [i \in 1 .. size |-> data[i]] BY <1>2, <1>4 DEF Content
<1>6. Content \in [1 .. size -> Bytes \cup {Junk}] BY <1>2, <1>4, <1>5
<1>7. Content \in Seq(Bytes \cup {Junk}) /\ Len(Content) = size BY <1>1, <1>6
<1>8. \A d \in Fds : IsOpen(d) => pos[d] \in Nat /\ pos[d] <= MaxOffset
  BY BoundsAssumption DEF FileInv, FileTypeOK, IsOpen
<1> QED BY <1>1, <1>2, <1>5, <1>7, <1>8

LEMMA FileInitInv == ASSUME SmallInitrd, FileInit PROVE FileInv /\ SF!Init
<1>1. data \in Seq(Bytes) /\ Len(data) <= MaxOffset /\ Len(data) <= PageSize
  BY InitrdAssumption DEF FileInit, SmallInitrd
<1>2. data \in Seq(Bytes \cup {Junk}) /\ Len(data) \in Nat BY <1>1
<1>3. 0 % PageSize = 0 /\ 0 \div PageSize = 0 BY PageSizeAssumption
<1>4. FileTypeOK
  <2>1. size \in 0 .. MaxOffset BY <1>1, <1>2, BoundsAssumption DEF FileInit
  <2>2. pos \in [Fds -> 0 .. MaxOffset \cup {NotOpen}] BY DEF FileInit
  <2>3. \A i \in DOMAIN data : data[i] \in Bytes \cup {Junk} BY <1>2
  <2> QED BY <1>3, <2>1, <2>2, <2>3 DEF FileInit, FileTypeOK
<1>5. FileInv BY <1>1, <1>2, <1>3, <1>4 DEF FileInv, FileInit, BufferOK, GoneOK, PagesOwned
<1>6. Content = data
  <2>1. Content = [i \in 1 .. size |-> data[i]] BY <1>5, FileFacts
  <2> QED BY <1>2, <2>1 DEF FileInit
<1> QED BY <1>5, <1>6 DEF FileInit, SF!Init, SF!Closed, NotOpen

-----------------------------------------------------------------------------
(* Writing.                                                                    *)

\* What is stored in a buffer b that has room for it and holds the file.
LEMMA StoresFile ==
    ASSUME FileInv, NEW b \in Seq(Bytes \cup {Junk}), size <= Len(b),
           \A i \in 1 .. size : b[i] = data[i],
           NEW at \in Nat, NEW n \in Nat \ {0}, at + n <= Len(b), at + n <= MaxOffset,
           NEW x \in Bytes, Stores(b, at, n, x)
    PROVE  /\ data' \in Seq(Bytes \cup {Junk}) /\ Len(data') = Len(b)
           /\ size' \in 0 .. MaxOffset /\ size' <= Len(b)
           /\ size' = IF at + n > size THEN at + n ELSE size
           /\ Content' = LET c == SF!Padded(Content, at + n)
                         IN  [i \in DOMAIN c |-> IF i > at /\ i <= at + n THEN x ELSE c[i]]
<1>1. /\ size \in Nat /\ size <= MaxOffset /\ Len(Content) = size
      /\ Content = [i \in 1 .. size |-> data[i]]
  BY FileFacts
<1>2. Len(b) \in Nat /\ DOMAIN b = 1 .. Len(b) /\ b \in [1 .. Len(b) -> Bytes \cup {Junk}] OBVIOUS
<1>3. \A i \in 1 .. Len(b) : ZeroGap(b, at)[i] = IF i > size /\ i <= at THEN 0 ELSE b[i]
  BY <1>2 DEF ZeroGap
<1> DEFINE d == [i \in 1 .. Len(b) |-> IF i > at /\ i <= at + n THEN x
                                        ELSE IF i > size /\ i <= at THEN 0 ELSE b[i]]
<1>4. data' = d BY <1>2, <1>3 DEF Stores
<1>5. d \in [1 .. Len(b) -> Bytes \cup {Junk}] BY <1>2, BytesAssumption
<1>6. data' \in Seq(Bytes \cup {Junk}) /\ Len(data') = Len(b) /\ DOMAIN data' = 1 .. Len(b)
  BY <1>2, <1>4, <1>5
<1>7. size' = (IF at + n > size THEN at + n ELSE size) /\ size' \in Nat BY <1>1 DEF Stores
<1>8. size' \in 0 .. MaxOffset /\ size' <= Len(b) BY <1>1, <1>2, <1>7, BoundsAssumption
<1> DEFINE c == SF!Padded(Content, at + n)
           g == [i \in DOMAIN c |-> IF i > at /\ i <= at + n THEN x ELSE c[i]]
<1>9. c = [i \in 1 .. size' |-> IF i <= size THEN Content[i] ELSE 0]
  <2>1. (IF Len(Content) < at + n THEN at + n ELSE Len(Content)) = size' BY <1>1, <1>7
  <2> QED BY <1>1, <2>1 DEF SF!Padded
<1>10. Content' = [i \in 1 .. size' |-> d[i]]
  <2>1. \A i \in 1 .. size' : i \in 1 .. Len(b) BY <1>2, <1>7, <1>8
  <2> QED BY <1>4, <1>6, <2>1 DEF Content
<1>11. ASSUME NEW i \in 1 .. size' PROVE d[i] = IF i > at /\ i <= at + n THEN x ELSE c[i]
  <2>1. i \in 1 .. Len(b) /\ i \in Nat BY <1>2, <1>7, <1>8
  <2>2. c[i] = IF i <= size THEN data[i] ELSE 0 BY <1>1, <1>7, <1>9, <2>1
  <2>3. i <= size => b[i] = data[i] BY <1>1, <2>1
  <2>4. i <= at + n \/ i <= size BY <1>7, <2>1
  <2> HIDE DEF c
  <2> QED BY <1>1, <2>1, <2>2, <2>3, <2>4
<1>12. Content' = g
  <2>1. DOMAIN c = 1 .. size' BY <1>9
  <2> HIDE DEF c, d
  <2> QED BY <1>10, <1>11, <2>1
<1> QED BY <1>6, <1>7, <1>8, <1>12

\* A write makes the file what SparseFile says, in the old buffer or a new one.
LEMMA WriteStep ==
    ASSUME FileInv, NEW d \in Fds, NEW n \in 1 .. MaxCount, NEW x \in Bytes, Write(d, n, x)
    PROVE  FileInv' /\ SF!Write(d, n, x) /\ n \in 1 .. MaxOffset
<1> DEFINE end == pos[d] + n
           c == NewCapacity(end)
<1>1. n \in Nat \ {0} /\ n \in 1 .. MaxOffset BY BoundsAssumption
<1>2. IsOpen(d) /\ end <= MaxOffset /\ pos' = [pos EXCEPT ![d] = end] /\ UNCHANGED <<in_use, out>>
  BY DEF Write
<1>3. pos[d] \in Nat /\ end \in Nat /\ size \in Nat /\ capacity \in Nat BY <1>1, <1>2, FileFacts
<1>4. /\ capacity % PageSize = 0 /\ pages = capacity \div PageSize
      /\ data \in Seq(Bytes \cup {Junk}) /\ Len(data) \in Nat /\ size <= Len(data)
      /\ capacity > 0 => Len(data) = capacity
      /\ capacity = 0 => size <= PageSize
  BY DEF FileInv, FileTypeOK, PagesOwned, BufferOK
<1>5. PICK b \in Seq(Bytes \cup {Junk}) :
         /\ Len(b) = capacity' /\ capacity' \in Nat \ {0} /\ capacity' % PageSize = 0
         /\ size <= Len(b) /\ end <= Len(b)
         /\ \A i \in 1 .. size : b[i] = data[i]
         /\ Stores(b, pos[d], n, x)
         /\ pages' = capacity' \div PageSize
  <2>1. CASE ~NeedsGrow(end) /\ Stores(data, pos[d], n, x) /\ UNCHANGED <<capacity, pages>>
    <3>1. end <= capacity /\ capacity > 0 BY <1>1, <1>3, <2>1 DEF NeedsGrow
    <3> QED BY <1>3, <1>4, <2>1, <3>1
  <2>2. CASE /\ NeedsGrow(end) /\ Stores(Moved(c), pos[d], n, x) /\ capacity' = c
             /\ pages' = pages + c \div PageSize - Freed
    <3>1. /\ c \in Nat \ {0} /\ c >= end /\ c % PageSize = 0
          /\ capacity = 0 => c >= PageSize
      BY <1>3, <1>4, CapacityGrows
    <3> HIDE DEF c
    <3>2. end > capacity BY <2>2 DEF NeedsGrow
    <3>3. size <= c BY <1>3, <1>4, <3>1, <3>2, PageSizeAssumption
    <3>4. Moved(c) = [i \in 1 .. c |-> IF i <= size THEN data[i] ELSE Junk] BY DEF Moved
    <3>5. \A i \in 1 .. c : i <= size => i \in 1 .. Len(data) BY <1>3, <1>4, <3>1
    <3>6. data \in [1 .. Len(data) -> Bytes \cup {Junk}] BY <1>4
    <3>7. Moved(c) \in [1 .. c -> Bytes \cup {Junk}] BY <3>4, <3>5, <3>6
    <3>8. Moved(c) \in Seq(Bytes \cup {Junk}) /\ Len(Moved(c)) = c BY <3>1, <3>7
    <3>9. \A i \in 1 .. size : Moved(c)[i] = data[i] BY <1>3, <3>1, <3>3, <3>4
    <3>10. pages' = c \div PageSize
      <4>1. c \div PageSize \in Int /\ capacity \div PageSize \in Int BY <1>3, <3>1, PageSizeAssumption
      <4> QED BY <1>4, <2>2, <4>1 DEF Freed
    <3> QED BY <2>2, <3>1, <3>3, <3>8, <3>9, <3>10
  <2> QED BY <2>1, <2>2 DEF Write
<1>6. /\ data' \in Seq(Bytes \cup {Junk}) /\ Len(data') = Len(b)
      /\ size' \in 0 .. MaxOffset /\ size' <= Len(b)
      /\ Content' = LET p == SF!Padded(Content, pos[d] + n)
                    IN  [i \in DOMAIN p |-> IF i > pos[d] /\ i <= pos[d] + n THEN x ELSE p[i]]
  <2> HIDE DEF c
  <2>1. pos[d] + n <= Len(b) /\ pos[d] + n <= MaxOffset BY <1>2, <1>5
  <2> QED BY <1>1, <1>3, <1>5, <2>1, StoresFile
<1> HIDE DEF c
<1>7. pos' \in [Fds -> 0 .. MaxOffset \cup {NotOpen}]
  <2>1. pos \in [Fds -> 0 .. MaxOffset \cup {NotOpen}] BY DEF FileInv, FileTypeOK
  <2>2. end \in 0 .. MaxOffset BY <1>2, <1>3, BoundsAssumption
  <2> QED BY <1>2, <2>1, <2>2
<1>8. FileTypeOK'
  <2>1. \A i \in DOMAIN data' : data'[i] \in Bytes \cup {Junk} BY <1>6
  <2>2. pages' \in Int BY <1>5, PageSizeAssumption
  <2> QED BY <1>2, <1>5, <1>6, <1>7, <2>1, <2>2 DEF FileTypeOK, FileInv
<1>9. in_use /\ in_use' BY <1>2 DEF FileInv, GoneOK
<1>10. FileInv' BY <1>5, <1>6, <1>8, <1>9 DEF FileInv, BufferOK, GoneOK, PagesOwned
<1>11. SF!Write(d, n, x)
  <2>1. pos[d] # SF!Closed BY <1>2 DEF IsOpen, NotOpen, SF!Closed
  <2> QED BY <1>2, <1>6, <2>1 DEF SF!Write
<1> QED BY <1>1, <1>10, <1>11

-----------------------------------------------------------------------------
(* Reading and the rest.                                                       *)

\* A buffer that is not touched is still one.
LEMMA BufferSame ==
    ASSUME FileInv, UNCHANGED bufferVars, pos' \in [Fds -> 0 .. MaxOffset \cup {NotOpen}],
           in_use \/ \A d \in Fds : pos'[d] = NotOpen
    PROVE  FileInv' /\ Content' = Content
<1>1. FileTypeOK' BY DEF FileInv, FileTypeOK, bufferVars
<1>2. PagesOwned' /\ BufferOK' /\ Content' = Content
  BY DEF FileInv, PagesOwned, BufferOK, bufferVars, Content
<1>3. GoneOK' BY DEF FileInv, GoneOK, bufferVars, IsOpen
<1> QED BY <1>1, <1>2, <1>3 DEF FileInv

LEMMA ReadStep ==
    ASSUME FileInv, NEW d \in Fds, NEW n \in 1 .. MaxCount, Read(d, n)
    PROVE  FileInv' /\ SF!Read(d, n) /\ n \in 1 .. MaxOffset
<1> DEFINE k == IF n < Remaining(d) THEN n ELSE Remaining(d)
           top == IF pos[d] + n < Len(Content) THEN pos[d] + n ELSE Len(Content)
<1>1. n \in Nat \ {0} /\ n \in 1 .. MaxOffset BY BoundsAssumption
<1>2. IsOpen(d) /\ pos' = [pos EXCEPT ![d] = pos[d] + k] /\ UNCHANGED bufferVars BY DEF Read
<1>3. /\ pos[d] \in Nat /\ pos[d] <= MaxOffset /\ size \in Nat /\ size <= MaxOffset
      /\ Len(Content) = size /\ Content = [i \in 1 .. size |-> data[i]]
      /\ DOMAIN data = 1 .. Len(data) /\ Len(data) \in Nat
  BY <1>2, FileFacts
<1>4. /\ k \in Nat /\ pos[d] + k <= MaxOffset
      /\ k > 0 => pos[d] + k <= size
      /\ k = (IF pos[d] >= size THEN 0 ELSE top - pos[d])
  <2>1. CASE pos[d] >= size
    <3>1. Remaining(d) = 0 BY <2>1 DEF Remaining
    <3> QED BY <1>1, <1>3, <2>1, <3>1
  <2>2. CASE ~(pos[d] >= size)
    <3>1. Remaining(d) = size - pos[d] BY <2>2 DEF Remaining
    <3>2. CASE n < size - pos[d]
      <4>1. k = n /\ top = pos[d] + n BY <1>1, <1>3, <3>1, <3>2
      <4>2. /\ pos[d] \in Nat /\ size \in Nat /\ n \in Nat \ {0} /\ size <= MaxOffset
            /\ MaxOffset \in Nat
        BY <1>1, <1>3, BoundsAssumption
      <4> HIDE DEF k, top
      <4>3. k \in Nat /\ pos[d] + k <= size /\ pos[d] + k <= MaxOffset BY <3>2, <4>1, <4>2
      <4>4. k = top - pos[d] BY <4>1, <4>2
      <4> QED BY <2>2, <4>3, <4>4
    <3>3. CASE ~(n < size - pos[d])
      <4>1. k = size - pos[d] /\ top = size BY <1>1, <1>3, <3>1, <3>3
      <4> HIDE DEF k, top
      <4> QED BY <1>1, <1>3, <2>2, <4>1
    <3> QED BY <3>2, <3>3
  <2> QED BY <2>1, <2>2
<1>5. size <= Len(data) BY DEF FileInv, BufferOK
<1> HIDE DEF k
<1>6. out' = [i \in 1 .. k |-> data[pos[d] + i]]
  <2>1. \A i \in 1 .. k : pos[d] + i \in 1 .. Len(data) BY <1>3, <1>4, <1>5
  <2>2. out' = [i \in 1 .. k |-> IF pos[d] + i \in DOMAIN data THEN data[pos[d] + i] ELSE Junk]
    BY DEF Read, k
  <2> QED BY <1>3, <2>1, <2>2
<1>7. out' = SubSeq(Content, pos[d] + 1, top) /\ Len(out') = k
  <2>1. \A i \in 1 .. k : Content[i + (pos[d] + 1) - 1] = data[pos[d] + i]
    <3> SUFFICES ASSUME NEW i \in 1 .. k PROVE Content[i + (pos[d] + 1) - 1] = data[pos[d] + i]
      OBVIOUS
    <3>1. pos[d] + i \in 1 .. size /\ i + (pos[d] + 1) - 1 = pos[d] + i BY <1>3, <1>4
    <3> QED BY <1>3, <3>1
  <2>2. top \in Int /\ 1 .. (1 + top - (pos[d] + 1)) = 1 .. k
    <3>1. CASE pos[d] >= size BY <1>1, <1>3, <1>4, <3>1
    <3>2. CASE ~(pos[d] >= size) BY <1>1, <1>3, <1>4, <3>2
    <3> QED BY <3>1, <3>2
  <2>3. SubSeq(Content, pos[d] + 1, top)
          = [i \in 1 .. (1 + top - (pos[d] + 1)) |-> Content[i + (pos[d] + 1) - 1]]
    <3>1. Content \in Seq(Bytes \cup {Junk}) BY FileFacts
    <3>2. pos[d] + 1 \in Int BY <1>3
    <3> HIDE DEF top
    <3> QED BY <2>2, <3>1, <3>2
  <2>4. SubSeq(Content, pos[d] + 1, top) = [i \in 1 .. k |-> data[pos[d] + i]]
    <3> HIDE DEF top
    <3> QED BY <2>1, <2>2, <2>3
  <2>5. Len(out') = k BY <1>4, <1>6
  <2> QED BY <1>6, <2>4, <2>5
<1>8. pos' \in [Fds -> 0 .. MaxOffset \cup {NotOpen}]
  <2>1. pos \in [Fds -> 0 .. MaxOffset \cup {NotOpen}] BY DEF FileInv, FileTypeOK
  <2>2. pos[d] + k \in 0 .. MaxOffset BY <1>3, <1>4, BoundsAssumption
  <2> QED BY <1>2, <2>1, <2>2
<1>9. in_use BY <1>2 DEF FileInv, GoneOK
<1>10. FileInv' /\ Content' = Content BY <1>2, <1>8, <1>9, BufferSame
<1>11. SF!Read(d, n)
  <2>1. pos[d] # SF!Closed BY <1>2 DEF IsOpen, NotOpen, SF!Closed
  <2> HIDE DEF top
  <2>2. out' = SubSeq(Content, pos[d] + 1, top) /\ pos' = [pos EXCEPT ![d] = pos[d] + Len(out')]
    BY <1>2, <1>7
  <2> QED BY <1>10, <2>1, <2>2 DEF SF!Read, top
<1> QED BY <1>1, <1>10, <1>11

\* What openat does to the file, whether it gets a descriptor or not.
LEMMA OpenedFile ==
    ASSUME FileInv, NEW trunc \in BOOLEAN, Opened(trunc),
           pos' \in [Fds -> 0 .. MaxOffset \cup {NotOpen}]
    PROVE  /\ FileInv' /\ Content' \in {Content, <<>>}
           /\ size' \in 0 .. MaxOffset /\ Len(Content') = size'
<1>1. size' \in 0 .. MaxOffset /\ in_use' BY BoundsAssumption DEF Opened, FileInv, FileTypeOK
<1>2. 0 % PageSize = 0 /\ 0 \div PageSize = 0 BY PageSizeAssumption
<1>3. CASE in_use
  <2>1. UNCHANGED <<data, capacity, pages>> /\ size' \in {size, 0} BY <1>3 DEF Opened
  <2>2. size \in Nat /\ Len(data) \in Nat BY FileFacts
  <2>3. FileTypeOK' BY <1>1, <2>1 DEF FileInv, FileTypeOK
  <2>4. BufferOK'
    BY <2>1, <2>2, PageSizeAssumption DEF FileInv, BufferOK
  <2>5. FileInv' BY <1>1, <2>1, <2>3, <2>4 DEF FileInv, GoneOK, PagesOwned
  <2>6. Content' \in {Content, <<>>}
    <3>1. CASE size' = size BY <2>1, <3>1 DEF Content
    <3>2. CASE size' = 0 BY <3>2 DEF Content
    <3> QED BY <2>1, <3>1, <3>2
  <2>7. (FileInv => Len(Content) = size)' BY FileFacts, PTL
  <2> QED BY <1>1, <2>5, <2>6, <2>7
<1>4. CASE ~in_use
  <2>1. data' = <<>> /\ size' = 0 /\ capacity' = 0 /\ pages' = pages BY <1>4 DEF Opened
  <2>2. capacity = 0 BY <1>4 DEF FileInv, GoneOK
  <2>3. pages' = 0 BY <1>2, <2>1, <2>2 DEF FileInv, PagesOwned
  <2>4. FileTypeOK' BY <1>1, <1>2, <2>1, <2>3 DEF FileInv, FileTypeOK
  <2>5. BufferOK' BY <2>1, PageSizeAssumption DEF BufferOK
  <2>6. FileInv' BY <1>1, <1>2, <2>1, <2>3, <2>4, <2>5 DEF FileInv, GoneOK, PagesOwned
  <2>7. Content' = <<>> BY <2>1 DEF Content
  <2> QED BY <1>1, <2>1, <2>6, <2>7
<1> QED BY <1>3, <1>4

\* Every step keeps the invariant and is a step of SparseFile.
LEMMA FileStep ==
    ASSUME ~UnlinkOpen, FileInv, [FileNext]_fileVars
    PROVE  FileInv' /\ [SF!Next]_(SF!vars)
<1> USE DEF NotOpen, SF!Closed
<1>0. /\ pos \in [Fds -> 0 .. MaxOffset \cup {NotOpen}] /\ 0 \in 0 .. MaxOffset
      /\ \A d \in Fds : IsOpen(d) => in_use
  BY BoundsAssumption DEF FileInv, FileTypeOK, GoneOK
<1>1. ASSUME NEW d \in Fds, NEW n \in 1 .. MaxCount, NEW x \in Bytes, Write(d, n, x)
      PROVE  FileInv' /\ SF!Next
  BY <1>1, WriteStep DEF SF!Next
<1>2. ASSUME NEW d \in Fds, NEW n \in 1 .. MaxCount, Read(d, n) PROVE FileInv' /\ SF!Next
  BY <1>2, ReadStep DEF SF!Next
<1>3. ASSUME UNCHANGED fileVars PROVE FileInv' /\ UNCHANGED SF!vars
  <2>1. UNCHANGED <<bufferVars, pos, out>> BY <1>3 DEF fileVars
  <2>2. in_use \/ \A d \in Fds : pos'[d] = NotOpen BY <1>0, <2>1 DEF IsOpen
  <2> QED BY <1>0, <2>1, <2>2, BufferSame DEF SF!vars
<1>4. ASSUME NEW d \in Fds, NEW n \in 1 .. MaxCount, WriteFails(d, n)
      PROVE  FileInv' /\ UNCHANGED SF!vars
  BY <1>3, <1>4 DEF WriteFails
<1>5. ASSUME NEW d \in Fds, NEW n \in 0 .. MaxOffset, Lseek(d, n) PROVE FileInv' /\ SF!Next
  <2>1. /\ IsOpen(d) /\ pos' = [pos EXCEPT ![d] = n] /\ UNCHANGED <<bufferVars, out>>
    BY <1>5 DEF Lseek
  <2>2. FileInv' /\ Content' = Content BY <1>0, <2>1, BufferSame
  <2>3. SF!Seek(d) BY <2>1, <2>2 DEF SF!Seek, IsOpen
  <2> QED BY <2>2, <2>3 DEF SF!Next
<1>6. ASSUME NEW d \in Fds, NEW trunc \in BOOLEAN, NEW append \in BOOLEAN, Openat(d, trunc, append)
      PROVE  FileInv' /\ SF!Next
  <2>1. /\ ~IsOpen(d) /\ Opened(trunc)
        /\ pos' = [pos EXCEPT ![d] = IF append THEN size' ELSE 0]
    BY <1>6 DEF Openat
  <2>2. size' \in 0 .. MaxOffset BY <2>1, BoundsAssumption DEF Opened, FileInv, FileTypeOK
  <2>3. pos' \in [Fds -> 0 .. MaxOffset \cup {NotOpen}] BY <1>0, <2>1, <2>2
  <2>4. FileInv' /\ Content' \in {Content, <<>>} /\ Len(Content') = size' BY <2>1, <2>3, OpenedFile
  <2>5. pos' \in {[pos EXCEPT ![d] = 0], [pos EXCEPT ![d] = Len(Content')]} BY <2>1, <2>4
  <2>6. out' = out BY <2>1 DEF Opened
  <2>7. SF!Open(d) BY <2>1, <2>4, <2>5, <2>6 DEF SF!Open, IsOpen
  <2> QED BY <2>4, <2>7 DEF SF!Next
<1>7. ASSUME NEW trunc \in BOOLEAN, OpenatFails(trunc) PROVE FileInv' /\ [SF!Next]_(SF!vars)
  <2>1. Opened(trunc) /\ pos' = pos BY <1>7 DEF OpenatFails
  <2>2. out' = out BY <2>1 DEF Opened
  <2>3. FileInv' /\ Content' \in {Content, <<>>} BY <1>0, <2>1, OpenedFile
  <2>4. CASE Content' = Content BY <2>1, <2>2, <2>3, <2>4 DEF SF!vars
  <2>5. CASE Content' = <<>> BY <2>1, <2>2, <2>3, <2>5 DEF SF!Next, SF!Remove
  <2> QED BY <2>3, <2>4, <2>5
<1>8. ASSUME NEW d \in Fds, CloseFile(d) PROVE FileInv' /\ SF!Next
  <2>1. IsOpen(d) /\ pos' = [pos EXCEPT ![d] = NotOpen] /\ UNCHANGED <<bufferVars, out>>
    BY <1>8 DEF CloseFile
  <2>2. pos' \in [Fds -> 0 .. MaxOffset \cup {NotOpen}] BY <1>0, <2>1
  <2>3. FileInv' /\ Content' = Content BY <1>0, <2>1, <2>2, BufferSame
  <2> QED BY <2>1, <2>3 DEF SF!Next, SF!Close
<1>9. ASSUME UnlinkFile PROVE FileInv' /\ SF!Next
  <2>1. /\ data' = <<>> /\ size' = 0 /\ capacity' = 0 /\ pages' = pages - Freed
        /\ in_use' = FALSE /\ UNCHANGED <<pos, out>> /\ \A d \in Fds : ~IsOpen(d)
    BY <1>9 DEF UnlinkFile
  <2>2. 0 % PageSize = 0 /\ 0 \div PageSize = 0 BY PageSizeAssumption
  <2>3. pages' = 0
    <3>1. pages = Freed /\ pages \in Int BY DEF FileInv, FileTypeOK, PagesOwned, Freed
    <3> QED BY <2>1, <3>1
  <2>4. FileTypeOK'
    <3>1. \A i \in DOMAIN data' : data'[i] \in Bytes \cup {Junk} BY <2>1
    <3>2. pos' \in [Fds -> 0 .. MaxOffset \cup {NotOpen}] BY <1>0, <2>1
    <3>3. in_use' \in BOOLEAN BY <2>1
    <3>4. size' \in 0 .. MaxOffset /\ capacity' \in Nat /\ capacity' % PageSize = 0 /\ pages' \in Int
      BY <1>0, <2>1, <2>2, <2>3
    <3> QED BY <3>1, <3>2, <3>3, <3>4 DEF FileTypeOK
  <2>5. FileInv'
    BY <2>1, <2>2, <2>3, <2>4, PageSizeAssumption
    DEF FileInv, GoneOK, PagesOwned, BufferOK, IsOpen
  <2>6. Content' = <<>> BY <2>1 DEF Content
  <2> QED BY <2>1, <2>5, <2>6 DEF SF!Next, SF!Remove
<1> QED
  BY <1>1, <1>2, <1>3, <1>4, <1>5, <1>6, <1>7, <1>8, <1>9 DEF FileNext

\* As long as files are not unlinked while they are open and the initrd's files
\* are no longer than a page, a file that grows, is truncated, is written past
\* its end and is removed and made again is a string of bytes to its readers,
\* and owns exactly the pages of one buffer that has room for it, for every
\* page size, every initrd and any number of descriptors
\* (ramfs_dynamic_write(), ramfs_dynamic_grow(), ramfs_dynamic_unlink()).
THEOREM FileSafe == ~UnlinkOpen /\ SmallInitrd => (FileSpec => FileKept)
<1> SUFFICES ASSUME ~UnlinkOpen, SmallInitrd PROVE FileSpec => FileKept OBVIOUS
<1>1. FileInit => FileInv /\ SF!Init BY FileInitInv
<1>2. FileInv /\ [FileNext]_fileVars => FileInv' /\ [SF!Next]_(SF!vars) BY FileStep
<1>3. FileInv => FileTypeOK /\ PagesOwned /\ BackingHoldsFile
  BY DEF FileInv, BufferOK, BackingHoldsFile
<1> QED BY <1>1, <1>2, <1>3, PTL DEF FileSpec, FileKept, IsSparseFile, SF!Spec
=============================================================================
