---------------------------- MODULE LinkerProofs ----------------------------
(* The linker's symbol table for every hash function, every set of files and   *)
(* every order in which they and the members of archives come: a lookup finds  *)
(* the one symbol of a name, a name gets the strongest of its definitions,     *)
(* archives are gone through until they have nothing to give, and relocations  *)
(* keep to the symbols that they name.                                         *)
EXTENDS Linker, FiniteSetTheorems, WellFoundedInduction, TLAPS

-----------------------------------------------------------------------------
(* Numbers and sequences.                                                      *)

\* A non-empty set of naturals has a least element.
LEMMA LeastNat ==
    ASSUME NEW X, X \subseteq Nat, X # {}
    PROVE  \E x \in X : \A y \in X : x <= y
<1>1. IsWellFoundedOn(OpToRel(<, Nat), Nat) BY NatLessThanWellFounded
<1>2. PICK x \in X : \A y \in X : ~(<<y, x>> \in OpToRel(<, Nat)) BY <1>1, WFMin
<1>3. ASSUME NEW y \in X PROVE x <= y
  <2>1. ~(y < x) BY <1>2, <1>3 DEF OpToRel
  <2> QED BY <2>1
<1> QED BY <1>3

\* x is the greatest member of X, or 0 if it has none.
Top(x, X) == x \in X \cup {0} /\ \A j \in X : j <= x

\* What Max({0} \cup X) is of a set of positive numbers with a bound.
LEMMA MaxIsTop ==
    ASSUME NEW n \in Nat, NEW X, X \subseteq 1 .. n
    PROVE  Top(Max({0} \cup X), X)
<1> DEFINE Bounds == {b \in Nat : \A j \in X : j <= b}
           Z == {0} \cup X
<1>1. Bounds \subseteq Nat /\ Bounds # {}
  <2>1. n \in Bounds OBVIOUS
  <2> QED BY <2>1
<1>2. PICK b \in Bounds : \A c \in Bounds : b <= c
  <2> HIDE DEF Bounds
  <2> QED BY <1>1, LeastNat
<1>3. b \in Z
  <2> SUFFICES ASSUME b \notin Z PROVE FALSE OBVIOUS
  <2>1. b \in Nat /\ b # 0 /\ b - 1 \in Nat /\ ~(b <= b - 1) BY <1>2
  <2>2. \A j \in X : j <= b - 1 BY <1>2, <2>1
  <2>3. b - 1 \in Bounds BY <2>1, <2>2
  <2> HIDE DEF Bounds
  <2> QED BY <1>2, <2>1, <2>3
<1>4. \A j \in Z : b >= j BY <1>2
<1>5. Max(Z) \in Z /\ \A j \in Z : Max(Z) >= j
  <2> HIDE DEF Z
  <2> QED BY <1>3, <1>4 DEF Max
<1>6. Z \subseteq Nat OBVIOUS
<1>7. Max(Z) \in Nat
  <2> HIDE DEF Z
  <2> QED BY <1>5, <1>6
<1> QED BY <1>5, <1>7 DEF Top

\* A hash value is the number of a bucket.
LEMMA BucketIn ==
    ASSUME NEW name \in SymNames, NEW nb \in Nat \ {0}
    PROVE  Bucket(name, nb) \in 0 .. nb - 1
BY HashAssumption DEF Bucket

\* Appending to a sequence of any elements.
LEMMA AppendIsSeq ==
    ASSUME NEW q, IsSeq(q), NEW e
    PROVE  /\ IsSeq(Append(q, e)) /\ Len(q) \in Nat /\ Len(Append(q, e)) = Len(q) + 1
           /\ \A i \in 1 .. Len(q) : Append(q, e)[i] = q[i]
           /\ Append(q, e)[Len(q) + 1] = e
<1> DEFINE S == Range(q) \cup {e}
           r == Append(q, e)
<1>1. q \in Seq(S) BY DEF IsSeq
<1>2. /\ r \in Seq(S) /\ Len(q) \in Nat /\ Len(r) = Len(q) + 1
      /\ \A i \in 1 .. Len(q) : r[i] = q[i]
      /\ r[Len(q) + 1] = e
  <2> HIDE DEF S
  <2>1. e \in S BY DEF S
  <2> QED BY <1>1, <2>1
<1>3. r \in Seq(Range(r))
  <2> HIDE DEF r, S
  <2>1. \A i \in 1 .. Len(r) : r[i] \in Range(r) BY <1>2 DEF Range
  <2> QED BY <1>2, <2>1
<1> QED BY <1>2, <1>3 DEF IsSeq

\* A function on 1 .. n is a sequence.
LEMMA FcnIsSeq ==
    ASSUME NEW q, NEW n \in Nat, q = [i \in 1 .. n |-> q[i]]
    PROVE  IsSeq(q) /\ Len(q) = n /\ DOMAIN q = 1 .. n
<1>1. DOMAIN q = 1 .. n OBVIOUS
<1>2. \A i \in 1 .. n : q[i] \in Range(q) BY <1>1 DEF Range
<1>3. q \in Seq(Range(q)) BY <1>2
<1> QED BY <1>1, <1>3 DEF IsSeq

\* What makes a sequence one.
LEMMA SeqIsFcn ==
    ASSUME NEW q, IsSeq(q)
    PROVE  Len(q) \in Nat /\ DOMAIN q = 1 .. Len(q) /\ q = [i \in 1 .. Len(q) |-> q[i]]
BY DEF IsSeq

LEMMA ConcatIsSeq ==
    ASSUME NEW q, IsSeq(q), NEW r, IsSeq(r)
    PROVE  /\ IsSeq(q \o r) /\ Len(q) \in Nat /\ Len(r) \in Nat
           /\ Len(q \o r) = Len(q) + Len(r)
           /\ \A i \in 1 .. Len(q) : (q \o r)[i] = q[i]
           /\ \A i \in 1 .. Len(r) : (q \o r)[Len(q) + i] = r[i]
<1> DEFINE S == Range(q) \cup Range(r)
           z == q \o r
<1>1. q \in Seq(S) /\ r \in Seq(S) BY DEF IsSeq
<1>2. /\ z \in Seq(S) /\ Len(q) \in Nat /\ Len(r) \in Nat /\ Len(z) = Len(q) + Len(r)
      /\ \A i \in 1 .. Len(q) : z[i] = q[i]
      /\ \A i \in 1 .. Len(r) : z[Len(q) + i] = r[i]
  <2> HIDE DEF S
  <2> QED BY <1>1
<1>3. z \in Seq(Range(z))
  <2> HIDE DEF z, S
  <2>1. \A i \in 1 .. Len(z) : z[i] \in Range(z) BY <1>2 DEF Range
  <2> QED BY <1>2, <2>1
<1> QED BY <1>2, <1>3 DEF IsSeq

-----------------------------------------------------------------------------
(* The hash table.  Chains are shown to be what RebuildHash would make them.   *)

\* The symbols of bucket h.
Chained(ys, nb, h) ==
    {i \in 1 .. Len(ys) : ~IsLocal(ys[i]) /\ Bucket(ys[i].name, nb) = h}

SymFields == {"name", "bind", "vis", "asm", "size", "sec", "value", "org"}
SymOK(y) == y.name \in SymNames /\ SymFields \subseteq DOMAIN y

\* A name has one symbol that is not local.
OneEach(ys) ==
    \A i, j \in 1 .. Len(ys) :
        ~IsLocal(ys[i]) /\ ~IsLocal(ys[j]) /\ ys[i].name = ys[j].name => i = j

Chains(ys, nb, bucket, chain) ==
    /\ \A h \in 0 .. nb - 1 : Top(bucket[h], Chained(ys, nb, h))
    /\ \A i \in 1 .. Len(ys) :
          IF IsLocal(ys[i]) THEN chain[i] = 0
          ELSE Top(chain[i], {j \in Chained(ys, nb, Bucket(ys[i].name, nb)) : j < i})

TableShape(t) ==
    /\ t = [syms |-> t.syms, nbuckets |-> t.nbuckets, bucket |-> t.bucket,
            chain |-> t.chain, hashed |-> t.hashed, hashing |-> t.hashing]
    /\ IsSeq(t.syms) /\ t.chain \in Seq(Nat) /\ Len(t.chain) = Len(t.syms)
    /\ t.nbuckets \in Nat \ {0} /\ t.hashed \in Nat
    /\ t.bucket \in [0 .. t.nbuckets - 1 -> Nat]
    /\ \A i \in 1 .. Len(t.syms) : SymOK(t.syms[i])

Hashed(t) ==
    /\ TableShape(t) /\ t.hashing = TRUE
    /\ OneEach(t.syms)
    /\ Chains(t.syms, t.nbuckets, t.bucket, t.chain)

\* The symbols that a lookup may find.
Named(ys, name) == {i \in 1 .. Len(ys) : ~IsLocal(ys[i]) /\ ys[i].name = name}

\* What is found from symbol i on.
Found(t, name, i) ==
    IF i = 0 \/ t.syms[i].name = name THEN i
    ELSE IF IsLocal(t.syms[i]) THEN 0
    ELSE LET X == {j \in Named(t.syms, name) :
                      j < i /\ Bucket(name, t.nbuckets) = Bucket(t.syms[i].name, t.nbuckets)}
         IN  IF X = {} THEN 0 ELSE CHOOSE j \in X : TRUE

\* One step along the chain.
LEMMA FoundNext ==
    ASSUME NEW t, Hashed(t), NEW name \in SymNames, NEW i \in 1 .. Len(t.syms),
           t.syms[i].name # name
    PROVE  /\ t.chain[i] \in 0 .. i - 1
           /\ Found(t, name, i) = Found(t, name, t.chain[i])
<1> DEFINE c == t.chain[i]
           b == Bucket(t.syms[i].name, t.nbuckets)
           In == {j \in Chained(t.syms, t.nbuckets, b) : j < i}
           X == {j \in Named(t.syms, name) : j < i /\ Bucket(name, t.nbuckets) = b}
<1>0. Len(t.syms) \in Nat /\ c \in Nat BY DEF Hashed, TableShape, IsSeq
<1>1. CASE IsLocal(t.syms[i])
  <2>1. c = 0 BY <1>1 DEF Hashed, Chains
  <2>2. Found(t, name, i) = 0 BY <1>1 DEF Found
  <2>3. Found(t, name, 0) = 0 BY DEF Found
  <2> QED BY <2>1, <2>2, <2>3
<1>2. CASE ~IsLocal(t.syms[i])
  <2>1. Top(c, In) BY <1>2 DEF Hashed, Chains
  <2>2. X \subseteq In BY DEF Named, Chained
  <2>3. Found(t, name, i) = IF X = {} THEN 0 ELSE CHOOSE j \in X : TRUE
    BY <1>2 DEF Found
  <2>4. CASE c = 0
    <3>1. In = {} BY <2>1, <2>4 DEF Top, Chained
    <3>2. X = {} BY <2>2, <3>1
    <3>3. Found(t, name, 0) = 0 BY DEF Found
    <3> HIDE DEF X
    <3> QED BY <2>3, <2>4, <3>2, <3>3
  <2>5. CASE c # 0
    <3>1. /\ c \in 1 .. Len(t.syms) /\ c < i /\ ~IsLocal(t.syms[c])
          /\ Bucket(t.syms[c].name, t.nbuckets) = b
      BY <2>1, <2>5 DEF Top, Chained
    <3>2. CASE t.syms[c].name = name
      <4>1. c \in X BY <3>1, <3>2 DEF Named
      <4>2. \A j \in X : j = c
        BY <3>1, <3>2 DEF Named, Hashed, OneEach
      <4>3. Found(t, name, c) = c BY <3>2 DEF Found
      <4> HIDE DEF X
      <4> QED BY <1>0, <2>3, <3>1, <4>1, <4>2, <4>3
    <3>3. CASE t.syms[c].name # name
      <4> DEFINE Y == {j \in Named(t.syms, name) :
                          j < c /\ Bucket(name, t.nbuckets) = Bucket(t.syms[c].name, t.nbuckets)}
      <4>1. Found(t, name, c) = IF Y = {} THEN 0 ELSE CHOOSE j \in Y : TRUE
        BY <2>5, <3>1, <3>3 DEF Found
      <4>2. X = Y
        <5>1. Y \subseteq X BY <1>0, <3>1 DEF Named
        <5>2. ASSUME NEW j \in X PROVE j \in Y
          <6>1. j \in In /\ j \in 1 .. Len(t.syms) BY <2>2 DEF Named
          <6>2. j <= c BY <2>1, <6>1 DEF Top
          <6>3. j # c BY <3>3 DEF Named
          <6> QED BY <1>0, <3>1, <6>1, <6>2, <6>3
        <5> QED BY <5>1, <5>2
      <4> HIDE DEF X, Y
      <4> QED BY <1>0, <2>3, <3>1, <4>1, <4>2
    <3> QED BY <3>2, <3>3
  <2> QED BY <2>4, <2>5
<1> QED BY <1>1, <1>2

\* The loop of find_elf_sym() comes to an end, with what there is to find.
LEMMA WalkFinds ==
    ASSUME NEW t, Hashed(t), NEW name \in SymNames
    PROVE  \A i \in 0 .. Len(t.syms) : Walk(t, name)[i] = Found(t, name, i)
<1> DEFINE n == Len(t.syms)
           Step(f, i) == IF i = 0 \/ t.syms[i].name = name THEN i ELSE f[t.chain[i]]
           F == [i \in 0 .. n |-> Found(t, name, i)]
           W == Walk(t, name)
<1>0. n \in Nat BY DEF Hashed, TableShape, IsSeq
<1>1. ASSUME NEW i \in 0 .. n PROVE F[i] = Step(F, i)
  <2>1. CASE i = 0 \/ t.syms[i].name = name BY <2>1 DEF Found
  <2>2. CASE ~(i = 0 \/ t.syms[i].name = name)
    <3>1. i \in 1 .. n BY <1>0, <2>2
    <3>2. t.chain[i] \in 0 .. i - 1 /\ Found(t, name, i) = Found(t, name, t.chain[i])
      BY <2>2, <3>1, FoundNext
    <3>3. t.chain[i] \in 0 .. n BY <1>0, <3>1, <3>2
    <3> QED BY <2>2, <3>2, <3>3
  <2> QED BY <2>1, <2>2
<1>2. F = [i \in 0 .. n |-> Step(F, i)]
  <2> HIDE DEF Step
  <2> QED BY <1>1
<1>3. W = CHOOSE h : h = [i \in 0 .. n |-> Step(h, i)] BY DEF Walk
<1>4. W = [i \in 0 .. n |-> Step(W, i)]
  <2> HIDE DEF F, W
  <2> QED BY <1>2, <1>3
<1> DEFINE Bad == {i \in 0 .. n : W[i] # Found(t, name, i)}
<1>5. Bad = {}
  <2> SUFFICES ASSUME Bad # {} PROVE FALSE OBVIOUS
  <2>1. PICK i \in Bad : \A j \in Bad : i <= j
    <3>1. Bad \subseteq Nat BY <1>0
    <3> HIDE DEF Bad
    <3> QED BY <3>1, LeastNat
  <2>2. i \in 0 .. n /\ W[i] # Found(t, name, i) OBVIOUS
  <2>3. W[i] = Step(W, i)
    <3> HIDE DEF W, Step
    <3> QED BY <1>4, <2>2
  <2>4. CASE i = 0 \/ t.syms[i].name = name BY <2>2, <2>3, <2>4 DEF Found
  <2>5. CASE ~(i = 0 \/ t.syms[i].name = name)
    <3>1. i \in 1 .. n BY <1>0, <2>2, <2>5
    <3>2. t.chain[i] \in 0 .. i - 1 /\ Found(t, name, i) = Found(t, name, t.chain[i])
      BY <2>5, <3>1, FoundNext
    <3>3. t.chain[i] \in 0 .. n /\ ~(i <= t.chain[i]) BY <1>0, <3>1, <3>2
    <3>4. t.chain[i] \notin Bad
      <4> HIDE DEF Bad
      <4> QED BY <2>1, <3>3
    <3> HIDE DEF W
    <3> QED BY <2>2, <2>3, <2>5, <3>2, <3>3, <3>4
  <2> QED BY <2>4, <2>5
<1> HIDE DEF W
<1> QED BY <1>5 DEF W

\* A lookup finds the symbol of the name that is not local, if there is one.
LEMMA FindMeans ==
    ASSUME NEW t, Hashed(t), NEW name \in SymNames
    PROVE  \/ FindElfSym(t, name) = 0 /\ Named(t.syms, name) = {}
           \/ FindElfSym(t, name) \in Named(t.syms, name)
<1> DEFINE h == Bucket(name, t.nbuckets)
           b == t.bucket[h]
           In == Chained(t.syms, t.nbuckets, h)
<1>0. Len(t.syms) \in Nat BY DEF Hashed, TableShape, IsSeq
<1>1. h \in 0 .. t.nbuckets - 1 BY BucketIn DEF Hashed, TableShape
<1>2. Top(b, In)
  <2> HIDE DEF h
  <2> QED BY <1>1 DEF Hashed, Chains
<1>3. b \in 0 .. Len(t.syms) BY <1>0, <1>2 DEF Top, Chained
<1>4. FindElfSym(t, name) = Found(t, name, b)
  <2>1. FindElfSym(t, name) = Walk(t, name)[b] BY DEF FindElfSym, Hashed
  <2> QED BY <1>3, <2>1, WalkFinds
<1>5. Named(t.syms, name) \subseteq In BY DEF Named, Chained
<1>6. CASE b = 0
  <2>1. In = {} BY <1>2, <1>6 DEF Top, Chained
  <2> QED BY <1>4, <1>5, <1>6, <2>1 DEF Found
<1>7. CASE b # 0
  <2>1. /\ b \in 1 .. Len(t.syms) /\ ~IsLocal(t.syms[b])
        /\ Bucket(t.syms[b].name, t.nbuckets) = h
    BY <1>2, <1>7 DEF Top, Chained
  <2>2. CASE t.syms[b].name = name
    BY <1>4, <2>1, <2>2 DEF Found, Named
  <2>3. CASE t.syms[b].name # name
    <3> DEFINE X == {j \in Named(t.syms, name) :
                        j < b /\ Bucket(name, t.nbuckets) = Bucket(t.syms[b].name, t.nbuckets)}
    <3>1. Found(t, name, b) = IF X = {} THEN 0 ELSE CHOOSE j \in X : TRUE
      BY <1>7, <2>1, <2>3 DEF Found
    <3>2. Named(t.syms, name) \subseteq X
      <4> SUFFICES ASSUME NEW j \in Named(t.syms, name) PROVE j \in X OBVIOUS
      <4>1. j \in In /\ j \in 1 .. Len(t.syms) BY <1>5 DEF Named
      <4>2. j <= b BY <1>2, <4>1 DEF Top
      <4>3. j # b BY <2>3 DEF Named
      <4> QED BY <1>3, <2>1, <4>1, <4>2, <4>3
    <3>3. X \subseteq Named(t.syms, name) OBVIOUS
    <3> HIDE DEF X
    <3> QED BY <1>4, <3>1, <3>2, <3>3
  <2> QED BY <2>2, <2>3
<1> QED BY <1>6, <1>7

\* So the table is exact, whatever HashExact asks of it.
LEMMA HashedExact ==
    ASSUME NEW t, Hashed(t)
    PROVE  t.hashing /\ HashExact(t)
<1>0. Len(t.syms) \in Nat /\ DOMAIN t.syms = 1 .. Len(t.syms)
  BY DEF Hashed, TableShape, IsSeq
<1>1. t.hashing /\ Len(t.chain) = Len(t.syms) BY DEF Hashed, TableShape
<1>2. ASSUME NEW i \in 1 .. Len(t.syms)
      PROVE  \/ IsLocal(t.syms[i]) /\ i \notin {t.bucket[h] : h \in DOMAIN t.bucket}
             \/ ~IsLocal(t.syms[i]) /\ FindElfSym(t, t.syms[i].name) = i
  <2>1. CASE IsLocal(t.syms[i])
    <3>1. ASSUME NEW h \in DOMAIN t.bucket PROVE t.bucket[h] # i
      <4>1. h \in 0 .. t.nbuckets - 1 BY DEF Hashed, TableShape
      <4>2. Top(t.bucket[h], Chained(t.syms, t.nbuckets, h)) BY <4>1 DEF Hashed, Chains
      <4> QED BY <1>0, <2>1, <4>2 DEF Top, Chained
    <3> QED BY <2>1, <3>1
  <2>2. CASE ~IsLocal(t.syms[i])
    <3>1. t.syms[i].name \in SymNames BY DEF Hashed, TableShape, SymOK
    <3> DEFINE name == t.syms[i].name
               k == FindElfSym(t, name)
    <3>2. i \in Named(t.syms, name) BY <2>2 DEF Named
    <3>3. k \in Named(t.syms, name)
      <4> HIDE DEF name
      <4>1. name \in SymNames BY <3>1 DEF name
      <4> QED BY <3>2, <4>1, FindMeans
    <3>4. k = i
      <4> HIDE DEF k
      <4> QED BY <2>2, <3>3 DEF Named, Hashed, OneEach
    <3> QED BY <2>2, <3>4
  <2> QED BY <2>1, <2>2
<1> QED BY <1>0, <1>1, <1>2 DEF HashExact

-----------------------------------------------------------------------------
(* What put_elf_sym() and set_elf_sym() do to the table.                       *)

\* rebuild_hash() makes chains of any symbols.
LEMMA RebuildChains ==
    ASSUME NEW ys, Len(ys) \in Nat, NEW nb,
           \A i \in 1 .. Len(ys) : Bucket(ys[i].name, nb) \in 0 .. nb - 1,
           NEW bucket, bucket = [h \in 0 .. nb - 1 |-> Max({0} \cup Chained(ys, nb, h))],
           NEW chain,
           chain = [i \in 1 .. Len(ys) |->
                       IF IsLocal(ys[i]) THEN 0
                       ELSE Max({0} \cup {j \in Chained(ys, nb, Bucket(ys[i].name, nb)) : j < i})]
    PROVE  /\ Chains(ys, nb, bucket, chain)
           /\ \A h \in 0 .. nb - 1 : bucket[h] \in Nat
           /\ \A i \in 1 .. Len(ys) : chain[i] \in Nat
<1>1. ASSUME NEW h \in 0 .. nb - 1 PROVE Top(bucket[h], Chained(ys, nb, h))
  <2>1. Chained(ys, nb, h) \subseteq 1 .. Len(ys) BY DEF Chained
  <2>2. bucket[h] = Max({0} \cup Chained(ys, nb, h)) OBVIOUS
  <2> QED BY <2>1, <2>2, MaxIsTop
<1>2. ASSUME NEW i \in 1 .. Len(ys), ~IsLocal(ys[i])
      PROVE  Top(chain[i], {j \in Chained(ys, nb, Bucket(ys[i].name, nb)) : j < i})
  <2> DEFINE X == {j \in Chained(ys, nb, Bucket(ys[i].name, nb)) : j < i}
  <2>1. X \subseteq 1 .. Len(ys) BY DEF Chained
  <2>2. chain[i] = Max({0} \cup X) BY <1>2
  <2> HIDE DEF X
  <2>3. Top(chain[i], X) BY <2>1, <2>2, MaxIsTop
  <2> QED BY <2>3 DEF X
<1>3. ASSUME NEW i \in 1 .. Len(ys), IsLocal(ys[i]) PROVE chain[i] = 0
  BY <1>3
<1>4. Chains(ys, nb, bucket, chain) BY <1>1, <1>2, <1>3 DEF Chains
<1>5. ASSUME NEW h \in 0 .. nb - 1 PROVE bucket[h] \in Nat
  BY <1>1 DEF Top, Chained
<1>6. ASSUME NEW i \in 1 .. Len(ys) PROVE chain[i] \in Nat
  <2>1. CASE IsLocal(ys[i]) BY <2>1, <1>3
  <2>2. CASE ~IsLocal(ys[i]) BY <2>2, <1>2 DEF Top, Chained
  <2> QED BY <2>1, <2>2
<1> QED BY <1>4, <1>5, <1>6

\* Chains of ys, and the symbols zs with one more.
Grown(ys, zs, nb, bucket, chain, chain2) ==
    /\ Len(ys) \in Nat /\ Len(zs) = Len(ys) + 1
    /\ \A i \in 1 .. Len(ys) : zs[i] = ys[i]
    /\ bucket \in [0 .. nb - 1 -> Nat] /\ Chains(ys, nb, bucket, chain)
    /\ \A i \in 1 .. Len(ys) : chain2[i] = chain[i]

\* Chains with one more symbol, put at the head of its chain or on none.
LEMMA AppendChains ==
    ASSUME NEW ys, NEW zs, NEW nb, NEW bucket, NEW chain, NEW chain2,
           Grown(ys, zs, nb, bucket, chain, chain2)
    PROVE  /\ IsLocal(zs[Len(zs)]) /\ chain2[Len(zs)] = 0 => Chains(zs, nb, bucket, chain2)
           /\ \A b \in 0 .. nb - 1 :
                 /\ ~IsLocal(zs[Len(zs)]) /\ b = Bucket(zs[Len(zs)].name, nb)
                 /\ chain2[Len(zs)] = bucket[b]
                 => Chains(zs, nb, [bucket EXCEPT ![b] = Len(zs)], chain2)
<1> USE DEF Grown
<1> DEFINE n == Len(ys)
           z == zs[Len(zs)]
           b == Bucket(z.name, nb)
           Old(h) == Chained(ys, nb, h)
           New(h) == Chained(zs, nb, h)
<1>1. ASSUME NEW h PROVE New(h) = IF ~IsLocal(z) /\ b = h THEN Old(h) \cup {n + 1} ELSE Old(h)
  <2>1. \A i \in 1 .. n : i \in New(h) <=> i \in Old(h) BY DEF Chained
  <2>2. n + 1 \in New(h) <=> ~IsLocal(z) /\ b = h BY DEF Chained
  <2>3. New(h) \subseteq 1 .. n + 1 /\ Old(h) \subseteq 1 .. n BY DEF Chained
  <2>4. n + 1 \notin Old(h) BY <2>3
  <2>5. \A i \in 1 .. n + 1 : i \in 1 .. n \/ i = n + 1 OBVIOUS
  <2> DEFINE A == New(h)
             B == Old(h)
  <2>6. (~IsLocal(z) /\ b = h) => A = B \cup {n + 1}
    <3> HIDE DEF New, Old, n, z, b
    <3> QED BY <2>1, <2>2, <2>3, <2>5
  <2>7. ~(~IsLocal(z) /\ b = h) => A = B
    <3> HIDE DEF New, Old, n, z, b
    <3> QED BY <2>1, <2>2, <2>3, <2>5
  <2> HIDE DEF New, Old, n, z, b
  <2> QED BY <2>6, <2>7
<1>2. \A h : Old(h) \subseteq 1 .. n BY DEF Chained
<1>3. ASSUME NEW i \in 1 .. n, NEW h PROVE {j \in New(h) : j < i} = {j \in Old(h) : j < i}
  <2> HIDE DEF New, Old, b, z
  <2>1. ~(n + 1 < i) OBVIOUS
  <2> QED BY <1>1, <2>1
<1>4. ASSUME NEW i \in 1 .. n
      PROVE  IF IsLocal(zs[i]) THEN chain2[i] = 0
             ELSE Top(chain2[i], {j \in New(Bucket(zs[i].name, nb)) : j < i})
  <2>1. zs[i] = ys[i] /\ chain2[i] = chain[i] OBVIOUS
  <2>2. IF IsLocal(ys[i]) THEN chain[i] = 0
        ELSE Top(chain[i], {j \in Old(Bucket(ys[i].name, nb)) : j < i})
    BY DEF Chains
  <2> HIDE DEF New, Old
  <2> QED BY <1>3, <2>1, <2>2
<1>5. \A i \in 1 .. Len(zs) : i \in 1 .. n \/ i = n + 1 OBVIOUS
<1>6. ASSUME IsLocal(z), chain2[Len(zs)] = 0 PROVE Chains(zs, nb, bucket, chain2)
  <2>1. \A h \in 0 .. nb - 1 : Top(bucket[h], New(h))
    <3> SUFFICES ASSUME NEW h \in 0 .. nb - 1 PROVE Top(bucket[h], New(h)) OBVIOUS
    <3>1. Top(bucket[h], Old(h)) BY DEF Chains
    <3>2. New(h) = Old(h)
      <4> HIDE DEF New, Old, z, b
      <4> QED BY <1>1, <1>6
    <3> HIDE DEF New, Old
    <3> QED BY <3>1, <3>2
  <2> QED BY <1>4, <1>5, <1>6, <2>1 DEF Chains
<1>7. ASSUME ~IsLocal(z), b \in 0 .. nb - 1, chain2[Len(zs)] = bucket[b]
      PROVE  Chains(zs, nb, [bucket EXCEPT ![b] = Len(zs)], chain2)
  <2> DEFINE bucket2 == [bucket EXCEPT ![b] = Len(zs)]
  <2>1. ASSUME NEW h \in 0 .. nb - 1 PROVE Top(bucket2[h], New(h))
    <3>1. Top(bucket[h], Old(h)) BY DEF Chains
    <3>2. CASE h = b
      <4>1. bucket2[h] = n + 1 BY <3>2
      <4>2. New(h) = Old(h) \cup {n + 1}
        <5> HIDE DEF New, Old, z, b
        <5> QED BY <1>1, <1>7, <3>2
      <4>3. \A j \in Old(h) : j <= n + 1 BY <1>2
      <4> HIDE DEF New, Old, bucket2
      <4> QED BY <4>1, <4>2, <4>3 DEF Top
    <3>3. CASE h # b
      <4>1. bucket2[h] = bucket[h] BY <3>3
      <4>2. New(h) = Old(h)
        <5> HIDE DEF New, Old, z, b
        <5> QED BY <1>1, <1>7, <3>3
      <4> HIDE DEF New, Old, bucket2
      <4> QED BY <3>1, <4>1, <4>2
    <3> QED BY <3>2, <3>3
  <2>2. Top(chain2[Len(zs)], {j \in New(b) : j < Len(zs)})
    <3>1. Top(bucket[b], Old(b)) BY <1>7 DEF Chains
    <3>2. {j \in New(b) : j < n + 1} = Old(b)
      <4>1. New(b) = Old(b) \cup {n + 1}
        <5> HIDE DEF New, Old, z, b
        <5> QED BY <1>1, <1>7
      <4>2. \A j \in Old(b) : j < n + 1 BY <1>2
      <4>3. ~(n + 1 < n + 1) OBVIOUS
      <4> HIDE DEF New, Old
      <4> QED BY <4>1, <4>2, <4>3
    <3> HIDE DEF New, Old
    <3> QED BY <1>7, <3>1, <3>2
  <2> HIDE DEF bucket2
  <2>3. Chains(zs, nb, bucket2, chain2)
    BY <1>4, <1>5, <1>7, <2>1, <2>2 DEF Chains
  <2> QED BY <2>3 DEF bucket2
<1> QED BY <1>6, <1>7

Table(ys, nb, bucket, chain, hashed, on) ==
    [syms |-> ys, nbuckets |-> nb, bucket |-> bucket, chain |-> chain, hashed |-> hashed,
     hashing |-> on]

\* A table from its parts, and the parts of one.
LEMMA MakeHashed ==
    ASSUME NEW ys, NEW nb \in Nat \ {0}, NEW bucket, NEW chain \in Seq(Nat), NEW hashed \in Nat, NEW on,
           on = TRUE, IsSeq(ys), Len(chain) = Len(ys), bucket \in [0 .. nb - 1 -> Nat],
           \A i \in 1 .. Len(ys) : SymOK(ys[i]), OneEach(ys), Chains(ys, nb, bucket, chain)
    PROVE  Hashed(Table(ys, nb, bucket, chain, hashed, on))
<1> DEFINE t == Table(ys, nb, bucket, chain, hashed, on)
<1>1. /\ t.syms = ys /\ t.nbuckets = nb /\ t.bucket = bucket /\ t.chain = chain
      /\ t.hashed = hashed /\ t.hashing = on
  BY DEF Table
<1>2. t = [syms |-> t.syms, nbuckets |-> t.nbuckets, bucket |-> t.bucket,
           chain |-> t.chain, hashed |-> t.hashed, hashing |-> t.hashing]
  BY DEF Table
<1> HIDE DEF t
<1>3. TableShape(t) BY <1>1, <1>2 DEF TableShape
<1>4. Hashed(t) BY <1>1, <1>3 DEF Hashed
<1> QED BY <1>4 DEF t

LEMMA HashedTable ==
    ASSUME NEW t, Hashed(t)
    PROVE  t = Table(t.syms, t.nbuckets, t.bucket, t.chain, t.hashed, t.hashing)
BY DEF Hashed, TableShape, Table

\* One more symbol, of a new name if it is not local.
LEMMA OneMore ==
    ASSUME NEW ys, IsSeq(ys), OneEach(ys), \A i \in 1 .. Len(ys) : SymOK(ys[i]),
           NEW y, SymOK(y), ~IsLocal(y) => Named(ys, y.name) = {}
    PROVE  /\ OneEach(Append(ys, y))
           /\ \A i \in 1 .. Len(Append(ys, y)) : SymOK(Append(ys, y)[i])
<1> DEFINE zs == Append(ys, y)
           n == Len(ys)
<1>1. /\ n \in Nat /\ Len(zs) = n + 1 /\ zs[n + 1] = y
      /\ \A i \in 1 .. n : zs[i] = ys[i]
  BY AppendIsSeq
<1>2. \A i \in 1 .. n + 1 : i \in 1 .. n \/ i = n + 1 BY <1>1
<1> HIDE DEF zs
<1>3. \A i \in 1 .. Len(zs) : SymOK(zs[i]) BY <1>1, <1>2
<1>4. ASSUME NEW i \in 1 .. Len(zs), NEW j \in 1 .. Len(zs),
             ~IsLocal(zs[i]), ~IsLocal(zs[j]), zs[i].name = zs[j].name
      PROVE  i = j
  <2>1. CASE i \in 1 .. n /\ j \in 1 .. n BY <1>1, <1>4, <2>1 DEF OneEach
  <2>2. CASE i \in 1 .. n /\ j = n + 1 BY <1>1, <1>4, <2>2 DEF Named
  <2>3. CASE i = n + 1 /\ j \in 1 .. n BY <1>1, <1>4, <2>3 DEF Named
  <2>4. CASE i = n + 1 /\ j = n + 1 BY <2>4
  <2> QED BY <1>1, <1>2, <2>1, <2>2, <2>3, <2>4
<1>5. OneEach(zs) BY <1>4 DEF OneEach
<1> QED BY <1>3, <1>5 DEF zs

\* put_elf_sym() on the parts of a table.
LEMMA PutTable ==
    ASSUME NEW ys, NEW nb, NEW bucket, NEW chain, NEW hashed, NEW on, NEW y,
           NEW t, t = Table(ys, nb, bucket, chain, hashed, on),
           NEW h, h = Bucket(y.name, nb),
           NEW t2, t2 = Table(Append(ys, y), nb, [bucket EXCEPT ![h] = Len(Append(ys, y))],
                              Append(chain, bucket[h]), hashed + 1, on)
    PROVE  /\ IsLocal(y) => PutElfSym(t, y) =
                               Table(Append(ys, y), nb, bucket, Append(chain, 0), hashed, on)
           /\ ~IsLocal(y) => PutElfSym(t, y) =
                               IF hashed + 1 > 2 * nb THEN RebuildHash(t2, 2 * nb) ELSE t2
<1> DEFINE zs == Append(ys, y)
           heads == [bucket EXCEPT ![h] = Len(zs)]
           more == Append(chain, bucket[h])
           none == Append(chain, 0)
           t1 == [t EXCEPT !.syms = Append(@, y)]
           u == [t1 EXCEPT !.chain = Append(@, t.bucket[Bucket(y.name, t.nbuckets)]),
                           !.bucket = [@ EXCEPT ![Bucket(y.name, t.nbuckets)] = Len(t1.syms)],
                           !.hashed = @ + 1]
<1>1. /\ t.syms = ys /\ t.bucket = bucket /\ t.chain = chain /\ t.hashed = hashed
      /\ t.nbuckets = nb
  BY DEF Table
<1>2. t1 = Table(zs, nb, bucket, chain, hashed, on)
  <2>1. t1 = [t EXCEPT !.syms = zs] BY <1>1
  <2> HIDE DEF zs, t1
  <2> QED BY <2>1 DEF Table
<1>3. t1.syms = zs /\ t1.bucket = bucket /\ t1.chain = chain /\ t1.hashed = hashed
  <2> HIDE DEF zs, t1
  <2> QED BY <1>2 DEF Table
<1>4. [t1 EXCEPT !.chain = Append(@, 0)] = Table(zs, nb, bucket, none, hashed, on)
  <2>1. [t1 EXCEPT !.chain = Append(@, 0)] = [t1 EXCEPT !.chain = none]
    <3> HIDE DEF t1
    <3> QED BY <1>3
  <2> HIDE DEF zs, none, t1
  <2>2. [t1 EXCEPT !.chain = none] = Table(zs, nb, bucket, none, hashed, on) BY <1>2 DEF Table
  <2> QED BY <2>1, <2>2
<1>5. u = Table(zs, nb, heads, more, hashed + 1, on)
  <2> DEFINE next == hashed + 1
  <2>1. u = [t1 EXCEPT !.chain = more, !.bucket = heads, !.hashed = next]
    <3> HIDE DEF t1
    <3> QED BY <1>1, <1>3
  <2> HIDE DEF zs, heads, more, t1, u, next
  <2>2. u = Table(zs, nb, heads, more, next, on) BY <1>2, <2>1 DEF Table
  <2> QED BY <2>2 DEF next
<1>6. u.hashed = hashed + 1 /\ u.nbuckets = nb
  <2> HIDE DEF zs, heads, more, u
  <2> QED BY <1>5 DEF Table
<1>7. PutElfSym(t, y) = IF IsLocal(y) THEN [t1 EXCEPT !.chain = Append(@, 0)]
                        ELSE IF u.hashed > 2 * u.nbuckets THEN RebuildHash(u, 2 * u.nbuckets)
                        ELSE u
  BY DEF PutElfSym
<1>8. u = t2
  <2> HIDE DEF u
  <2> QED BY <1>5
<1> HIDE DEF u, t1
<1> QED BY <1>4, <1>6, <1>7, <1>8

LEMMA PutHashed ==
    ASSUME NEW t, Hashed(t), NEW y, SymOK(y), ~IsLocal(y) => Named(t.syms, y.name) = {}
    PROVE  /\ Hashed(PutElfSym(t, y))
           /\ PutElfSym(t, y).syms = Append(t.syms, y)
<1> DEFINE ys == t.syms
           zs == Append(t.syms, y)
           n == Len(ys)
           nb == t.nbuckets
           h == Bucket(y.name, nb)
           old == t.bucket
           on == t.hashing
           heads == [old EXCEPT ![h] = Len(zs)]
           more == Append(t.chain, old[h])
           none == Append(t.chain, 0)
<1>1. /\ IsSeq(ys) /\ t.chain \in Seq(Nat) /\ Len(t.chain) = n /\ nb \in Nat \ {0}
      /\ t.hashed \in Nat /\ on = TRUE /\ old \in [0 .. nb - 1 -> Nat]
      /\ OneEach(ys) /\ Chains(ys, nb, old, t.chain)
      /\ \A i \in 1 .. n : SymOK(ys[i])
  BY DEF Hashed, TableShape
<1>2. /\ IsSeq(zs) /\ n \in Nat /\ Len(zs) = n + 1 /\ zs[n + 1] = y
      /\ \A i \in 1 .. n : zs[i] = ys[i]
  BY <1>1, AppendIsSeq
<1>3. OneEach(zs) /\ \A i \in 1 .. Len(zs) : SymOK(zs[i]) BY <1>1, OneMore
<1>4. h \in 0 .. nb - 1 BY <1>1, BucketIn DEF SymOK
<1>5. t = Table(ys, nb, old, t.chain, t.hashed, on) BY HashedTable
<1>6. CASE IsLocal(y)
  <2>1. PutElfSym(t, y) = Table(zs, nb, old, none, t.hashed, on)
    <3> HIDE DEF zs, nb, old, ys, none, on
    <3> DEFINE t2 == Table(Append(ys, y), nb, [old EXCEPT ![h] = Len(Append(ys, y))],
                           Append(t.chain, old[h]), t.hashed + 1, on)
    <3> HIDE DEF t2, h
    <3>1. /\ IsLocal(y) => PutElfSym(t, y) =
                               Table(Append(ys, y), nb, old, Append(t.chain, 0), t.hashed, on)
          /\ ~IsLocal(y) => PutElfSym(t, y) =
                               IF t.hashed + 1 > 2 * nb THEN RebuildHash(t2, 2 * nb) ELSE t2
      BY <1>5, PutTable DEF t2, h
    <3> QED BY <1>6, <3>1 DEF zs, none, ys
  <2>2. /\ none \in Seq(Nat) /\ Len(none) = n + 1 /\ none[n + 1] = 0
        /\ \A i \in 1 .. n : none[i] = t.chain[i]
    BY <1>1
  <2> HIDE DEF zs, none, heads, more, nb, old, ys, on
  <2>3. Chains(zs, nb, old, none)
    <3>1. old \in [0 .. nb - 1 -> Nat] BY <1>1
    <3>2. IsLocal(zs[Len(zs)]) /\ none[Len(zs)] = 0 BY <1>2, <1>6, <2>2
    <3>3. Len(ys) \in Nat /\ Len(zs) = Len(ys) + 1 /\ \A i \in 1 .. Len(ys) : zs[i] = ys[i]
      BY <1>2
    <3>4. \A i \in 1 .. Len(ys) : none[i] = t.chain[i] BY <2>2
    <3>5. Chains(ys, nb, old, t.chain) BY <1>1
    <3> HIDE DEF n
    <3>6. Grown(ys, zs, nb, old, t.chain, none) BY <3>1, <3>3, <3>4, <3>5 DEF Grown
    <3> QED BY <3>2, <3>6, AppendChains
  <2>4. Hashed(Table(zs, nb, old, none, t.hashed, on))
    BY <1>1, <1>2, <1>3, <2>2, <2>3, MakeHashed
  <2>5. Table(zs, nb, old, none, t.hashed, on).syms = zs BY DEF Table
  <2> QED BY <2>1, <2>4, <2>5 DEF zs
<1>7. CASE ~IsLocal(y)
  <2> DEFINE t2 == Table(zs, nb, heads, more, t.hashed + 1, on)
  <2>1. PutElfSym(t, y) = IF t2.hashed > 2 * t2.nbuckets THEN RebuildHash(t2, 2 * t2.nbuckets)
                          ELSE t2
    <3>1. t2.hashed = t.hashed + 1 /\ t2.nbuckets = nb BY DEF Table
    <3> HIDE DEF ys, nb, old, on, h, t2
    <3>2. /\ IsLocal(y) => PutElfSym(t, y) =
                               Table(Append(ys, y), nb, old, Append(t.chain, 0), t.hashed, on)
          /\ ~IsLocal(y) => PutElfSym(t, y) =
                               IF t.hashed + 1 > 2 * nb THEN RebuildHash(t2, 2 * nb) ELSE t2
      <4>1. t2 = Table(Append(ys, y), nb, [old EXCEPT ![h] = Len(Append(ys, y))],
                           Append(t.chain, old[h]), t.hashed + 1, on)
        BY DEF t2, zs, ys
      <4>2. h = Bucket(y.name, nb) BY DEF h
      <4> QED BY <1>5, <4>1, <4>2, PutTable
    <3> QED BY <1>7, <3>1, <3>2
  <2>2. /\ more \in Seq(Nat) /\ Len(more) = n + 1 /\ more[n + 1] = old[h]
        /\ \A i \in 1 .. n : more[i] = t.chain[i]
    <3>1. old[h] \in Nat BY <1>1, <1>4
    <3> HIDE DEF h, old
    <3> QED BY <1>1, <3>1
  <2>3. /\ t2.nbuckets = nb /\ t2.syms = zs /\ t2.hashed = t.hashed + 1 BY DEF Table
  <2>4. CASE ~(t2.hashed > 2 * t2.nbuckets)
    <3>1. PutElfSym(t, y) = t2
      <4> HIDE DEF t2
      <4> QED BY <2>1, <2>4
    <3> HIDE DEF zs, none, more, nb, old, ys, h, on
    <3>2. Chains(zs, nb, heads, more)
      <4>1. old \in [0 .. nb - 1 -> Nat] BY <1>1
      <4>2. h = Bucket(zs[Len(zs)].name, nb) /\ zs[Len(zs)] = y BY <1>2 DEF h
      <4>3. more[Len(zs)] = old[h] BY <1>2, <2>2
      <4>4. Len(ys) \in Nat /\ Len(zs) = Len(ys) + 1 /\ \A i \in 1 .. Len(ys) : zs[i] = ys[i]
        BY <1>2
      <4>5. \A i \in 1 .. Len(ys) : more[i] = t.chain[i] BY <2>2
      <4>6. Chains(ys, nb, old, t.chain) /\ ~IsLocal(zs[Len(zs)]) BY <1>1, <1>7, <4>2
      <4> HIDE DEF n
      <4>7. Grown(ys, zs, nb, old, t.chain, more) BY <4>1, <4>4, <4>5, <4>6 DEF Grown
      <4> QED BY <1>4, <4>2, <4>3, <4>6, <4>7, AppendChains
    <3>3. heads \in [0 .. nb - 1 -> Nat] BY <1>1, <1>2, <1>4
    <3> HIDE DEF heads
    <3>4. t.hashed + 1 \in Nat BY <1>1
    <3>5. Hashed(t2) BY <1>1, <1>2, <1>3, <2>2, <3>2, <3>3, <3>4, MakeHashed
    <3> QED BY <2>3, <3>1, <3>5 DEF zs
  <2>5. CASE t2.hashed > 2 * t2.nbuckets
    <3> DEFINE nb2 == 2 * nb
               bucket2 == [k \in 0 .. nb2 - 1 |-> Max({0} \cup Chained(zs, nb2, k))]
               chain2 == [i \in 1 .. Len(zs) |->
                             IF IsLocal(zs[i]) THEN 0
                             ELSE Max({0} \cup {j \in Chained(zs, nb2, Bucket(zs[i].name, nb2)) : j < i})]
    <3>1. PutElfSym(t, y) = RebuildHash(t2, nb2)
      <4> HIDE DEF t2
      <4> QED BY <2>1, <2>3, <2>5
    <3>2. RebuildHash(t2, nb2) = Table(zs, nb2, bucket2, chain2, t.hashed + 1, on)
      <4>1. RebuildHash(t2, nb2) =
               [t2 EXCEPT !.nbuckets = nb2, !.bucket = bucket2, !.chain = chain2]
        <5> HIDE DEF t2, zs
        <5> QED BY <2>3 DEF RebuildHash, Chained
      <4> HIDE DEF zs, nb2, bucket2, chain2, heads, more, on
      <4> QED BY <4>1 DEF Table
    <3>3. nb2 \in Nat \ {0} BY <1>1
    <3> HIDE DEF nb2, zs
    <3>4. \A i \in 1 .. Len(zs) : Bucket(zs[i].name, nb2) \in 0 .. nb2 - 1
      BY <1>3, <3>3, BucketIn DEF SymOK
    <3>5. Len(zs) \in Nat BY <1>2
    <3>6. bucket2 = [k \in 0 .. nb2 - 1 |-> Max({0} \cup Chained(zs, nb2, k))] OBVIOUS
    <3>7. chain2 = [i \in 1 .. Len(zs) |->
                      IF IsLocal(zs[i]) THEN 0
                      ELSE Max({0} \cup {j \in Chained(zs, nb2, Bucket(zs[i].name, nb2)) : j < i})]
      OBVIOUS
    <3> HIDE DEF bucket2, chain2
    <3>8. /\ Chains(zs, nb2, bucket2, chain2)
          /\ \A k \in 0 .. nb2 - 1 : bucket2[k] \in Nat
          /\ \A i \in 1 .. Len(zs) : chain2[i] \in Nat
      BY <3>4, <3>5, <3>6, <3>7, RebuildChains
    <3>9. bucket2 \in [0 .. nb2 - 1 -> Nat] /\ chain2 \in Seq(Nat) /\ Len(chain2) = Len(zs)
      <4>1. bucket2 = [k \in 0 .. nb2 - 1 |-> bucket2[k]] BY <3>6
      <4>2. chain2 = [i \in 1 .. Len(zs) |-> chain2[i]] BY <3>7
      <4> QED BY <3>5, <3>8, <4>1, <4>2
    <3>10. t.hashed + 1 \in Nat BY <1>1
    <3>11. Hashed(Table(zs, nb2, bucket2, chain2, t.hashed + 1, on))
      BY <1>1, <1>2, <1>3, <3>3, <3>8, <3>9, <3>10, MakeHashed
    <3>12. Table(zs, nb2, bucket2, chain2, t.hashed + 1, on).syms = zs BY DEF Table
    <3> QED BY <3>1, <3>2, <3>11, <3>12 DEF zs
  <2> QED BY <2>4, <2>5
<1> QED BY <1>6, <1>7

\* Symbols that differ in nothing that the hash table depends on.
Alike(ys, zs) ==
    /\ IsSeq(zs) /\ Len(zs) = Len(ys)
    /\ \A i \in 1 .. Len(ys) :
          /\ zs[i].name = ys[i].name /\ (IsLocal(zs[i]) <=> IsLocal(ys[i]))
          /\ SymOK(zs[i])

LEMMA AlikeHashed ==
    ASSUME NEW t, Hashed(t), NEW zs, Alike(t.syms, zs)
    PROVE  Hashed([t EXCEPT !.syms = zs]) /\ [t EXCEPT !.syms = zs].syms = zs
<1> DEFINE ys == t.syms
           nb == t.nbuckets
           u == Table(zs, nb, t.bucket, t.chain, t.hashed, t.hashing)
<1>1. /\ IsSeq(ys) /\ t.chain \in Seq(Nat) /\ Len(t.chain) = Len(ys) /\ nb \in Nat \ {0}
      /\ t.hashed \in Nat /\ t.hashing = TRUE /\ t.bucket \in [0 .. nb - 1 -> Nat]
      /\ OneEach(ys) /\ Chains(ys, nb, t.bucket, t.chain)
  BY DEF Hashed, TableShape
<1>2. t = Table(ys, nb, t.bucket, t.chain, t.hashed, t.hashing) BY HashedTable
<1>3. [t EXCEPT !.syms = zs] = u
  <2> DEFINE bucket == t.bucket
             chain == t.chain
             hashed == t.hashed
             on == t.hashing
  <2> HIDE DEF ys, nb, bucket, chain, hashed, on
  <2>1. t = Table(ys, nb, bucket, chain, hashed, on) BY <1>2 DEF bucket, chain, hashed, on
  <2>2. [t EXCEPT !.syms = zs] = Table(zs, nb, bucket, chain, hashed, on) BY <2>1 DEF Table
  <2> QED BY <2>2 DEF bucket, chain, hashed, on
<1>4. \A h : Chained(zs, nb, h) = Chained(ys, nb, h) BY DEF Alike, Chained
<1>5. Chains(zs, nb, t.bucket, t.chain)
  <2>1. \A h \in 0 .. nb - 1 : Top(t.bucket[h], Chained(zs, nb, h)) BY <1>1, <1>4 DEF Chains
  <2>2. ASSUME NEW i \in 1 .. Len(zs)
        PROVE  IF IsLocal(zs[i]) THEN t.chain[i] = 0
               ELSE Top(t.chain[i], {j \in Chained(zs, nb, Bucket(zs[i].name, nb)) : j < i})
    <3>1. i \in 1 .. Len(ys) /\ zs[i].name = ys[i].name /\ (IsLocal(zs[i]) <=> IsLocal(ys[i]))
      BY DEF Alike
    <3>2. IF IsLocal(ys[i]) THEN t.chain[i] = 0
          ELSE Top(t.chain[i], {j \in Chained(ys, nb, Bucket(ys[i].name, nb)) : j < i})
      BY <1>1, <3>1 DEF Chains
    <3> QED BY <1>4, <3>1, <3>2
  <2> QED BY <2>1, <2>2 DEF Chains
<1>6. OneEach(zs) BY <1>1 DEF Alike, OneEach
<1>7. \A i \in 1 .. Len(zs) : SymOK(zs[i]) BY DEF Alike
<1>8. IsSeq(zs) /\ Len(t.chain) = Len(zs) BY <1>1 DEF Alike
<1>9. Hashed(u)
  <2> HIDE DEF nb, u
  <2> QED BY <1>1, <1>5, <1>6, <1>7, <1>8, MakeHashed DEF u
<1>10. u.syms = zs BY DEF Table
<1> HIDE DEF u
<1> QED BY <1>3, <1>9, <1>10

\* Two symbols of a name are merged into one of that name.
LEMMA MergedKeeps ==
    ASSUME NEW e, NEW y, NEW bss, SymOK(e), SymOK(y), e.name = y.name, ~IsLocal(e), ~IsLocal(y)
    PROVE  /\ SymOK(Merged(e, y, bss)) /\ Merged(e, y, bss).name = e.name
           /\ ~IsLocal(Merged(e, y, bss))
<1> DEFINE v == MergeVis(e.vis, y.vis)
           a == [y EXCEPT !.vis = v, !.asm = e.asm]
           b == [e EXCEPT !.vis = v]
<1>1. Merged(e, y, bss) \in {e, y, a, b} BY DEF Merged
<1>2. SymOK(a) /\ a.name = e.name /\ ~IsLocal(a)
  <2>1. DOMAIN a = DOMAIN y OBVIOUS
  <2>2. "name" \in DOMAIN y /\ "bind" \in DOMAIN y BY DEF SymOK, SymFields
  <2>3. a.name = y.name /\ a.bind = y.bind BY <2>2
  <2> HIDE DEF a
  <2> QED BY <2>1, <2>3 DEF SymOK, IsLocal
<1>3. SymOK(b) /\ b.name = e.name /\ ~IsLocal(b)
  <2>1. DOMAIN b = DOMAIN e OBVIOUS
  <2>2. "name" \in DOMAIN e /\ "bind" \in DOMAIN e BY DEF SymOK, SymFields
  <2>3. b.name = e.name /\ b.bind = e.bind BY <2>2
  <2> HIDE DEF b
  <2> QED BY <2>1, <2>3 DEF SymOK, IsLocal
<1> HIDE DEF a, b
<1> QED BY <1>1, <1>2, <1>3

\* A symbol comes in: it is new, or it meets the one of its name.
Appended(ys, y, zs) ==
    zs = Append(ys, y) /\ (~IsLocal(y) => Named(ys, y.name) = {})
Joined(ys, y, i, bss, zs) ==
    /\ ~IsLocal(y) /\ i \in Named(ys, y.name)
    /\ zs = [ys EXCEPT ![i] = Merged(ys[i], y, bss)]

LEMMA SetHashed ==
    ASSUME NEW t, Hashed(t), NEW y, SymOK(y), NEW bss
    PROVE  /\ Hashed(SetElfSym(t, y, bss))
           /\ \/ /\ Appended(t.syms, y, SetElfSym(t, y, bss).syms)
                 /\ SymIndex(t, y) = Len(t.syms) + 1
              \/ Joined(t.syms, y, SymIndex(t, y), bss, SetElfSym(t, y, bss).syms)
<1> DEFINE i == Known(t, y)
           ys == t.syms
<1>0. y.name \in SymNames BY DEF SymOK
<1>1. CASE i = 0
  <2>1. ~IsLocal(y) => Named(ys, y.name) = {}
    <3> SUFFICES ASSUME ~IsLocal(y) PROVE Named(ys, y.name) = {} OBVIOUS
    <3>1. FindElfSym(t, y.name) = 0 BY <1>1 DEF Known
    <3> QED BY <1>0, <3>1, FindMeans DEF Named
  <2>2. SetElfSym(t, y, bss) = PutElfSym(t, y) /\ SymIndex(t, y) = Len(ys) + 1
    BY <1>1 DEF SetElfSym, SymIndex
  <2>3. Hashed(PutElfSym(t, y)) /\ PutElfSym(t, y).syms = Append(ys, y)
    BY <2>1, PutHashed
  <2> QED BY <2>1, <2>2, <2>3 DEF Appended
<1>2. CASE i # 0
  <2>1. ~IsLocal(y) /\ i = FindElfSym(t, y.name) BY <1>2 DEF Known
  <2>2. i \in Named(ys, y.name) BY <1>0, <1>2, <2>1, FindMeans
  <2> DEFINE zs == [ys EXCEPT ![i] = Merged(ys[i], y, bss)]
  <2>3. SetElfSym(t, y, bss) = [t EXCEPT !.syms = zs] /\ SymIndex(t, y) = i
    <3>1. SymIndex(t, y) = i BY <1>2 DEF SymIndex
    <3>2. SetElfSym(t, y, bss) =
            IF i = 0 THEN PutElfSym(t, y)
            ELSE [t EXCEPT !.syms = [t.syms EXCEPT ![i] = Merged(t.syms[i], y, bss)]]
      BY DEF SetElfSym
    <3> HIDE DEF i
    <3> QED BY <1>2, <3>1, <3>2
  <2> HIDE DEF i
  <2>4. /\ IsSeq(ys) /\ \A j \in 1 .. Len(ys) : SymOK(ys[j]) BY DEF Hashed, TableShape
  <2>5. /\ Len(ys) \in Nat /\ DOMAIN ys = 1 .. Len(ys) BY <2>4, SeqIsFcn
  <2>6. i \in 1 .. Len(ys) /\ ~IsLocal(ys[i]) /\ ys[i].name = y.name BY <2>2 DEF Named
  <2>7. /\ SymOK(Merged(ys[i], y, bss)) /\ Merged(ys[i], y, bss).name = ys[i].name
        /\ ~IsLocal(Merged(ys[i], y, bss))
    BY <2>1, <2>4, <2>6, MergedKeeps
  <2>8. Alike(ys, zs)
    <3>1. zs = [j \in 1 .. Len(ys) |-> zs[j]] BY <2>5
    <3>2. IsSeq(zs) /\ Len(zs) = Len(ys)
      <4> HIDE DEF zs
      <4> QED BY <2>5, <3>1, FcnIsSeq
    <3>3. ASSUME NEW j \in 1 .. Len(ys)
          PROVE  /\ zs[j].name = ys[j].name /\ (IsLocal(zs[j]) <=> IsLocal(ys[j]))
                 /\ SymOK(zs[j])
      <4>1. CASE j = i
        <5>1. zs[j] = Merged(ys[i], y, bss) BY <2>5, <4>1
        <5> HIDE DEF zs
        <5> QED BY <2>6, <2>7, <4>1, <5>1
      <4>2. CASE j # i
        <5>1. zs[j] = ys[j] BY <2>5, <4>2
        <5> HIDE DEF zs
        <5> QED BY <2>4, <5>1
      <4> QED BY <4>1, <4>2
    <3> HIDE DEF zs
    <3> QED BY <3>2, <3>3 DEF Alike
  <2>9. Joined(ys, y, i, bss, zs) BY <2>1, <2>2 DEF Joined
  <2> HIDE DEF zs
  <2>10. Hashed([t EXCEPT !.syms = zs]) /\ [t EXCEPT !.syms = zs].syms = zs
    BY <2>8, AlikeHashed
  <2> QED BY <2>3, <2>9, <2>10
<1> QED BY <1>1, <1>2

-----------------------------------------------------------------------------
(* All symbols of a file, one after the other.                                 *)

\* set_elf_sym() in turn: every table comes from the one before.
LEMMA SetInTurnSteps ==
    ASSUME NEW t, NEW ys, Len(ys) \in Nat, NEW bss
    PROVE  /\ SetInTurn(t, ys, bss)[0] = t
           /\ \A k \in 1 .. Len(ys) :
                 SetInTurn(t, ys, bss)[k] = SetElfSym(SetInTurn(t, ys, bss)[k - 1], ys[k], bss)
<1> DEFINE n == Len(ys)
           Step(f, k) == IF k = 0 THEN t ELSE SetElfSym(f[k - 1], ys[k], bss)
           Runs(f, m) == \A k \in 0 .. m : f[k] = Step(f, k)
           Bad == {m \in Nat : ~ \E f : Runs(f, m)}
           W == SetInTurn(t, ys, bss)
<1>1. Bad = {}
  <2> SUFFICES ASSUME Bad # {} PROVE FALSE OBVIOUS
  <2>1. PICK m \in Bad : \A l \in Bad : m <= l
    <3>1. Bad \subseteq Nat OBVIOUS
    <3> HIDE DEF Bad
    <3> QED BY <3>1, LeastNat
  <2>2. CASE m = 0
    <3>1. Runs([k \in 0 .. 0 |-> t], 0) OBVIOUS
    <3> QED BY <2>1, <2>2, <3>1
  <2>3. CASE m # 0
    <3>0. m - 1 \in Nat /\ ~(m <= m - 1) BY <2>1, <2>3
    <3>1. m - 1 \notin Bad
      <4> HIDE DEF Bad
      <4> QED BY <2>1, <3>0
    <3>2. PICK f : Runs(f, m - 1) BY <3>0, <3>1
    <3> DEFINE last == SetElfSym(f[m - 1], ys[m], bss)
               g == [k \in 0 .. m |-> IF k = m THEN last ELSE f[k]]
    <3>4. ASSUME NEW k \in 0 .. m PROVE g[k] = Step(g, k)
      <4> HIDE DEF last
      <4>1. CASE k = m
        <5>1. g[k] = last /\ g[m - 1] = f[m - 1] BY <3>0, <4>1
        <5> HIDE DEF g
        <5> QED BY <2>3, <4>1, <5>1 DEF last
      <4>2. CASE k # m
        <5>1. k \in 0 .. m - 1 /\ g[k] = f[k] BY <3>0, <4>2
        <5>2. k # 0 => g[k - 1] = f[k - 1] BY <3>0, <5>1
        <5> HIDE DEF g
        <5> QED BY <3>2, <5>1, <5>2
      <4> QED BY <4>1, <4>2
    <3>5. Runs(g, m)
      <4> HIDE DEF g, Step
      <4> QED BY <3>4
    <3> HIDE DEF Runs
    <3> QED BY <2>1, <3>5
  <2> QED BY <2>2, <2>3
<1>2. PICK f : Runs(f, n) BY <1>1
<1> DEFINE F == [k \in 0 .. n |-> f[k]]
<1>3. F = [k \in 0 .. n |-> Step(F, k)]
  <2>1. ASSUME NEW k \in 0 .. n PROVE F[k] = Step(F, k)
    <3>1. F[k] = f[k] /\ (k # 0 => F[k - 1] = f[k - 1]) OBVIOUS
    <3>2. f[k] = Step(f, k) BY <1>2
    <3> HIDE DEF F
    <3> QED BY <3>1, <3>2
  <2> HIDE DEF Step
  <2> QED BY <2>1
<1>4. W = CHOOSE h : h = [k \in 0 .. n |-> Step(h, k)] BY DEF SetInTurn
<1>5. W = [k \in 0 .. n |-> Step(W, k)]
  <2> HIDE DEF W, F
  <2> QED BY <1>3, <1>4
<1>6. ASSUME NEW k \in 0 .. n PROVE W[k] = Step(W, k)
  <2> HIDE DEF W
  <2> QED BY <1>5
<1>7. W[0] = t
  <2> HIDE DEF W
  <2> QED BY <1>6
<1>8. ASSUME NEW k \in 1 .. n PROVE W[k] = SetElfSym(W[k - 1], ys[k], bss)
  <2> HIDE DEF W
  <2>1. k \in 0 .. n /\ k # 0 OBVIOUS
  <2> QED BY <1>6, <2>1
<1> QED BY <1>7, <1>8

LEMMA TurnHashed ==
    ASSUME NEW t, Hashed(t), NEW ys, IsSeq(ys), \A k \in 1 .. Len(ys) : SymOK(ys[k]), NEW bss
    PROVE  \A k \in 0 .. Len(ys) : Hashed(SetInTurn(t, ys, bss)[k])
<1> DEFINE n == Len(ys)
           W == SetInTurn(t, ys, bss)
           Bad == {k \in 0 .. n : ~Hashed(W[k])}
<1>0. n \in Nat BY SeqIsFcn
<1>1. W[0] = t /\ \A k \in 1 .. n : W[k] = SetElfSym(W[k - 1], ys[k], bss)
  BY <1>0, SetInTurnSteps
<1> HIDE DEF W
<1>2. Bad = {}
  <2> SUFFICES ASSUME Bad # {} PROVE FALSE OBVIOUS
  <2>1. PICK k \in Bad : \A l \in Bad : k <= l
    <3>1. Bad \subseteq Nat BY <1>0
    <3> HIDE DEF Bad
    <3> QED BY <3>1, LeastNat
  <2>2. k \in 0 .. n /\ ~Hashed(W[k]) OBVIOUS
  <2>3. k # 0 BY <1>1, <2>2
  <2>4. k \in 1 .. n /\ k - 1 \in 0 .. n /\ ~(k <= k - 1) BY <1>0, <2>2, <2>3
  <2>5. k - 1 \notin Bad
    <3> HIDE DEF Bad
    <3> QED BY <2>1, <2>4
  <2>6. Hashed(W[k - 1]) BY <2>4, <2>5
  <2>7. Hashed(SetElfSym(W[k - 1], ys[k], bss)) BY <2>4, <2>6, SetHashed
  <2> QED BY <1>1, <2>2, <2>4, <2>7
<1> QED BY <1>2 DEF W

-----------------------------------------------------------------------------
(* Which definition a name has.                                                *)

Binds == {"LOCAL", "GLOBAL", "WEAK"}

\* A symbol of the table, or of a file.
SymTyped(y) == SymOK(y) /\ y.bind \in Binds /\ y.asm = FALSE /\ y.sec \in Int /\ y.sec >= COMMON

\* A definition that is neither absolute nor hidden unless it is weak: the
\* others do not take the place of a common symbol that came before them.
Plain(y) ==
    y.sec # UNDEF /\ y.bind = "GLOBAL" => y.vis \notin {HIDDEN, INTERNAL} /\ y.sec # ABS

LEMMA RankIn ==
    ASSUME NEW y
    PROVE  Rank(y) \in {1, 2, 3, 4} /\ (Rank(y) = 1 <=> y.sec = UNDEF)
BY DEF Rank

\* The stronger of two symbols wins, the first of two that are as strong.
LEMMA RankMerged ==
    ASSUME NEW e, NEW y, SymTyped(e), SymTyped(y), Plain(y), ~IsLocal(e), ~IsLocal(y),
           e.name = y.name
    PROVE  LET m == Merged(e, y, Bss) IN
           /\ SymTyped(m)
           /\ Rank(y) > Rank(e) => Rank(m) = Rank(y) /\ m.org = y.org
           /\ ~(Rank(y) > Rank(e)) => Rank(m) = Rank(e) /\ (Rank(e) > 1 => m.org = e.org)
<1> DEFINE v == MergeVis(e.vis, y.vis)
           a == [y EXCEPT !.vis = v, !.asm = e.asm]
           b == [e EXCEPT !.vis = v]
           m == Merged(e, y, Bss)
<1>1. /\ a.name = y.name /\ a.bind = y.bind /\ a.sec = y.sec /\ a.org = y.org /\ a.asm = FALSE
      /\ DOMAIN a = DOMAIN y
  BY DEF SymTyped, SymOK, SymFields
<1>2. /\ b.name = e.name /\ b.bind = e.bind /\ b.sec = e.sec /\ b.org = e.org /\ b.asm = e.asm
      /\ DOMAIN b = DOMAIN e
  BY DEF SymTyped, SymOK, SymFields
<1>3. m = IF SameSym(e, y) THEN e ELSE IF e.sec = UNDEF THEN y
          ELSE IF Overrides(e, y, Bss) THEN a ELSE b
  BY DEF Merged
<1> HIDE DEF a, b, m
<1>4. Rank(a) = Rank(y) BY <1>1 DEF Rank
<1>5. Rank(b) = Rank(e) BY <1>2 DEF Rank
<1>6. SymTyped(a) /\ SymTyped(b) BY <1>1, <1>2 DEF SymTyped, SymOK
<1>7. SymTyped(m) BY <1>3, <1>6
<1>8. e.bind \in {"GLOBAL", "WEAK"} /\ y.bind \in {"GLOBAL", "WEAK"}
  BY DEF SymTyped, Binds, IsLocal
<1>9. CASE SameSym(e, y)
  <2>1. Rank(y) = Rank(e) BY <1>9 DEF Rank, SameSym
  <2>2. Rank(e) \in {1, 2, 3, 4} BY RankIn
  <2> QED BY <1>3, <1>7, <1>9, <2>1, <2>2 DEF m
<1>10. CASE ~SameSym(e, y) /\ e.sec = UNDEF
  <2>1. Rank(e) = 1 BY <1>10 DEF Rank
  <2>2. Rank(y) \in {1, 2, 3, 4} BY RankIn
  <2> QED BY <1>3, <1>7, <1>10, <2>1, <2>2 DEF m
<1>11. CASE ~SameSym(e, y) /\ e.sec # UNDEF
  <2>1. Overrides(e, y, Bss) <=> Rank(y) > Rank(e)
    <3>1. CASE y.sec = UNDEF
      BY <1>11, <3>1, RankIn DEF Overrides
    <3>2. CASE y.sec # UNDEF /\ y.bind = "WEAK"
      <4>1. Rank(y) = 2 BY <3>2 DEF Rank
      <4>2. Rank(e) \in {2, 3, 4} BY <1>11, RankIn
      <4> QED BY <3>2, <4>1, <4>2 DEF Overrides
    <3>3. CASE y.sec # UNDEF /\ y.bind = "GLOBAL"
      <4>1. Rank(y) = IF Tentative(y.sec, Bss) THEN 3 ELSE 4 BY <3>3 DEF Rank
      <4>2. CASE e.bind = "WEAK"
        <5>1. Rank(e) = 2 BY <1>11, <4>2 DEF Rank
        <5>2. Overrides(e, y, Bss) BY <3>3, <4>2 DEF Overrides
        <5> QED BY <4>1, <5>1, <5>2
      <4>3. CASE e.bind = "GLOBAL"
        <5>1. Rank(e) = IF Tentative(e.sec, Bss) THEN 3 ELSE 4 BY <1>11, <4>3 DEF Rank
        <5>2. y.vis \notin {HIDDEN, INTERNAL} /\ y.sec # ABS BY <3>3 DEF Plain
        <5>3. ~Tentative(y.sec, Bss) <=> y.sec > 0 /\ y.sec # Bss
          BY <3>3, <5>2 DEF SymTyped, Tentative, UNDEF, ABS, COMMON, Bss
        <5>4. Overrides(e, y, Bss) <=> Tentative(e.sec, Bss) /\ y.sec > 0 /\ y.sec # Bss
          BY <3>3, <4>3, <5>2 DEF Overrides, SymTyped
        <5> QED BY <4>1, <5>1, <5>3, <5>4
      <4> QED BY <1>8, <4>2, <4>3
    <3> QED BY <1>8, <3>1, <3>2, <3>3
  <2> QED BY <1>1, <1>2, <1>3, <1>4, <1>5, <1>7, <1>11, <2>1 DEF m
<1> QED BY <1>9, <1>10, <1>11

\* Symbol k of zs claims the name n best.
Claims1(zs, n, k) == zs[k].name = n /\ ~IsLocal(zs[k])
Winner(zs, n, k) ==
    /\ k \in 1 .. Len(zs) /\ Claims1(zs, n, k)
    /\ \A j \in 1 .. Len(zs) : Claims1(zs, n, j) =>
          \/ Rank(zs[j]) < Rank(zs[k])
          \/ Rank(zs[j]) = Rank(zs[k]) /\ j >= k

\* The table ys has what the symbols zs of the files come to.
SettledSym(y, zs, k) ==
    Winner(zs, y.name, k) /\ Rank(y) = Rank(zs[k]) /\ (Rank(y) > 1 => y.org = zs[k].org)
Settled(ys, zs) ==
    /\ \A i \in 1 .. Len(ys) : SymTyped(ys[i])
    /\ \A i \in 1 .. Len(ys) : ~IsLocal(ys[i]) => \E k \in 1 .. Len(zs) : SettledSym(ys[i], zs, k)
    /\ \A k \in 1 .. Len(zs) : ~IsLocal(zs[k]) => Named(ys, zs[k].name) # {}

\* One more symbol y of a file.
OneMoreOf(zs, y, zs2) ==
    /\ Len(zs) \in Nat /\ Len(zs2) = Len(zs) + 1 /\ zs2[Len(zs) + 1] = y
    /\ \A k \in 1 .. Len(zs) : zs2[k] = zs[k]

\* What others it leaves alone, and where it loses.
LEMMA WinnerKept ==
    ASSUME NEW zs, NEW y, NEW zs2, OneMoreOf(zs, y, zs2), NEW n, NEW k, Winner(zs, n, k),
           \/ IsLocal(y) \/ y.name # n \/ ~(Rank(y) > Rank(zs[k]))
    PROVE  Winner(zs2, n, k) /\ zs2[k] = zs[k] /\ k \in 1 .. Len(zs2)
<1>1. /\ k \in 1 .. Len(zs) /\ k \in 1 .. Len(zs2) /\ zs2[k] = zs[k] /\ Claims1(zs2, n, k)
  BY DEF Winner, OneMoreOf, Claims1
<1>2. ASSUME NEW j \in 1 .. Len(zs2), Claims1(zs2, n, j)
      PROVE  \/ Rank(zs2[j]) < Rank(zs2[k])
             \/ Rank(zs2[j]) = Rank(zs2[k]) /\ j >= k
  <2>1. CASE j \in 1 .. Len(zs)
    <3>1. zs2[j] = zs[j] /\ Claims1(zs, n, j) BY <1>2, <2>1 DEF OneMoreOf, Claims1
    <3> QED BY <1>1, <2>1, <3>1 DEF Winner
  <2>2. CASE j = Len(zs) + 1
    <3>1. zs2[j] = y /\ ~IsLocal(y) /\ y.name = n BY <1>2, <2>2 DEF OneMoreOf, Claims1
    <3>2. ~(Rank(y) > Rank(zs[k])) BY <3>1
    <3>3. Rank(y) \in {1, 2, 3, 4} /\ Rank(zs[k]) \in {1, 2, 3, 4} BY RankIn
    <3>4. j >= k BY <1>1, <2>2 DEF OneMoreOf
    <3>5. Rank(y) < Rank(zs[k]) \/ Rank(y) = Rank(zs[k]) BY <3>2, <3>3
    <3> QED BY <1>1, <3>1, <3>4, <3>5
  <2> QED BY <2>1, <2>2 DEF OneMoreOf
<1> QED BY <1>1, <1>2 DEF Winner

\* Where it wins.
LEMMA WinnerNew ==
    ASSUME NEW zs, NEW y, NEW zs2, OneMoreOf(zs, y, zs2), ~IsLocal(y),
           \A j \in 1 .. Len(zs) : Claims1(zs, y.name, j) => Rank(zs[j]) < Rank(y)
    PROVE  Winner(zs2, y.name, Len(zs) + 1) /\ Len(zs) + 1 \in 1 .. Len(zs2)
<1> DEFINE k == Len(zs) + 1
<1>1. k \in 1 .. Len(zs2) /\ zs2[k] = y /\ Claims1(zs2, y.name, k) BY DEF OneMoreOf, Claims1
<1>2. ASSUME NEW j \in 1 .. Len(zs2), Claims1(zs2, y.name, j)
      PROVE  \/ Rank(zs2[j]) < Rank(zs2[k])
             \/ Rank(zs2[j]) = Rank(zs2[k]) /\ j >= k
  <2>1. CASE j \in 1 .. Len(zs)
    <3>1. zs2[j] = zs[j] /\ Claims1(zs, y.name, j) BY <1>2, <2>1 DEF OneMoreOf, Claims1
    <3> QED BY <1>1, <2>1, <3>1
  <2>2. CASE j = k
    <3>1. j >= k BY <2>2 DEF OneMoreOf
    <3> QED BY <2>2, <3>1
  <2> QED BY <2>1, <2>2 DEF OneMoreOf
<1> QED BY <1>1, <1>2 DEF Winner

\* A symbol that the new one does not beat stays settled.
LEMMA SettledSymKept ==
    ASSUME NEW zs, NEW y, NEW zs2, OneMoreOf(zs, y, zs2), NEW x, NEW k, SettledSym(x, zs, k),
           \/ IsLocal(y) \/ y.name # x.name \/ ~(Rank(y) > Rank(x))
    PROVE  k \in 1 .. Len(zs2) /\ SettledSym(x, zs2, k)
<1>1. Winner(zs, x.name, k) /\ Rank(x) = Rank(zs[k]) BY DEF SettledSym
<1>2. Winner(zs2, x.name, k) /\ zs2[k] = zs[k] /\ k \in 1 .. Len(zs2)
  BY <1>1, WinnerKept
<1> QED BY <1>1, <1>2 DEF SettledSym

LEMMA SettledAppended ==
    ASSUME NEW ys, IsSeq(ys), NEW zs, Settled(ys, zs), NEW y, SymTyped(y),
           NEW zs2, OneMoreOf(zs, y, zs2), NEW ys2, Appended(ys, y, ys2)
    PROVE  Settled(ys2, zs2)
<1> DEFINE n == Len(ys)
<1>1. /\ n \in Nat /\ Len(ys2) = n + 1 /\ ys2[n + 1] = y
      /\ \A i \in 1 .. n : ys2[i] = ys[i]
  BY AppendIsSeq DEF Appended
<1>2. \A i \in 1 .. Len(ys2) : i \in 1 .. n \/ i = n + 1 BY <1>1
<1>3. \A i \in 1 .. Len(ys2) : SymTyped(ys2[i]) BY <1>1, <1>2 DEF Settled
<1>4. ASSUME NEW i \in 1 .. Len(ys2), ~IsLocal(ys2[i])
      PROVE  \E k \in 1 .. Len(zs2) : SettledSym(ys2[i], zs2, k)
  <2>1. CASE i \in 1 .. n
    <3>1. ys2[i] = ys[i] BY <1>1, <2>1
    <3>2. PICK k \in 1 .. Len(zs) : SettledSym(ys[i], zs, k) BY <1>4, <2>1, <3>1 DEF Settled
    <3>3. IsLocal(y) \/ y.name # ys[i].name
      BY <1>4, <2>1, <3>1 DEF Appended, Named
    <3> QED BY <3>1, <3>2, <3>3, SettledSymKept
  <2>2. CASE i = n + 1
    <3>1. ys2[i] = y /\ ~IsLocal(y) BY <1>1, <1>4, <2>2
    <3>2. \A j \in 1 .. Len(zs) : ~Claims1(zs, y.name, j)
      BY <3>1 DEF Settled, Appended, Claims1
    <3>3. Winner(zs2, y.name, Len(zs) + 1) /\ Len(zs) + 1 \in 1 .. Len(zs2)
      BY <3>1, <3>2, WinnerNew
    <3>4. zs2[Len(zs) + 1] = y BY DEF OneMoreOf
    <3>5. SettledSym(y, zs2, Len(zs) + 1) BY <3>3, <3>4 DEF SettledSym
    <3> QED BY <3>1, <3>3, <3>5
  <2> QED BY <1>2, <2>1, <2>2
<1>5. ASSUME NEW k \in 1 .. Len(zs2), ~IsLocal(zs2[k]) PROVE Named(ys2, zs2[k].name) # {}
  <2>1. CASE k \in 1 .. Len(zs)
    <3>1. zs2[k] = zs[k] BY <2>1 DEF OneMoreOf
    <3>2. PICK i \in Named(ys, zs[k].name) : TRUE BY <1>5, <2>1, <3>1 DEF Settled
    <3>3. i \in Named(ys2, zs[k].name) BY <1>1, <3>2 DEF Named
    <3> QED BY <3>1, <3>3
  <2>2. CASE k = Len(zs) + 1
    <3>1. zs2[k] = y BY <2>2 DEF OneMoreOf
    <3>2. n + 1 \in Named(ys2, y.name) BY <1>1, <1>5, <3>1 DEF Named
    <3> QED BY <3>1, <3>2
  <2> QED BY <2>1, <2>2 DEF OneMoreOf
<1> QED BY <1>3, <1>4, <1>5 DEF Settled

LEMMA SettledJoined ==
    ASSUME NEW ys, IsSeq(ys), OneEach(ys), NEW zs, Settled(ys, zs), NEW y, SymTyped(y), Plain(y),
           NEW zs2, OneMoreOf(zs, y, zs2), NEW ys2, NEW i, Joined(ys, y, i, Bss, ys2)
    PROVE  Settled(ys2, zs2)
<1> DEFINE n == Len(ys)
           m == Merged(ys[i], y, Bss)
<1>0. n \in Nat /\ DOMAIN ys = 1 .. n BY SeqIsFcn
<1>1. i \in 1 .. n /\ ~IsLocal(ys[i]) /\ ys[i].name = y.name /\ ~IsLocal(y)
  BY DEF Joined, Named
<1>2. /\ DOMAIN ys2 = 1 .. n /\ ys2[i] = m
      /\ \A j \in 1 .. n : j # i => ys2[j] = ys[j]
  <2>1. ys2 = [ys EXCEPT ![i] = m] BY DEF Joined
  <2> HIDE DEF m
  <2> QED BY <1>0, <1>1, <2>1
<1>3. Len(ys2) = n
  <2>1. ys2 = [j \in 1 .. n |-> ys2[j]]
    <3>1. ys2 = [ys EXCEPT ![i] = m] BY DEF Joined
    <3> HIDE DEF m
    <3> QED BY <1>0, <3>1
  <2> QED BY <1>0, <2>1, FcnIsSeq
<1>4. SymTyped(ys[i]) BY <1>1 DEF Settled
<1>5. /\ SymTyped(m)
      /\ Rank(y) > Rank(ys[i]) => Rank(m) = Rank(y) /\ m.org = y.org
      /\ ~(Rank(y) > Rank(ys[i])) =>
            Rank(m) = Rank(ys[i]) /\ (Rank(ys[i]) > 1 => m.org = ys[i].org)
  BY <1>1, <1>4, RankMerged
<1>6. m.name = y.name /\ ~IsLocal(m) BY <1>1, <1>4, MergedKeeps DEF SymTyped
<1> HIDE DEF m
<1>7. \A j \in 1 .. Len(ys2) : SymTyped(ys2[j]) BY <1>2, <1>3, <1>5 DEF Settled
<1>8. ASSUME NEW j \in 1 .. Len(ys2), ~IsLocal(ys2[j])
      PROVE  \E k \in 1 .. Len(zs2) : SettledSym(ys2[j], zs2, k)
  <2>1. CASE j # i
    <3>1. ys2[j] = ys[j] /\ j \in 1 .. n BY <1>2, <1>3, <2>1
    <3>2. PICK k \in 1 .. Len(zs) : SettledSym(ys[j], zs, k) BY <1>8, <3>1 DEF Settled
    <3>3. y.name # ys[j].name BY <1>1, <1>8, <2>1, <3>1 DEF OneEach
    <3> QED BY <3>1, <3>2, <3>3, SettledSymKept
  <2>2. CASE j = i
    <3>1. PICK k \in 1 .. Len(zs) : SettledSym(ys[i], zs, k) BY <1>1 DEF Settled
    <3>2. CASE Rank(y) > Rank(ys[i])
      <4>1. \A l \in 1 .. Len(zs) : Claims1(zs, y.name, l) => Rank(zs[l]) < Rank(y)
        <5> SUFFICES ASSUME NEW l \in 1 .. Len(zs), Claims1(zs, y.name, l)
                     PROVE  Rank(zs[l]) < Rank(y)
          OBVIOUS
        <5>1. Rank(zs[l]) < Rank(zs[k]) \/ Rank(zs[l]) = Rank(zs[k])
          BY <1>1, <3>1 DEF SettledSym, Winner
        <5>2. Rank(zs[k]) = Rank(ys[i]) BY <3>1 DEF SettledSym
        <5>3. /\ Rank(zs[l]) \in {1, 2, 3, 4} /\ Rank(ys[i]) \in {1, 2, 3, 4}
              /\ Rank(y) \in {1, 2, 3, 4}
          BY RankIn
        <5> QED BY <3>2, <5>1, <5>2, <5>3
      <4>2. Winner(zs2, y.name, Len(zs) + 1) /\ Len(zs) + 1 \in 1 .. Len(zs2)
        BY <1>1, <4>1, WinnerNew
      <4>3. zs2[Len(zs) + 1] = y BY DEF OneMoreOf
      <4>4. SettledSym(m, zs2, Len(zs) + 1) BY <1>5, <1>6, <3>2, <4>2, <4>3 DEF SettledSym
      <4> QED BY <1>2, <2>2, <4>2, <4>4
    <3>3. CASE ~(Rank(y) > Rank(ys[i]))
      <4>1. k \in 1 .. Len(zs2) /\ SettledSym(ys[i], zs2, k) BY <3>1, <3>3, SettledSymKept
      <4>2. SettledSym(m, zs2, k)
        BY <1>1, <1>5, <1>6, <3>3, <4>1 DEF SettledSym
      <4> QED BY <1>2, <2>2, <4>1, <4>2
    <3> QED BY <3>2, <3>3
  <2> QED BY <2>1, <2>2
<1>9. \A x : Named(ys2, x) = Named(ys, x)
  <2> SUFFICES ASSUME NEW x PROVE Named(ys2, x) = Named(ys, x) OBVIOUS
  <2>1. \A j \in 1 .. n : ys2[j].name = ys[j].name /\ (IsLocal(ys2[j]) <=> IsLocal(ys[j]))
    BY <1>1, <1>2, <1>6
  <2> QED BY <1>3, <2>1 DEF Named
<1>10. ASSUME NEW k \in 1 .. Len(zs2), ~IsLocal(zs2[k]) PROVE Named(ys2, zs2[k].name) # {}
  <2>1. CASE k \in 1 .. Len(zs)
    <3>1. zs2[k] = zs[k] BY <2>1 DEF OneMoreOf
    <3> QED BY <1>9, <1>10, <2>1, <3>1 DEF Settled
  <2>2. CASE k = Len(zs) + 1
    <3>1. zs2[k] = y BY <2>2 DEF OneMoreOf
    <3>2. i \in Named(ys, y.name) BY DEF Joined
    <3> QED BY <1>9, <3>1, <3>2
  <2> QED BY <2>1, <2>2 DEF OneMoreOf
<1> QED BY <1>7, <1>8, <1>10 DEF Settled

\* The symbols of a file, in turn.
LEMMA SettledTurn ==
    ASSUME NEW t, Hashed(t), NEW zs, IsSeq(zs), Settled(t.syms, zs), NEW ys, IsSeq(ys),
           \A k \in 1 .. Len(ys) : SymTyped(ys[k]) /\ Plain(ys[k])
    PROVE  Settled(SetInTurn(t, ys, Bss)[Len(ys)].syms, zs \o ys)
<1> DEFINE n == Len(ys)
           l == Len(zs)
           q == zs \o ys
           Q(k) == [j \in 1 .. l + k |-> q[j]]
           W == SetInTurn(t, ys, Bss)
           Bad == {k \in 0 .. n : ~Settled(W[k].syms, Q(k))}
<1>0. /\ n \in Nat /\ l \in Nat /\ Len(q) = l + n /\ IsSeq(q)
      /\ \A k \in 1 .. l : q[k] = zs[k]
      /\ \A k \in 1 .. n : q[l + k] = ys[k]
  BY ConcatIsSeq
<1> HIDE DEF q
<1>1. W[0] = t /\ \A k \in 1 .. n : W[k] = SetElfSym(W[k - 1], ys[k], Bss)
  BY <1>0, SetInTurnSteps
<1>2. \A k \in 1 .. n : SymOK(ys[k]) BY DEF SymTyped
<1>3. \A k \in 0 .. n : Hashed(W[k]) BY <1>2, TurnHashed
<1> HIDE DEF W
<1>4. \A k \in 0 .. n : Len(Q(k)) = l + k
  <2> SUFFICES ASSUME NEW k \in 0 .. n PROVE Len(Q(k)) = l + k OBVIOUS
  <2> DEFINE r == Q(k)
  <2>1. r = [j \in 1 .. l + k |-> r[j]] /\ l + k \in Nat BY <1>0
  <2> HIDE DEF r
  <2>2. Len(r) = l + k BY <2>1, FcnIsSeq
  <2> QED BY <2>2 DEF r
<1>5. Q(0) = zs
  <2>1. zs = [j \in 1 .. l |-> zs[j]] BY SeqIsFcn
  <2> QED BY <1>0, <2>1
<1>6. Q(n) = q
  <2>1. q = [j \in 1 .. l + n |-> q[j]] BY <1>0, SeqIsFcn
  <2> QED BY <1>0, <2>1
<1>7. ASSUME NEW k \in 1 .. n PROVE OneMoreOf(Q(k - 1), ys[k], Q(k))
  <2>1. Len(Q(k - 1)) = l + (k - 1) /\ Len(Q(k)) = l + k
    <3> HIDE DEF Q
    <3>1. k - 1 \in 0 .. n /\ k \in 0 .. n BY <1>0
    <3> QED BY <1>4, <3>1
  <2>2. Q(k)[l + k] = ys[k] BY <1>0
  <2>3. \A j \in 1 .. l + (k - 1) : Q(k)[j] = Q(k - 1)[j] BY <1>0
  <2>4. l + (k - 1) \in Nat /\ l + k = (l + (k - 1)) + 1 BY <1>0
  <2> HIDE DEF Q
  <2> QED BY <2>1, <2>2, <2>3, <2>4 DEF OneMoreOf
<1> HIDE DEF Q
<1>8. Bad = {}
  <2> SUFFICES ASSUME Bad # {} PROVE FALSE OBVIOUS
  <2>1. PICK k \in Bad : \A j \in Bad : k <= j
    <3>1. Bad \subseteq Nat BY <1>0
    <3> HIDE DEF Bad
    <3> QED BY <3>1, LeastNat
  <2>2. k \in 0 .. n /\ ~Settled(W[k].syms, Q(k)) OBVIOUS
  <2>3. k # 0 BY <1>1, <1>5, <2>2
  <2>4. k \in 1 .. n /\ k - 1 \in 0 .. n /\ ~(k <= k - 1) BY <1>0, <2>2, <2>3
  <2>5. k - 1 \notin Bad
    <3> HIDE DEF Bad
    <3> QED BY <2>1, <2>4
  <2> DEFINE u == W[k - 1]
             y == ys[k]
             v == SetElfSym(u, y, Bss)
  <2>6. Settled(u.syms, Q(k - 1)) BY <2>4, <2>5
  <2>7. Hashed(u) /\ SymTyped(y) /\ SymOK(y) /\ Plain(y) BY <1>2, <1>3, <2>4
  <2>8. OneMoreOf(Q(k - 1), y, Q(k)) BY <1>7, <2>4
  <2>9. W[k] = v BY <1>1, <2>4
  <2> HIDE DEF u, y
  <2>10. \/ Appended(u.syms, y, v.syms) \/ Joined(u.syms, y, SymIndex(u, y), Bss, v.syms)
    BY <2>7, SetHashed
  <2>11. IsSeq(u.syms) /\ OneEach(u.syms) BY <2>7 DEF Hashed, TableShape
  <2> HIDE DEF v
  <2>12. Settled(v.syms, Q(k))
    <3>1. CASE Appended(u.syms, y, v.syms)
      BY <2>6, <2>7, <2>8, <2>11, <3>1, SettledAppended
    <3>2. CASE Joined(u.syms, y, SymIndex(u, y), Bss, v.syms)
      BY <2>6, <2>7, <2>8, <2>11, <3>2, SettledJoined
    <3> QED BY <2>10, <3>1, <3>2
  <2> QED BY <2>2, <2>9, <2>12
<1>9. Settled(W[n].syms, Q(n)) BY <1>0, <1>8
<1> QED BY <1>6, <1>9 DEF W, q

\* What is settled is what BestDefinitionWins says.
LEMMA SettledBest ==
    ASSUME Hashed(tab), IsSeq(seen), Settled(tab.syms, seen)
    PROVE  BestDefinitionWins
<1> SUFFICES ASSUME NEW n, Claims(n) # {}
             PROVE  LET s == FindElfSym(tab, n) IN
                    /\ s # 0
                    /\ Rank(tab.syms[s]) = Rank(seen[Best(n)])
                    /\ Rank(tab.syms[s]) > 1 => tab.syms[s].org = seen[Best(n)].org
  BY DEF BestDefinitionWins
<1> DEFINE s == FindElfSym(tab, n)
           ys == tab.syms
           P(k) == \A j \in Claims(n) : \/ Rank(seen[j]) < Rank(seen[k])
                                        \/ Rank(seen[j]) = Rank(seen[k]) /\ j >= k
<1>0. DOMAIN seen = 1 .. Len(seen) /\ Len(seen) \in Nat BY SeqIsFcn
<1>1. \A k : k \in Claims(n) <=> k \in 1 .. Len(seen) /\ Claims1(seen, n, k)
  BY <1>0 DEF Claims, Claims1
<1>2. Named(ys, n) # {} BY <1>1 DEF Settled, Claims1
<1>3. n \in SymNames BY <1>2 DEF Named, Hashed, TableShape, SymOK
<1>4. s \in Named(ys, n) BY <1>2, <1>3, FindMeans
<1> HIDE DEF s
<1>5. s \in 1 .. Len(ys) /\ ~IsLocal(ys[s]) /\ ys[s].name = n BY <1>4 DEF Named
<1>6. s # 0 BY <1>5
<1>7. PICK w \in 1 .. Len(seen) : SettledSym(ys[s], seen, w) BY <1>5 DEF Settled
<1>8. w \in Claims(n) /\ P(w) BY <1>1, <1>5, <1>7 DEF SettledSym, Winner
<1> DEFINE b == Best(n)
<1>9. b \in Claims(n) /\ P(b)
  <2>1. b = CHOOSE k \in Claims(n) : P(k) BY DEF Best
  <2> HIDE DEF b, P
  <2> QED BY <1>8, <2>1
<1> HIDE DEF b
<1>10. b = w
  <2>1. Rank(seen[b]) \in {1, 2, 3, 4} /\ Rank(seen[w]) \in {1, 2, 3, 4} BY RankIn
  <2>2. /\ (Rank(seen[b]) < Rank(seen[w]) \/ (Rank(seen[b]) = Rank(seen[w]) /\ b >= w))
        /\ (Rank(seen[w]) < Rank(seen[b]) \/ (Rank(seen[w]) = Rank(seen[b]) /\ w >= b))
    BY <1>8, <1>9
  <2>3. b \in Nat /\ w \in Nat BY <1>1, <1>9
  <2> QED BY <2>1, <2>2, <2>3
<1>11. Rank(ys[s]) = Rank(seen[b]) /\ (Rank(ys[s]) > 1 => ys[s].org = seen[b].org)
  BY <1>7, <1>10 DEF SettledSym
<1> QED BY <1>6, <1>11 DEF s, b

-----------------------------------------------------------------------------
(* Sections: what matters here is that every section of a file finds its place.*)

SecsOK(ss) == IsSeq(ss) /\ \A i \in 1 .. Len(ss) : "name" \in DOMAIN ss[i]

LEMMA SectionNumTop ==
    ASSUME NEW ss, IsSeq(ss), NEW name
    PROVE  Top(SectionNum(ss, name), {i \in 1 .. Len(ss) : ss[i].name = name})
<1> DEFINE X == {i \in 1 .. Len(ss) : ss[i].name = name}
<1>1. Len(ss) \in Nat /\ DOMAIN ss = 1 .. Len(ss) BY SeqIsFcn
<1>2. SectionNum(ss, name) = Max({0} \cup X) BY <1>1 DEF SectionNum
<1>3. X \subseteq 1 .. Len(ss) OBVIOUS
<1> HIDE DEF X
<1>4. Top(SectionNum(ss, name), X) BY <1>1, <1>2, <1>3, MaxIsTop
<1> QED BY <1>4 DEF X

\* A section that was not there is made.
LEMMA SectionThere ==
    ASSUME NEW ss, SecsOK(ss), NEW s
    PROVE  /\ SecsOK(WithSection(ss, s))
           /\ SectionNum(WithSection(ss, s), s.name) \in 1 .. Len(WithSection(ss, s))
           /\ WithSection(ss, s)[SectionNum(WithSection(ss, s), s.name)].name = s.name
<1> DEFINE new == [Section(s.name, s.type, s.flags) EXCEPT !.align = Max({1, s.align})]
           rs == WithSection(ss, s)
           k == SectionNum(rs, s.name)
<1>1. IsSeq(ss) BY DEF SecsOK
<1>2. new.name = s.name /\ "name" \in DOMAIN new BY DEF Section
<1> HIDE DEF new
<1>3. SecsOK(rs) /\ \E i \in 1 .. Len(rs) : rs[i].name = s.name
  <2>1. CASE SectionNum(ss, s.name) # 0
    <3>1. rs = ss BY <2>1 DEF WithSection
    <3>2. Top(SectionNum(ss, s.name), {i \in 1 .. Len(ss) : ss[i].name = s.name})
      BY <1>1, SectionNumTop
    <3> HIDE DEF rs
    <3> QED BY <2>1, <3>1, <3>2 DEF Top
  <2>2. CASE SectionNum(ss, s.name) = 0
    <3>1. rs = Append(ss, new) BY <2>2 DEF WithSection, new
    <3> HIDE DEF rs
    <3>2. /\ IsSeq(rs) /\ Len(ss) \in Nat /\ Len(rs) = Len(ss) + 1
          /\ rs[Len(ss) + 1] = new
          /\ \A i \in 1 .. Len(ss) : rs[i] = ss[i]
      BY <1>1, <3>1, AppendIsSeq
    <3>3. \A i \in 1 .. Len(rs) : i \in 1 .. Len(ss) \/ i = Len(ss) + 1 BY <3>2
    <3>4. SecsOK(rs) BY <1>2, <3>2, <3>3 DEF SecsOK
    <3>5. Len(ss) + 1 \in 1 .. Len(rs) BY <3>2
    <3> QED BY <1>2, <3>2, <3>4, <3>5
  <2> QED BY <2>1, <2>2
<1> HIDE DEF rs
<1>4. IsSeq(rs) BY <1>3 DEF SecsOK
<1>5. Top(k, {i \in 1 .. Len(rs) : rs[i].name = s.name}) BY <1>4, SectionNumTop
<1> HIDE DEF k
<1>6. k # 0 BY <1>3, <1>5, SeqIsFcn, <1>4 DEF Top
<1>7. k \in 1 .. Len(rs) /\ rs[k].name = s.name BY <1>5, <1>6 DEF Top
<1> QED BY <1>3, <1>7 DEF rs, k

\* One section of a file is taken in.
LEMMA TakeInOK ==
    ASSUME NEW ss, SecsOK(ss), NEW s
    PROVE  SecsOK(TakeIn(ss, s)) /\ SectionNum(TakeIn(ss, s), s.name) \in Nat \ {0}
<1> DEFINE rs == WithSection(ss, s)
           k == SectionNum(rs, s.name)
           a == Max({1, s.align})
           new == SectionAdd(rs[k], s.size, a)
           zs == TakeIn(ss, s)
<1>1. SecsOK(rs) /\ k \in 1 .. Len(rs) /\ rs[k].name = s.name BY SectionThere
<1>2. zs = [rs EXCEPT ![k] = new] BY DEF TakeIn
<1> HIDE DEF rs, k, zs, a
<1>3. "name" \in DOMAIN rs[k] /\ IsSeq(rs) BY <1>1 DEF SecsOK
<1>4. new.name = s.name /\ "name" \in DOMAIN new
  <2> DEFINE r == rs[k]
  <2> HIDE DEF r
  <2>1. "name" \in DOMAIN r /\ r.name = s.name BY <1>1, <1>3 DEF r
  <2>2. new = SectionAdd(r, s.size, a) BY DEF r
  <2> HIDE DEF new
  <2> QED BY <2>1, <2>2 DEF SectionAdd
<1> HIDE DEF new
<1>5. Len(rs) \in Nat /\ DOMAIN rs = 1 .. Len(rs) BY <1>3, SeqIsFcn
<1>6. zs = [i \in 1 .. Len(rs) |-> zs[i]] BY <1>2, <1>5
<1>7. IsSeq(zs) /\ Len(zs) = Len(rs) BY <1>5, <1>6, FcnIsSeq
<1>8. \A i \in 1 .. Len(rs) : zs[i] = IF i = k THEN new ELSE rs[i] BY <1>2, <1>5
<1>9. SecsOK(zs) BY <1>1, <1>4, <1>7, <1>8 DEF SecsOK
<1>10. Top(SectionNum(zs, s.name), {i \in 1 .. Len(zs) : zs[i].name = s.name})
  BY <1>7, SectionNumTop
<1>11. k \in {i \in 1 .. Len(zs) : zs[i].name = s.name} BY <1>1, <1>4, <1>7, <1>8
<1>12. SectionNum(zs, s.name) \in Nat \ {0} BY <1>5, <1>10, <1>11 DEF Top
<1> QED BY <1>9, <1>12 DEF zs

\* One section after the other.
LEMMA TakenInSteps ==
    ASSUME NEW ss, NEW fsecs, Len(fsecs) \in Nat
    PROVE  /\ TakenIn(ss, fsecs)[0] = ss
           /\ \A k \in 1 .. Len(fsecs) :
                 TakenIn(ss, fsecs)[k] = TakeIn(TakenIn(ss, fsecs)[k - 1], fsecs[k])
<1> DEFINE n == Len(fsecs)
           Step(f, k) == IF k = 0 THEN ss ELSE TakeIn(f[k - 1], fsecs[k])
           Runs(f, m) == \A k \in 0 .. m : f[k] = Step(f, k)
           Bad == {m \in Nat : ~ \E f : Runs(f, m)}
           W == TakenIn(ss, fsecs)
<1>1. Bad = {}
  <2> SUFFICES ASSUME Bad # {} PROVE FALSE OBVIOUS
  <2>1. PICK m \in Bad : \A l \in Bad : m <= l
    <3>1. Bad \subseteq Nat OBVIOUS
    <3> HIDE DEF Bad
    <3> QED BY <3>1, LeastNat
  <2>2. CASE m = 0
    <3>1. Runs([k \in 0 .. 0 |-> ss], 0) OBVIOUS
    <3> QED BY <2>1, <2>2, <3>1
  <2>3. CASE m # 0
    <3>0. m - 1 \in Nat /\ ~(m <= m - 1) BY <2>1, <2>3
    <3>1. m - 1 \notin Bad
      <4> HIDE DEF Bad
      <4> QED BY <2>1, <3>0
    <3>2. PICK f : Runs(f, m - 1) BY <3>0, <3>1
    <3> DEFINE last == TakeIn(f[m - 1], fsecs[m])
               g == [k \in 0 .. m |-> IF k = m THEN last ELSE f[k]]
    <3>4. ASSUME NEW k \in 0 .. m PROVE g[k] = Step(g, k)
      <4> HIDE DEF last
      <4>1. CASE k = m
        <5>1. g[k] = last /\ g[m - 1] = f[m - 1] BY <3>0, <4>1
        <5> HIDE DEF g
        <5> QED BY <2>3, <4>1, <5>1 DEF last
      <4>2. CASE k # m
        <5>1. k \in 0 .. m - 1 /\ g[k] = f[k] BY <3>0, <4>2
        <5>2. k # 0 => g[k - 1] = f[k - 1] BY <3>0, <5>1
        <5> HIDE DEF g
        <5> QED BY <3>2, <5>1, <5>2
      <4> QED BY <4>1, <4>2
    <3>5. Runs(g, m)
      <4> HIDE DEF g, Step
      <4> QED BY <3>4
    <3> HIDE DEF Runs
    <3> QED BY <2>1, <3>5
  <2> QED BY <2>2, <2>3
<1>2. PICK f : Runs(f, n) BY <1>1
<1> DEFINE F == [k \in 0 .. n |-> f[k]]
<1>3. F = [k \in 0 .. n |-> Step(F, k)]
  <2>1. ASSUME NEW k \in 0 .. n PROVE F[k] = Step(F, k)
    <3>1. F[k] = f[k] /\ (k # 0 => F[k - 1] = f[k - 1]) OBVIOUS
    <3>2. f[k] = Step(f, k) BY <1>2
    <3> HIDE DEF F
    <3> QED BY <3>1, <3>2
  <2> HIDE DEF Step
  <2> QED BY <2>1
<1>4. W = CHOOSE h : h = [k \in 0 .. n |-> Step(h, k)] BY DEF TakenIn
<1>5. W = [k \in 0 .. n |-> Step(W, k)]
  <2> HIDE DEF W, F
  <2> QED BY <1>3, <1>4
<1>6. ASSUME NEW k \in 0 .. n PROVE W[k] = Step(W, k)
  <2> HIDE DEF W
  <2> QED BY <1>5
<1>7. W[0] = ss
  <2> HIDE DEF W
  <2> QED BY <1>6
<1>8. ASSUME NEW k \in 1 .. n PROVE W[k] = TakeIn(W[k - 1], fsecs[k])
  <2> HIDE DEF W
  <2>1. k \in 0 .. n /\ k # 0 OBVIOUS
  <2> QED BY <1>6, <2>1
<1> QED BY <1>7, <1>8

\* Every section of a file gets a place in one of the linker's.
LEMMA PlaceOK ==
    ASSUME NEW ss, SecsOK(ss), NEW id, NEW fsecs, IsSeq(fsecs)
    PROVE  /\ SecsOK(Place(ss, id, fsecs).ss)
           /\ IsSeq(Place(ss, id, fsecs).at) /\ Len(Place(ss, id, fsecs).at) = Len(fsecs)
           /\ \A k \in 1 .. Len(fsecs) :
                 /\ Place(ss, id, fsecs).at[k].sec \in Nat \ {0}
                 /\ Place(ss, id, fsecs).at[k].file = id
                 /\ Place(ss, id, fsecs).at[k].num = k
<1> DEFINE n == Len(fsecs)
           W == TakenIn(ss, fsecs)
           p == Place(ss, id, fsecs)
           Bad == {k \in 0 .. n : ~SecsOK(W[k])}
<1>0. n \in Nat BY SeqIsFcn
<1>1. W[0] = ss /\ \A k \in 1 .. n : W[k] = TakeIn(W[k - 1], fsecs[k]) BY <1>0, TakenInSteps
<1>2. /\ p.ss = W[n]
      /\ p.at = [k \in 1 .. n |->
                   [file |-> id, num |-> k, sec |-> SectionNum(W[k], fsecs[k].name),
                    off |-> W[k][SectionNum(W[k], fsecs[k].name)].offset - fsecs[k].size,
                    size |-> fsecs[k].size, align |-> Max({1, fsecs[k].align})]]
  BY DEF Place
<1> HIDE DEF W, p
<1>3. Bad = {}
  <2> SUFFICES ASSUME Bad # {} PROVE FALSE OBVIOUS
  <2>1. PICK k \in Bad : \A l \in Bad : k <= l
    <3>1. Bad \subseteq Nat BY <1>0
    <3> HIDE DEF Bad
    <3> QED BY <3>1, LeastNat
  <2>2. k \in 0 .. n /\ ~SecsOK(W[k]) OBVIOUS
  <2>3. k # 0 BY <1>1, <2>2
  <2>4. k \in 1 .. n /\ k - 1 \in 0 .. n /\ ~(k <= k - 1) BY <1>0, <2>2, <2>3
  <2>5. k - 1 \notin Bad
    <3> HIDE DEF Bad
    <3> QED BY <2>1, <2>4
  <2>6. SecsOK(W[k - 1]) BY <2>4, <2>5
  <2>7. SecsOK(TakeIn(W[k - 1], fsecs[k])) BY <2>6, TakeInOK
  <2> QED BY <1>1, <2>2, <2>4, <2>7
<1>4. SecsOK(p.ss) BY <1>0, <1>2, <1>3
<1>5. ASSUME NEW k \in 1 .. n
      PROVE  p.at[k].sec \in Nat \ {0} /\ p.at[k].file = id /\ p.at[k].num = k
  <2>1. k - 1 \in 0 .. n /\ W[k] = TakeIn(W[k - 1], fsecs[k]) BY <1>0, <1>1
  <2>2. SecsOK(W[k - 1]) BY <1>3, <2>1
  <2>3. SectionNum(W[k], fsecs[k].name) \in Nat \ {0} BY <2>1, <2>2, TakeInOK
  <2> QED BY <1>2, <2>3
<1>6. IsSeq(p.at) /\ Len(p.at) = n
  <2>1. p.at = [k \in 1 .. n |-> p.at[k]] BY <1>2
  <2> QED BY <1>0, <2>1, FcnIsSeq
<1> QED BY <1>4, <1>5, <1>6 DEF p

\* The symbols of a file, with the sections they go to.
LEMMA MovedOK ==
    ASSUME NEW f, ObjectFile(f), NEW at, \A k \in 1 .. Len(f.secs) : at[k].sec \in Nat \ {0}
    PROVE  /\ IsSeq(Moved(f, at)) /\ Len(Moved(f, at)) = Len(f.syms)
           /\ \A k \in 1 .. Len(f.syms) :
                 /\ SymTyped(Moved(f, at)[k])
                 /\ Moved(f, at)[k].name = f.syms[k].name
                 /\ Moved(f, at)[k].org = f.id
                 /\ Plain(f.syms[k]) => Plain(Moved(f, at)[k])
<1> DEFINE n == Len(f.syms)
           ys == Moved(f, at)
<1>0. /\ n \in Nat /\ DOMAIN f.syms = 1 .. n /\ DOMAIN f.secs = 1 .. Len(f.secs)
      /\ Len(f.secs) \in Nat
  BY SeqIsFcn DEF ObjectFile
<1> DEFINE Sec(k) == IF f.syms[k].sec > 0 THEN at[f.syms[k].sec].sec ELSE f.syms[k].sec
           Value(k) == IF f.syms[k].sec > 0 THEN f.syms[k].value + at[f.syms[k].sec].off
                       ELSE f.syms[k].value
           off == FALSE
<1>1. ASSUME NEW k \in 1 .. n
      PROVE  ys[k] = [name |-> f.syms[k].name, bind |-> f.syms[k].bind, vis |-> f.syms[k].vis,
                      asm |-> off, size |-> f.syms[k].size, sec |-> Sec(k), value |-> Value(k),
                      org |-> f.id]
  BY <1>0 DEF Moved
<1>2. ys = [k \in 1 .. n |-> ys[k]] BY <1>0 DEF Moved
<1>3. IsSeq(ys) /\ Len(ys) = n
  <2> HIDE DEF ys
  <2> QED BY <1>0, <1>2, FcnIsSeq
<1> HIDE DEF ys, off
<1>4. ASSUME NEW k \in 1 .. n
      PROVE  /\ SymTyped(ys[k]) /\ ys[k].name = f.syms[k].name /\ ys[k].org = f.id
             /\ Plain(f.syms[k]) => Plain(ys[k])
  <2> DEFINE y == f.syms[k]
             s == Sec(k)
             v == Value(k)
             id == f.id
             z == ys[k]
  <2>1. /\ y.name \in SymNames /\ y.bind \in Binds
        /\ y.sec \in 1 .. Len(f.secs) \cup {UNDEF, ABS, COMMON}
    BY <1>0 DEF ObjectFile, Binds
  <2>2. /\ z.name = y.name /\ z.bind = y.bind /\ z.vis = y.vis /\ z.asm = off /\ z.sec = s
        /\ z.org = id /\ DOMAIN z = SymFields
    <3>1. z = [name |-> y.name, bind |-> y.bind, vis |-> y.vis, asm |-> off, size |-> y.size,
               sec |-> s, value |-> v, org |-> id]
      BY <1>1
    <3> HIDE DEF y, z, s, v, id
    <3> QED BY <3>1 DEF SymFields
  <2>3. s = IF y.sec > 0 THEN at[y.sec].sec ELSE y.sec OBVIOUS
  <2> HIDE DEF y, z, s, v
  <2>4. /\ s \in Int /\ s >= COMMON /\ (s = UNDEF <=> y.sec = UNDEF) /\ (s = ABS <=> y.sec = ABS)
    <3>1. CASE y.sec \in 1 .. Len(f.secs) BY <2>3, <3>1 DEF UNDEF, ABS, COMMON
    <3>2. CASE y.sec \in {UNDEF, ABS, COMMON} BY <2>3, <3>2 DEF UNDEF, ABS, COMMON
    <3> QED BY <2>1, <3>1, <3>2
  <2>5. off = FALSE BY DEF off
  <2>6. SymTyped(z) BY <2>1, <2>2, <2>4, <2>5 DEF SymTyped, SymOK
  <2>7. Plain(y) => Plain(z) BY <2>2, <2>4 DEF Plain
  <2> QED BY <2>2, <2>6, <2>7 DEF y, z, id
<1> QED BY <1>3, <1>4 DEF ys

LEMMA EndBindOK ==
    ASSUME NEW y, SymTyped(y)
    PROVE  /\ SymTyped(EndBind(y)) /\ EndBind(y).name = y.name /\ EndBind(y).org = y.org
           /\ Plain(y) => Plain(EndBind(y))
           /\ IsLocal(EndBind(y)) => IsLocal(y)
<1> DEFINE z == [y EXCEPT !.bind = "GLOBAL"]
<1>1. CASE y.sec = UNDEF /\ IsLocal(y)
  <2>1. EndBind(y) = z BY <1>1 DEF EndBind
  <2>2. /\ z.name = y.name /\ z.org = y.org /\ z.bind = "GLOBAL" /\ z.asm = y.asm /\ z.sec = y.sec
        /\ DOMAIN z = DOMAIN y
    BY DEF SymTyped, SymOK, SymFields
  <2> HIDE DEF z
  <2>3. SymTyped(z) BY <2>2 DEF SymTyped, SymOK, Binds
  <2>4. Plain(z) /\ ~IsLocal(z) BY <1>1, <2>2 DEF Plain, IsLocal
  <2> QED BY <2>1, <2>2, <2>3, <2>4
<1>2. CASE ~(y.sec = UNDEF /\ IsLocal(y))
  <2>1. EndBind(y) = y BY <1>2 DEF EndBind
  <2> QED BY <2>1
<1> QED BY <1>1, <1>2

\* A C file: once its symbols are cut off again the table is as before it.
LEMMA EndFileSets ==
    ASSUME NEW t, Hashed(t), NEW ys, IsSeq(ys)
    PROVE  EndFile(Compiled(t, ys), Len(t.syms)) =
             SetElfSyms(t, [k \in 1 .. Len(ys) |-> EndBind(ys[k])], Bss)
<1> DEFINE q == t.syms \o ys
           n == Len(t.syms)
           c == Compiled(t, ys)
<1>1. IsSeq(t.syms) /\ t.hashing = TRUE BY DEF Hashed, TableShape
<1>2. /\ IsSeq(q) /\ n \in Nat /\ Len(ys) \in Nat /\ Len(q) = n + Len(ys)
      /\ \A i \in 1 .. n : q[i] = t.syms[i]
      /\ \A i \in 1 .. Len(ys) : q[n + i] = ys[i]
  <2> DEFINE s == t.syms
  <2>1. IsSeq(s) /\ IsSeq(ys) BY <1>1
  <2> HIDE DEF s, q, n, c
  <2>2. /\ IsSeq(s \o ys) /\ Len(s) \in Nat /\ Len(ys) \in Nat
        /\ Len(s \o ys) = Len(s) + Len(ys)
        /\ \A i \in 1 .. Len(s) : (s \o ys)[i] = s[i]
        /\ \A i \in 1 .. Len(ys) : (s \o ys)[Len(s) + i] = ys[i]
    BY <2>1, ConcatIsSeq
  <2> QED BY <2>2 DEF s, q, n
<1>3. SubSeq(q, 1, n) = t.syms
  <2>1. SubSeq(q, 1, n) = [i \in 1 .. n |-> q[i]]
    <3> DEFINE S == Range(q)
    <3>1. q \in Seq(S) BY <1>2 DEF IsSeq
    <3> HIDE DEF q, S
    <3> QED BY <1>2, <3>1
  <2>2. t.syms = [i \in 1 .. n |-> t.syms[i]] BY <1>1, SeqIsFcn
  <2> HIDE DEF q
  <2> QED BY <1>2, <2>1, <2>2
<1>4. c = Table(q, t.nbuckets, t.bucket, t.chain, t.hashed, FALSE)
  <2>1. t = Table(t.syms, t.nbuckets, t.bucket, t.chain, t.hashed, t.hashing) BY HashedTable
  <2> DEFINE syms == t.syms
             nb == t.nbuckets
             bucket == t.bucket
             chain == t.chain
             hashed == t.hashed
             on == t.hashing
             off == FALSE
  <2>2. c = [[t EXCEPT !.syms = q] EXCEPT !.hashing = off] BY DEF Compiled, PutUnhashed
  <2> HIDE DEF q, c, syms, nb, bucket, chain, hashed, on, off
  <2>3. t = Table(syms, nb, bucket, chain, hashed, on)
    BY <2>1 DEF syms, nb, bucket, chain, hashed, on
  <2>4. [t EXCEPT !.syms = q] = Table(q, nb, bucket, chain, hashed, on) BY <2>3 DEF Table
  <2>5. c = Table(q, nb, bucket, chain, hashed, off) BY <2>2, <2>4 DEF Table
  <2> QED BY <2>5 DEF nb, bucket, chain, hashed, off
<1> DEFINE u == [c EXCEPT !.syms = SubSeq(@, 1, n), !.hashing = TRUE]
<1>5. u = t
  <2> DEFINE syms == t.syms
             nb == t.nbuckets
             bucket == t.bucket
             chain == t.chain
             hashed == t.hashed
             on == t.hashing
             off == FALSE
  <2>1. t = Table(t.syms, t.nbuckets, t.bucket, t.chain, t.hashed, t.hashing) BY HashedTable
  <2>2. c.syms = q BY <1>4 DEF Table
  <2>3. u = [c EXCEPT !.syms = syms, !.hashing = on]
    <3> HIDE DEF c
    <3> QED BY <1>1, <1>3, <2>2
  <2> HIDE DEF q, c, u, syms, nb, bucket, chain, hashed, on, off
  <2>4. c = Table(q, nb, bucket, chain, hashed, off)
    BY <1>4 DEF nb, bucket, chain, hashed, off
  <2>5. t = Table(syms, nb, bucket, chain, hashed, on)
    BY <2>1 DEF syms, nb, bucket, chain, hashed, on
  <2>6. u = Table(syms, nb, bucket, chain, hashed, on) BY <2>3, <2>4 DEF Table
  <2> QED BY <2>5, <2>6
<1>6. [k \in 1 .. Len(c.syms) - n |-> EndBind(c.syms[n + k])] = [k \in 1 .. Len(ys) |-> EndBind(ys[k])]
  <2>1. c.syms = q BY <1>4 DEF Table
  <2>2. Len(q) - n = Len(ys) BY <1>2
  <2> HIDE DEF q, c
  <2> QED BY <1>2, <2>1, <2>2
<1>7. EndFile(c, n) = SetElfSyms(u, [k \in 1 .. Len(c.syms) - n |-> EndBind(c.syms[n + k])], Bss)
  BY DEF EndFile
<1> HIDE DEF c, u
<1> QED BY <1>5, <1>6, <1>7 DEF c

-----------------------------------------------------------------------------
(* The index of an archive, and the symbols that the linker provides.          *)

\* One symbol of a member after the other.
LEMMA EntriesSteps ==
    ASSUME NEW es, NEW ys, Len(ys) \in Nat, NEW no
    PROVE  /\ Entries(es, ys, no)[0] = es
           /\ \A k \in 1 .. Len(ys) :
                 Entries(es, ys, no)[k] = Entered(Entries(es, ys, no)[k - 1], ys[k], no)
<1> DEFINE n == Len(ys)
           Step(f, k) == IF k = 0 THEN es ELSE Entered(f[k - 1], ys[k], no)
           Runs(f, m) == \A k \in 0 .. m : f[k] = Step(f, k)
           Bad == {m \in Nat : ~ \E f : Runs(f, m)}
           W == Entries(es, ys, no)
<1>1. Bad = {}
  <2> SUFFICES ASSUME Bad # {} PROVE FALSE OBVIOUS
  <2>1. PICK m \in Bad : \A l \in Bad : m <= l
    <3>1. Bad \subseteq Nat OBVIOUS
    <3> HIDE DEF Bad
    <3> QED BY <3>1, LeastNat
  <2>2. CASE m = 0
    <3>1. Runs([k \in 0 .. 0 |-> es], 0) OBVIOUS
    <3> QED BY <2>1, <2>2, <3>1
  <2>3. CASE m # 0
    <3>0. m - 1 \in Nat /\ ~(m <= m - 1) BY <2>1, <2>3
    <3>1. m - 1 \notin Bad
      <4> HIDE DEF Bad
      <4> QED BY <2>1, <3>0
    <3>2. PICK f : Runs(f, m - 1) BY <3>0, <3>1
    <3> DEFINE last == Entered(f[m - 1], ys[m], no)
               g == [k \in 0 .. m |-> IF k = m THEN last ELSE f[k]]
    <3>4. ASSUME NEW k \in 0 .. m PROVE g[k] = Step(g, k)
      <4> HIDE DEF last
      <4>1. CASE k = m
        <5>1. g[k] = last /\ g[m - 1] = f[m - 1] BY <3>0, <4>1
        <5> HIDE DEF g
        <5> QED BY <2>3, <4>1, <5>1 DEF last
      <4>2. CASE k # m
        <5>1. k \in 0 .. m - 1 /\ g[k] = f[k] BY <3>0, <4>2
        <5>2. k # 0 => g[k - 1] = f[k - 1] BY <3>0, <5>1
        <5> HIDE DEF g
        <5> QED BY <3>2, <5>1, <5>2
      <4> QED BY <4>1, <4>2
    <3>5. Runs(g, m)
      <4> HIDE DEF g, Step
      <4> QED BY <3>4
    <3> HIDE DEF Runs
    <3> QED BY <2>1, <3>5
  <2> QED BY <2>2, <2>3
<1>2. PICK f : Runs(f, n) BY <1>1
<1> DEFINE F == [k \in 0 .. n |-> f[k]]
<1>3. F = [k \in 0 .. n |-> Step(F, k)]
  <2>1. ASSUME NEW k \in 0 .. n PROVE F[k] = Step(F, k)
    <3>1. F[k] = f[k] /\ (k # 0 => F[k - 1] = f[k - 1]) OBVIOUS
    <3>2. f[k] = Step(f, k) BY <1>2
    <3> HIDE DEF F
    <3> QED BY <3>1, <3>2
  <2> HIDE DEF Step
  <2> QED BY <2>1
<1>4. W = CHOOSE h : h = [k \in 0 .. n |-> Step(h, k)] BY DEF Entries
<1>5. W = [k \in 0 .. n |-> Step(W, k)]
  <2> HIDE DEF W, F
  <2> QED BY <1>3, <1>4
<1>6. ASSUME NEW k \in 0 .. n PROVE W[k] = Step(W, k)
  <2> HIDE DEF W
  <2> QED BY <1>5
<1>7. W[0] = es
  <2> HIDE DEF W
  <2> QED BY <1>6
<1>8. ASSUME NEW k \in 1 .. n PROVE W[k] = Entered(W[k - 1], ys[k], no)
  <2> HIDE DEF W
  <2>1. k \in 0 .. n /\ k # 0 OBVIOUS
  <2> QED BY <1>6, <2>1
<1> QED BY <1>7, <1>8

\* One member after the other.
LEMMA IndexSteps ==
    ASSUME NEW a, Len(a.members) \in Nat
    PROVE  /\ IndexUpTo(a)[0] = <<>>
           /\ \A k \in 1 .. Len(a.members) :
                 IndexUpTo(a)[k] = Entries(IndexUpTo(a)[k - 1], a.members[k].syms, k)[Len(a.members[k].syms)]
<1> DEFINE n == Len(a.members)
           Step(f, k) == IF k = 0 THEN <<>> ELSE Entries(f[k - 1], a.members[k].syms, k)[Len(a.members[k].syms)]
           Runs(f, m) == \A k \in 0 .. m : f[k] = Step(f, k)
           Bad == {m \in Nat : ~ \E f : Runs(f, m)}
           W == IndexUpTo(a)
<1>1. Bad = {}
  <2> SUFFICES ASSUME Bad # {} PROVE FALSE OBVIOUS
  <2>1. PICK m \in Bad : \A l \in Bad : m <= l
    <3>1. Bad \subseteq Nat OBVIOUS
    <3> HIDE DEF Bad
    <3> QED BY <3>1, LeastNat
  <2>2. CASE m = 0
    <3>1. Runs([k \in 0 .. 0 |-> <<>>], 0) OBVIOUS
    <3> QED BY <2>1, <2>2, <3>1
  <2>3. CASE m # 0
    <3>0. m - 1 \in Nat /\ ~(m <= m - 1) BY <2>1, <2>3
    <3>1. m - 1 \notin Bad
      <4> HIDE DEF Bad
      <4> QED BY <2>1, <3>0
    <3>2. PICK f : Runs(f, m - 1) BY <3>0, <3>1
    <3> DEFINE last == Entries(f[m - 1], a.members[m].syms, m)[Len(a.members[m].syms)]
               g == [k \in 0 .. m |-> IF k = m THEN last ELSE f[k]]
    <3>4. ASSUME NEW k \in 0 .. m PROVE g[k] = Step(g, k)
      <4> HIDE DEF last
      <4>1. CASE k = m
        <5>1. g[k] = last /\ g[m - 1] = f[m - 1] BY <3>0, <4>1
        <5> HIDE DEF g
        <5> QED BY <2>3, <4>1, <5>1 DEF last
      <4>2. CASE k # m
        <5>1. k \in 0 .. m - 1 /\ g[k] = f[k] BY <3>0, <4>2
        <5>2. k # 0 => g[k - 1] = f[k - 1] BY <3>0, <5>1
        <5> HIDE DEF g
        <5> QED BY <3>2, <5>1, <5>2
      <4> QED BY <4>1, <4>2
    <3>5. Runs(g, m)
      <4> HIDE DEF g, Step
      <4> QED BY <3>4
    <3> HIDE DEF Runs
    <3> QED BY <2>1, <3>5
  <2> QED BY <2>2, <2>3
<1>2. PICK f : Runs(f, n) BY <1>1
<1> DEFINE F == [k \in 0 .. n |-> f[k]]
<1>3. F = [k \in 0 .. n |-> Step(F, k)]
  <2>1. ASSUME NEW k \in 0 .. n PROVE F[k] = Step(F, k)
    <3>1. F[k] = f[k] /\ (k # 0 => F[k - 1] = f[k - 1]) OBVIOUS
    <3>2. f[k] = Step(f, k) BY <1>2
    <3> HIDE DEF F
    <3> QED BY <3>1, <3>2
  <2> HIDE DEF Step
  <2> QED BY <2>1
<1>4. W = CHOOSE h : h = [k \in 0 .. n |-> Step(h, k)] BY DEF IndexUpTo
<1>5. W = [k \in 0 .. n |-> Step(W, k)]
  <2> HIDE DEF W, F
  <2> QED BY <1>3, <1>4
<1>6. ASSUME NEW k \in 0 .. n PROVE W[k] = Step(W, k)
  <2> HIDE DEF W
  <2> QED BY <1>5
<1>7. W[0] = <<>>
  <2> HIDE DEF W
  <2> QED BY <1>6
<1>8. ASSUME NEW k \in 1 .. n PROVE W[k] = Entries(W[k - 1], a.members[k].syms, k)[Len(a.members[k].syms)]
  <2> HIDE DEF W
  <2>1. k \in 0 .. n /\ k # 0 OBVIOUS
  <2> QED BY <1>6, <2>1
<1> QED BY <1>7, <1>8

\* One symbol of the linker after the other.
LEMMA LinkerSymsSteps ==
    ASSUME NEW a, Len(LinkerSymbols) \in Nat
    PROVE  /\ LinkerSymsAdded(a)[0] = a
           /\ \A k \in 1 .. Len(LinkerSymbols) :
                 LinkerSymsAdded(a)[k] = LinkerSymAdded(LinkerSymsAdded(a)[k - 1], LinkerSymbols[k])
<1> DEFINE n == Len(LinkerSymbols)
           Step(f, k) == IF k = 0 THEN a ELSE LinkerSymAdded(f[k - 1], LinkerSymbols[k])
           Runs(f, m) == \A k \in 0 .. m : f[k] = Step(f, k)
           Bad == {m \in Nat : ~ \E f : Runs(f, m)}
           W == LinkerSymsAdded(a)
<1>1. Bad = {}
  <2> SUFFICES ASSUME Bad # {} PROVE FALSE OBVIOUS
  <2>1. PICK m \in Bad : \A l \in Bad : m <= l
    <3>1. Bad \subseteq Nat OBVIOUS
    <3> HIDE DEF Bad
    <3> QED BY <3>1, LeastNat
  <2>2. CASE m = 0
    <3>1. Runs([k \in 0 .. 0 |-> a], 0) OBVIOUS
    <3> QED BY <2>1, <2>2, <3>1
  <2>3. CASE m # 0
    <3>0. m - 1 \in Nat /\ ~(m <= m - 1) BY <2>1, <2>3
    <3>1. m - 1 \notin Bad
      <4> HIDE DEF Bad
      <4> QED BY <2>1, <3>0
    <3>2. PICK f : Runs(f, m - 1) BY <3>0, <3>1
    <3> DEFINE last == LinkerSymAdded(f[m - 1], LinkerSymbols[m])
               g == [k \in 0 .. m |-> IF k = m THEN last ELSE f[k]]
    <3>4. ASSUME NEW k \in 0 .. m PROVE g[k] = Step(g, k)
      <4> HIDE DEF last
      <4>1. CASE k = m
        <5>1. g[k] = last /\ g[m - 1] = f[m - 1] BY <3>0, <4>1
        <5> HIDE DEF g
        <5> QED BY <2>3, <4>1, <5>1 DEF last
      <4>2. CASE k # m
        <5>1. k \in 0 .. m - 1 /\ g[k] = f[k] BY <3>0, <4>2
        <5>2. k # 0 => g[k - 1] = f[k - 1] BY <3>0, <5>1
        <5> HIDE DEF g
        <5> QED BY <3>2, <5>1, <5>2
      <4> QED BY <4>1, <4>2
    <3>5. Runs(g, m)
      <4> HIDE DEF g, Step
      <4> QED BY <3>4
    <3> HIDE DEF Runs
    <3> QED BY <2>1, <3>5
  <2> QED BY <2>2, <2>3
<1>2. PICK f : Runs(f, n) BY <1>1
<1> DEFINE F == [k \in 0 .. n |-> f[k]]
<1>3. F = [k \in 0 .. n |-> Step(F, k)]
  <2>1. ASSUME NEW k \in 0 .. n PROVE F[k] = Step(F, k)
    <3>1. F[k] = f[k] /\ (k # 0 => F[k - 1] = f[k - 1]) OBVIOUS
    <3>2. f[k] = Step(f, k) BY <1>2
    <3> HIDE DEF F
    <3> QED BY <3>1, <3>2
  <2> HIDE DEF Step
  <2> QED BY <2>1
<1>4. W = CHOOSE h : h = [k \in 0 .. n |-> Step(h, k)] BY DEF LinkerSymsAdded
<1>5. W = [k \in 0 .. n |-> Step(W, k)]
  <2> HIDE DEF W, F
  <2> QED BY <1>3, <1>4
<1>6. ASSUME NEW k \in 0 .. n PROVE W[k] = Step(W, k)
  <2> HIDE DEF W
  <2> QED BY <1>5
<1>7. W[0] = a
  <2> HIDE DEF W
  <2> QED BY <1>6
<1>8. ASSUME NEW k \in 1 .. n PROVE W[k] = LinkerSymAdded(W[k - 1], LinkerSymbols[k])
  <2> HIDE DEF W
  <2>1. k \in 0 .. n /\ k # 0 OBVIOUS
  <2> QED BY <1>6, <2>1
<1> QED BY <1>7, <1>8

\* The index names members of the archive, and symbols that there are.
Indexed(es, n) ==
    IsSeq(es) /\ \A i \in 1 .. Len(es) : es[i].member \in 1 .. n /\ es[i].name \in SymNames

LEMMA EnteredIndexed ==
    ASSUME NEW n, NEW es, Indexed(es, n), NEW y, y.name \in SymNames, NEW m \in 1 .. n
    PROVE  Indexed(Entered(es, y, m), n)
<1> DEFINE e == [name |-> y.name, member |-> m]
           z == Append(es, e)
<1>1. e.member \in 1 .. n /\ e.name \in SymNames OBVIOUS
<1> HIDE DEF e
<1>2. /\ IsSeq(z) /\ Len(es) \in Nat /\ Len(z) = Len(es) + 1 /\ z[Len(es) + 1] = e
      /\ \A i \in 1 .. Len(es) : z[i] = es[i]
  BY AppendIsSeq DEF Indexed
<1> HIDE DEF z
<1>3. \A i \in 1 .. Len(z) : i \in 1 .. Len(es) \/ i = Len(es) + 1 BY <1>2
<1>4. Indexed(z, n) BY <1>1, <1>2, <1>3 DEF Indexed
<1>5. Entered(es, y, m) = z \/ Entered(es, y, m) = es BY DEF Entered, z, e
<1> QED BY <1>4, <1>5

LEMMA EntriesIndexed ==
    ASSUME NEW top, NEW es, Indexed(es, top), NEW ys, IsSeq(ys), NEW m \in 1 .. top,
           \A j \in 1 .. Len(ys) : ys[j].name \in SymNames
    PROVE  Indexed(Entries(es, ys, m)[Len(ys)], top)
<1> DEFINE n == Len(ys)
           W == Entries(es, ys, m)
           Bad == {k \in 0 .. n : ~Indexed(W[k], top)}
<1>0. n \in Nat BY SeqIsFcn
<1>1. W[0] = es /\ \A k \in 1 .. n : W[k] = Entered(W[k - 1], ys[k], m) BY <1>0, EntriesSteps
<1> HIDE DEF W
<1>2. Bad = {}
  <2> SUFFICES ASSUME Bad # {} PROVE FALSE OBVIOUS
  <2>1. PICK k \in Bad : \A l \in Bad : k <= l
    <3>1. Bad \subseteq Nat BY <1>0
    <3> HIDE DEF Bad
    <3> QED BY <3>1, LeastNat
  <2>2. k \in 0 .. n /\ ~Indexed(W[k], top) OBVIOUS
  <2>3. k # 0 BY <1>1, <2>2
  <2>4. k \in 1 .. n /\ k - 1 \in 0 .. n /\ ~(k <= k - 1) BY <1>0, <2>2, <2>3
  <2>5. k - 1 \notin Bad
    <3> HIDE DEF Bad
    <3> QED BY <2>1, <2>4
  <2>6. Indexed(W[k - 1], top) BY <2>4, <2>5
  <2>7. Indexed(Entered(W[k - 1], ys[k], m), top) BY <2>4, <2>6, EnteredIndexed
  <2> QED BY <1>1, <2>2, <2>4, <2>7
<1>3. Indexed(W[n], top) BY <1>0, <1>2
<1> QED BY <1>3 DEF W

LEMMA ArIndexed ==
    ASSUME NEW a, IsSeq(a.members), \A m \in DOMAIN a.members : ObjectFile(a.members[m])
    PROVE  Indexed(ArIndex(a), Len(a.members)) /\ DOMAIN a.members = 1 .. Len(a.members)
<1> DEFINE n == Len(a.members)
           W == IndexUpTo(a)
           Bad == {k \in 0 .. n : ~Indexed(W[k], n)}
<1>0. n \in Nat /\ DOMAIN a.members = 1 .. n BY SeqIsFcn
<1>1. /\ W[0] = <<>>
      /\ \A k \in 1 .. n : W[k] = Entries(W[k - 1], a.members[k].syms, k)[Len(a.members[k].syms)]
  BY <1>0, IndexSteps
<1> HIDE DEF W
<1>2. Indexed(<<>>, n)
  <2>1. <<>> \in Seq(Range(<<>>)) /\ Len(<<>>) = 0 OBVIOUS
  <2> QED BY <2>1 DEF Indexed, IsSeq
<1>3. Bad = {}
  <2> SUFFICES ASSUME Bad # {} PROVE FALSE OBVIOUS
  <2>1. PICK k \in Bad : \A l \in Bad : k <= l
    <3>1. Bad \subseteq Nat BY <1>0
    <3> HIDE DEF Bad
    <3> QED BY <3>1, LeastNat
  <2>2. k \in 0 .. n /\ ~Indexed(W[k], n) OBVIOUS
  <2>3. k # 0 BY <1>1, <1>2, <2>2
  <2>4. k \in 1 .. n /\ k - 1 \in 0 .. n /\ ~(k <= k - 1) BY <1>0, <2>2, <2>3
  <2>5. k - 1 \notin Bad
    <3> HIDE DEF Bad
    <3> QED BY <2>1, <2>4
  <2>6. Indexed(W[k - 1], n) BY <2>4, <2>5
  <2>7. Indexed(Entries(W[k - 1], a.members[k].syms, k)[Len(a.members[k].syms)], n)
    <3> DEFINE ys == a.members[k].syms
    <3>1. IsSeq(ys) /\ DOMAIN ys = 1 .. Len(ys) /\ \A j \in DOMAIN ys : ys[j].name \in SymNames
      <4>1. ObjectFile(a.members[k]) BY <1>0, <2>4
      <4> QED BY <4>1, SeqIsFcn DEF ObjectFile
    <3> HIDE DEF ys
    <3>2. Indexed(Entries(W[k - 1], ys, k)[Len(ys)], n) BY <2>4, <2>6, <3>1, EntriesIndexed
    <3> QED BY <3>2 DEF ys
  <2> QED BY <1>1, <2>2, <2>4, <2>7
<1>4. Indexed(W[n], n) BY <1>0, <1>3
<1> QED BY <1>0, <1>4 DEF W, ArIndex

LEMMA LinkerSymHashed ==
    ASSUME NEW a, Hashed(a.t), NEW d, d.name \in SymNames
    PROVE  Hashed(LinkerSymAdded(a, d).t)
<1> DEFINE ss == WithSection(a.ss, [name |-> d.sec, type |-> "PROGBITS",
                                    flags |-> {"ALLOC"}, align |-> PtrSize])
           n == SectionNum(ss, d.sec)
           v == IF d.at = "end" THEN ss[n].offset ELSE 0
           y == [name |-> d.name, bind |-> "GLOBAL", vis |-> DEFAULT, asm |-> FALSE,
                 size |-> 0, sec |-> n, org |-> "linker", value |-> v]
<1>1. LinkerSymAdded(a, d).t = SetElfSym(a.t, y, Bss) BY DEF LinkerSymAdded
<1>2. SymOK(y)
  <2> HIDE DEF n, v
  <2> QED BY DEF SymOK, SymFields
<1> HIDE DEF y
<1> QED BY <1>1, <1>2, SetHashed

LEMMA LinkerSymsHashed ==
    ASSUME NEW a, Hashed(a.t)
    PROVE  Hashed(LinkerSymsAdded(a)[Len(LinkerSymbols)].t)
<1> DEFINE n == Len(LinkerSymbols)
           W == LinkerSymsAdded(a)
           Bad == {k \in 0 .. n : ~Hashed(W[k].t)}
<1>0. n \in Nat /\ DOMAIN LinkerSymbols = 1 .. n BY SymbolsAssumption, SeqIsFcn
<1>1. W[0] = a /\ \A k \in 1 .. n : W[k] = LinkerSymAdded(W[k - 1], LinkerSymbols[k])
  BY <1>0, LinkerSymsSteps
<1> HIDE DEF W
<1>2. Bad = {}
  <2> SUFFICES ASSUME Bad # {} PROVE FALSE OBVIOUS
  <2>1. PICK k \in Bad : \A l \in Bad : k <= l
    <3>1. Bad \subseteq Nat BY <1>0
    <3> HIDE DEF Bad
    <3> QED BY <3>1, LeastNat
  <2>2. k \in 0 .. n /\ ~Hashed(W[k].t) OBVIOUS
  <2>3. k # 0 BY <1>1, <2>2
  <2>4. k \in 1 .. n /\ k - 1 \in 0 .. n /\ ~(k <= k - 1) BY <1>0, <2>2, <2>3
  <2>5. k - 1 \notin Bad
    <3> HIDE DEF Bad
    <3> QED BY <2>1, <2>4
  <2>6. Hashed(W[k - 1].t) BY <2>4, <2>5
  <2>7. Hashed(LinkerSymAdded(W[k - 1], LinkerSymbols[k]).t)
    BY <1>0, <2>4, <2>6, SymbolsAssumption, LinkerSymHashed
  <2> QED BY <1>1, <2>2, <2>4, <2>7
<1>3. Hashed(W[n].t) BY <1>0, <1>2
<1> QED BY <1>3 DEF W

-----------------------------------------------------------------------------
(* The steps of the linker on the table.                                       *)

\* A symbol's section and value may change: the hash table does not see them.
LEMMA RevaluedHashed ==
    ASSUME NEW t, Hashed(t), NEW zs, zs = [i \in DOMAIN t.syms |-> zs[i]],
           \A i \in DOMAIN t.syms :
              \/ zs[i] = t.syms[i]
              \/ \E v, w : zs[i] = [t.syms[i] EXCEPT !.sec = v, !.value = w]
              \/ \E w : zs[i] = [t.syms[i] EXCEPT !.value = w]
    PROVE  Hashed([t EXCEPT !.syms = zs])
<1> DEFINE ys == t.syms
           n == Len(ys)
<1>1. /\ IsSeq(ys) /\ n \in Nat /\ DOMAIN ys = 1 .. n /\ \A i \in 1 .. n : SymOK(ys[i])
  BY SeqIsFcn DEF Hashed, TableShape
<1>2. IsSeq(zs) /\ Len(zs) = n
  <2>1. zs = [i \in 1 .. n |-> zs[i]] BY <1>1
  <2> HIDE DEF n
  <2> QED BY <1>1, <2>1, FcnIsSeq
<1>3. ASSUME NEW i \in 1 .. n
      PROVE  zs[i].name = ys[i].name /\ (IsLocal(zs[i]) <=> IsLocal(ys[i])) /\ SymOK(zs[i])
  <2> DEFINE y == ys[i]
             z == zs[i]
  <2>1. SymOK(y) BY <1>1
  <2>2. \/ z = y \/ (\E v, w : z = [y EXCEPT !.sec = v, !.value = w])
        \/ \E w : z = [y EXCEPT !.value = w]
    BY <1>1
  <2> HIDE DEF y, z
  <2>3. "name" \in DOMAIN y /\ "bind" \in DOMAIN y BY <2>1 DEF SymOK, SymFields
  <2>4. z.name = y.name /\ z.bind = y.bind /\ DOMAIN z = DOMAIN y BY <2>2, <2>3
  <2>5. z.name = y.name /\ (IsLocal(z) <=> IsLocal(y)) /\ SymOK(z)
    BY <2>1, <2>4 DEF SymOK, IsLocal
  <2> QED BY <2>5 DEF y, z
<1>4. Alike(ys, zs) BY <1>2, <1>3 DEF Alike
<1> QED BY <1>4, AlikeHashed

\* resolve_common_syms() and the symbols that the linker provides.
LEMMA CommonHashed ==
    ASSUME NEW ss, NEW t, Hashed(t)
    PROVE  Hashed(CommonPlaced(ss, t).t)
<1> DEFINE bss == BssAfter(ss, t)
           rs == [i \in DOMAIN t.syms |->
                    IF t.syms[i].sec # COMMON THEN t.syms[i]
                    ELSE [t.syms[i] EXCEPT !.sec = Bss, !.value = bss[i].offset - t.syms[i].size]]
<1>1. CommonPlaced(ss, t).t = [t EXCEPT !.syms = rs] BY DEF CommonPlaced
<1> HIDE DEF bss
<1>2. rs = [i \in DOMAIN t.syms |-> rs[i]] OBVIOUS
<1>3. \A i \in DOMAIN t.syms :
        \/ rs[i] = t.syms[i]
        \/ \E v, w : rs[i] = [t.syms[i] EXCEPT !.sec = v, !.value = w]
        \/ \E w : rs[i] = [t.syms[i] EXCEPT !.value = w]
  OBVIOUS
<1> HIDE DEF rs
<1>4. Hashed([t EXCEPT !.syms = rs]) BY <1>2, <1>3, RevaluedHashed
<1> QED BY <1>1, <1>4

\* The symbols of a file: what becomes of the table.
LEMMA SetSymsOK ==
    ASSUME NEW t, Hashed(t), NEW ys, IsSeq(ys), \A k \in 1 .. Len(ys) : SymTyped(ys[k])
    PROVE  Hashed(SetElfSyms(t, ys, Bss).tab) /\ SetElfSyms(t, ys, Bss).errors \in Nat
<1> DEFINE n == Len(ys)
           W == SetInTurn(t, ys, Bss)
           E == {k \in 1 .. n : DefinedTwice(W[k - 1], ys[k], Bss)}
<1>0. n \in Nat BY SeqIsFcn
<1>1. SetElfSyms(t, ys, Bss).tab = W[n] /\ SetElfSyms(t, ys, Bss).errors = Cardinality(E)
  BY DEF SetElfSyms
<1>2. \A k \in 1 .. n : SymOK(ys[k]) BY DEF SymTyped
<1>3. Hashed(W[n]) BY <1>0, <1>2, TurnHashed
<1>4. E \subseteq 1 .. n OBVIOUS
<1> HIDE DEF E, W
<1>5. IsFiniteSet(E)
  <2>1. IsFiniteSet(1 .. n) BY <1>0, FS_Interval
  <2> QED BY <1>4, <2>1, FS_Subset
<1>6. Cardinality(E) \in Nat BY <1>5, FS_CardinalityType
<1> QED BY <1>1, <1>3, <1>6

\* No symbol of a file that is linked is absolute or hidden.
PlainFile(f) == \A k \in DOMAIN f.syms : Plain(f.syms[k])

\* A file is merged: the table and the claims afterwards.
LEMMA MergeSyms ==
    ASSUME NEW f, ObjectFile(f), Hashed(tab), SecsOK(secs), IsSeq(seen),
           NEW at, at = Place(secs, f.id, f.secs).at,
           NEW ys, \/ ys = Moved(f, at)
                   \/ ys = [k \in 1 .. Len(Moved(f, at)) |-> EndBind(Moved(f, at)[k])]
    PROVE  /\ Hashed(SetElfSyms(tab, ys, Bss).tab) /\ SetElfSyms(tab, ys, Bss).errors \in Nat
           /\ IsSeq(seen \o ys)
           /\ PlainFile(f) /\ Settled(tab.syms, seen) =>
                 Settled(SetElfSyms(tab, ys, Bss).tab.syms, seen \o ys)
<1> DEFINE zs == Moved(f, at)
           n == Len(f.syms)
<1>1. \A k \in 1 .. Len(f.secs) : at[k].sec \in Nat \ {0} BY PlaceOK DEF ObjectFile
<1>2. /\ IsSeq(zs) /\ Len(zs) = n
      /\ \A k \in 1 .. n : SymTyped(zs[k]) /\ (Plain(f.syms[k]) => Plain(zs[k]))
  BY <1>1, MovedOK
<1>3. n \in Nat /\ DOMAIN f.syms = 1 .. n BY SeqIsFcn DEF ObjectFile
<1> HIDE DEF zs, n
<1>4. /\ IsSeq(ys) /\ Len(ys) = n
      /\ \A k \in 1 .. n : SymTyped(ys[k]) /\ (Plain(f.syms[k]) => Plain(ys[k]))
  <2>1. CASE ys = zs BY <1>2, <2>1
  <2>2. CASE ys = [k \in 1 .. Len(zs) |-> EndBind(zs[k])]
    <3>1. ys = [k \in 1 .. n |-> ys[k]] BY <1>2, <2>2
    <3>2. \A k \in 1 .. n : ys[k] = EndBind(zs[k]) BY <1>2, <2>2
    <3>3. IsSeq(ys) /\ Len(ys) = n BY <1>3, <3>1, FcnIsSeq
    <3> QED BY <1>2, <3>2, <3>3, EndBindOK
  <2> QED BY <2>1, <2>2 DEF zs
<1>5. Hashed(SetElfSyms(tab, ys, Bss).tab) /\ SetElfSyms(tab, ys, Bss).errors \in Nat
  BY <1>4, SetSymsOK
<1>6. IsSeq(seen \o ys) BY <1>4, ConcatIsSeq
<1>7. ASSUME PlainFile(f), Settled(tab.syms, seen)
      PROVE  Settled(SetElfSyms(tab, ys, Bss).tab.syms, seen \o ys)
  <2>1. \A k \in 1 .. Len(ys) : SymTyped(ys[k]) /\ Plain(ys[k])
    BY <1>3, <1>4, <1>7 DEF PlainFile
  <2>2. SetElfSyms(tab, ys, Bss).tab = SetInTurn(tab, ys, Bss)[Len(ys)] BY DEF SetElfSyms
  <2> QED BY <1>4, <1>7, <2>1, <2>2, SettledTurn
<1> QED BY <1>5, <1>6, <1>7

-----------------------------------------------------------------------------
(* Which files have been added: what is left of the command line and of the    *)
(* libraries, and which object each piece that was placed is from.             *)

Rest(fs, p) == [k \in 1 .. Len(fs) - p |-> fs[p + k]]

LEMMA RestSteps ==
    ASSUME NEW fs, IsSeq(fs), NEW p \in 0 .. Len(fs)
    PROVE  /\ Len(fs) \in Nat /\ DOMAIN fs = 1 .. Len(fs)
           /\ Rest(fs, p) = <<>> => p = Len(fs)
           /\ Rest(fs, p) # <<>> => /\ p + 1 \in 1 .. Len(fs)
                                    /\ Head(Rest(fs, p)) = fs[p + 1]
                                    /\ Tail(Rest(fs, p)) = Rest(fs, p + 1)
<1> DEFINE n == Len(fs)
           r == Rest(fs, p)
           u == Rest(fs, p + 1)
<1>1. n \in Nat /\ DOMAIN fs = 1 .. n BY SeqIsFcn
<1>2. n - p \in Nat BY <1>1
<1>3. r = [k \in 1 .. n - p |-> r[k]] /\ \A k \in 1 .. n - p : r[k] = fs[p + k] BY DEF Rest
<1>4. u = [k \in 1 .. n - (p + 1) |-> u[k]] /\ \A k \in 1 .. n - (p + 1) : u[k] = fs[(p + 1) + k]
  BY DEF Rest
<1> HIDE DEF r, u, n
<1>5. IsSeq(r) /\ Len(r) = n - p BY <1>2, <1>3, FcnIsSeq
<1>6. CASE p = n
  <2>1. Len(r) = 0 BY <1>1, <1>5, <1>6
  <2>2. r = <<>> BY <1>5, <2>1 DEF IsSeq
  <2> QED BY <1>1, <1>6, <2>2 DEF r, n
<1>7. CASE p # n
  <2>1. p + 1 \in 1 .. n /\ n - p >= 1
    <3>1. p \in 0 .. n BY DEF n
    <3> QED BY <1>1, <1>7, <3>1
  <2>2. r # <<>> BY <1>5, <2>1
  <2>3. Head(r) = r[1] BY <1>5, <2>2 DEF IsSeq
  <2>4. r[1] = fs[p + 1] BY <1>2, <1>3, <2>1
  <2>5. Tail(r) = [k \in 1 .. Len(r) - 1 |-> r[k + 1]]
    <3> DEFINE S == Range(r)
    <3>1. r \in Seq(S) BY <1>5 DEF IsSeq
    <3> HIDE DEF S
    <3>2. /\ Tail(r) \in Seq(S) /\ Len(Tail(r)) = Len(r) - 1
          /\ \A k \in 1 .. Len(r) - 1 : Tail(r)[k] = r[k + 1]
      BY <2>2, <3>1
    <3> DEFINE v == Tail(r)
    <3> HIDE DEF v
    <3>3. v \in Seq(S) /\ Len(v) = Len(r) - 1 /\ \A k \in 1 .. Len(r) - 1 : v[k] = r[k + 1]
      BY <3>2 DEF v
    <3>4. v = [k \in 1 .. Len(r) - 1 |-> r[k + 1]] BY <3>3
    <3> QED BY <3>4 DEF v
  <2>6. Len(r) - 1 = n - (p + 1) BY <1>1, <1>5
  <2>7. \A k \in 1 .. n - (p + 1) : k + 1 \in 1 .. n - p /\ p + (k + 1) = (p + 1) + k
    BY <1>1, <2>1
  <2>8. \A k \in 1 .. n - (p + 1) : r[k + 1] = u[k] BY <1>3, <1>4, <2>7
  <2>9. Tail(r) = u BY <1>4, <2>5, <2>6, <2>8
  <2> QED BY <1>1, <2>1, <2>2, <2>3, <2>4, <2>9 DEF r, u, n
<1> QED BY <1>6, <1>7

\* The command line c is at file p; its archives and objects, and those of
\* the libraries, are the sequence that c and Runtime make.
AtFile(c, p, ph, inp, a) ==
    /\ p \in 0 .. Len(c \o Runtime)
    /\ ph = "files" => p <= Len(c) /\ inp = Rest(c, p)
    /\ ph = "runtime" => inp = Rest(c \o Runtime, p)
    /\ a # NoArchive => p >= 1 /\ a.file = (c \o Runtime)[p] /\ a.file.kind = "a"

\* A piece w of a section is from one of the first p files, and from a member
\* that was loaded if file p is an archive that is still open.
Came(fs, p, a, w) ==
    \E q \in 1 .. p : \E m \in Objects(fs[q]) :
        /\ w.file = ObjectOf(fs[q], m).id
        /\ q = p /\ a # NoArchive => m \in a.loaded

\* No section of an object is there twice.
Once(ws) ==
    \A j, k \in 1 .. Len(ws) : ws[j].file = ws[k].file /\ ws[j].num = ws[k].num => j = k

Pieces(fs, p, a, ws) ==
    IsSeq(ws) /\ Once(ws) /\ \A j \in 1 .. Len(ws) : Came(fs, p, a, ws[j])

\* What the assumption on the files says of one command line.
LEMMA FilesOK ==
    ASSUME NEW c \in CommandLines
    PROVE  /\ IsSeq(c) /\ IsSeq(Runtime) /\ IsSeq(c \o Runtime) /\ WellFormed(c \o Runtime)
           /\ Len(c) \in Nat /\ Len(Runtime) \in Nat /\ Len(c \o Runtime) = Len(c) + Len(Runtime)
           /\ DOMAIN (c \o Runtime) = 1 .. Len(c \o Runtime)
           /\ \A i \in 1 .. Len(c) : (c \o Runtime)[i] = c[i]
           /\ \A i \in 1 .. Len(Runtime) : (c \o Runtime)[Len(c) + i] = Runtime[i]
<1>1. IsSeq(c) /\ IsSeq(Runtime) /\ WellFormed(c \o Runtime) BY FilesAssumption
<1>2. /\ IsSeq(c \o Runtime) /\ Len(c) \in Nat /\ Len(Runtime) \in Nat
      /\ Len(c \o Runtime) = Len(c) + Len(Runtime)
      /\ \A i \in 1 .. Len(c) : (c \o Runtime)[i] = c[i]
      /\ \A i \in 1 .. Len(Runtime) : (c \o Runtime)[Len(c) + i] = Runtime[i]
  BY <1>1, ConcatIsSeq
<1>3. DOMAIN (c \o Runtime) = 1 .. Len(c \o Runtime)
  <2> DEFINE fs == c \o Runtime
  <2>1. IsSeq(fs) BY <1>2
  <2> HIDE DEF fs
  <2>2. DOMAIN fs = 1 .. Len(fs) BY <2>1, SeqIsFcn
  <2> QED BY <2>2 DEF fs
<1> QED BY <1>1, <1>2, <1>3

\* The next file.
LEMMA NextFile ==
    ASSUME NEW c \in CommandLines, NEW p, NEW ph, ph \in {"files", "runtime"}, NEW inp,
           NEW a, AtFile(c, p, ph, inp, a), inp # <<>>, NEW b,
           b # NoArchive => b.file = Head(inp) /\ b.file.kind = "a"
    PROVE  /\ p \in Nat /\ p + 1 \in 1 .. Len(c \o Runtime)
           /\ Head(inp) = (c \o Runtime)[p + 1]
           /\ AtFile(c, p + 1, ph, Tail(inp), b)
<1> DEFINE fs == c \o Runtime
           l == Len(c)
<1>1. /\ IsSeq(c) /\ IsSeq(fs) /\ l \in Nat /\ Len(fs) \in Nat /\ Len(fs) >= l
      /\ \A i \in 1 .. l : fs[i] = c[i]
  BY FilesOK
<1>2. /\ p \in 0 .. Len(fs)
      /\ ph = "files" => p <= l /\ inp = Rest(c, p)
      /\ ph = "runtime" => inp = Rest(fs, p)
  BY DEF AtFile
<1> HIDE DEF fs, l
<1>3. CASE ph = "files"
  <2>1. p \in 0 .. Len(c) BY <1>1, <1>2, <1>3 DEF l
  <2>2. p + 1 \in 1 .. Len(c) /\ Head(inp) = c[p + 1] /\ Tail(inp) = Rest(c, p + 1)
    BY <1>1, <1>2, <1>3, <2>1, RestSteps
  <2>3. p + 1 \in 1 .. Len(fs) /\ p + 1 <= l /\ p + 1 \in 1 .. l /\ p \in Nat /\ p + 1 \in 0 .. Len(fs)
    BY <1>1, <1>2, <2>2 DEF l
  <2>4. Head(inp) = fs[p + 1] BY <1>1, <2>2, <2>3
  <2>5. AtFile(c, p + 1, ph, Tail(inp), b) BY <1>3, <2>2, <2>3, <2>4 DEF AtFile, fs, l
  <2> QED BY <2>3, <2>4, <2>5 DEF fs
<1>4. CASE ph = "runtime"
  <2>2. p + 1 \in 1 .. Len(fs) /\ Head(inp) = fs[p + 1] /\ Tail(inp) = Rest(fs, p + 1)
    BY <1>1, <1>2, <1>4, RestSteps
  <2>3. p \in Nat /\ p + 1 \in 0 .. Len(fs) BY <1>1, <1>2, <2>2
  <2>5. AtFile(c, p + 1, ph, Tail(inp), b) BY <1>4, <2>2, <2>3 DEF AtFile, fs
  <2> QED BY <2>2, <2>3, <2>5 DEF fs
<1> QED BY <1>3, <1>4

\* Pieces that were there stay.
LEMMA PiecesKept ==
    ASSUME NEW fs, NEW p \in Nat, NEW q \in Nat, p <= q, NEW a, NEW b, NEW ws, Pieces(fs, p, a, ws),
           p = q /\ b # NoArchive => a # NoArchive /\ a.loaded \subseteq b.loaded
    PROVE  Pieces(fs, q, b, ws)
<1>1. ASSUME NEW w, Came(fs, p, a, w) PROVE Came(fs, q, b, w)
  <2>1. PICK i \in 1 .. p : \E m \in Objects(fs[i]) :
          w.file = ObjectOf(fs[i], m).id /\ (i = p /\ a # NoArchive => m \in a.loaded)
    BY <1>1 DEF Came
  <2>2. PICK m \in Objects(fs[i]) :
          w.file = ObjectOf(fs[i], m).id /\ (i = p /\ a # NoArchive => m \in a.loaded)
    BY <2>1
  <2>3. i \in 1 .. q /\ (i = q => p = q) BY <2>1
  <2>4. i = q /\ b # NoArchive => m \in b.loaded BY <2>2, <2>3
  <2> QED BY <2>2, <2>3, <2>4 DEF Came
<1> QED BY <1>1 DEF Pieces

\* The sections of an object none of which was there.
LEMMA PiecesMore ==
    ASSUME NEW fs, NEW p \in Nat, NEW b, NEW ws, Pieces(fs, p, b, ws),
           NEW id, \E m \in Objects(fs[p]) : id = ObjectOf(fs[p], m).id
                                             /\ (b # NoArchive => m \in b.loaded),
           p >= 1, \A j \in 1 .. Len(ws) : ws[j].file # id,
           NEW at, IsSeq(at), \A k \in 1 .. Len(at) : at[k].file = id /\ at[k].num = k
    PROVE  Pieces(fs, p, b, ws \o at)
<1> DEFINE z == ws \o at
           n == Len(ws)
<1>1. /\ IsSeq(z) /\ n \in Nat /\ Len(at) \in Nat /\ Len(z) = n + Len(at)
      /\ \A i \in 1 .. n : z[i] = ws[i]
      /\ \A i \in 1 .. Len(at) : z[n + i] = at[i]
  BY ConcatIsSeq DEF Pieces
<1> HIDE DEF z
<1>2. \A i \in 1 .. Len(z) : i \notin 1 .. n => i - n \in 1 .. Len(at) /\ i = n + (i - n)
  BY <1>1
<1>3. ASSUME NEW i \in 1 .. Len(z), i \notin 1 .. n PROVE z[i].file = id /\ z[i].num = i - n
  <2> DEFINE k == i - n
  <2>1. k \in 1 .. Len(at) /\ i = n + k BY <1>2, <1>3
  <2> HIDE DEF k
  <2>2. z[n + k] = at[k] BY <1>1, <2>1
  <2>3. at[k].file = id /\ at[k].num = k BY <2>1
  <2>4. z[i].file = id /\ z[i].num = k BY <2>1, <2>2, <2>3
  <2> QED BY <2>4 DEF k
<1>4. Once(z)
  <2> SUFFICES ASSUME NEW j \in 1 .. Len(z), NEW k \in 1 .. Len(z), z[j].file = z[k].file,
                      z[j].num = z[k].num
               PROVE  j = k
    BY DEF Once
  <2>1. CASE j \in 1 .. n /\ k \in 1 .. n BY <1>1, <2>1 DEF Pieces, Once
  <2>2. CASE j \in 1 .. n /\ k \notin 1 .. n
    <3>1. z[j] = ws[j] /\ ws[j].file # id BY <1>1, <2>2
    <3>2. z[k].file = id BY <1>3, <2>2
    <3> QED BY <3>1, <3>2
  <2>3. CASE j \notin 1 .. n /\ k \in 1 .. n
    <3>1. z[k] = ws[k] /\ ws[k].file # id BY <1>1, <2>3
    <3>2. z[j].file = id BY <1>3, <2>3
    <3> QED BY <3>1, <3>2
  <2>4. CASE j \notin 1 .. n /\ k \notin 1 .. n
    <3>1. j - n = k - n BY <1>3, <2>4
    <3> QED BY <1>1, <3>1
  <2> QED BY <2>1, <2>2, <2>3, <2>4
<1>5. ASSUME NEW i \in 1 .. Len(z) PROVE Came(fs, p, b, z[i])
  <2>1. CASE i \in 1 .. n BY <1>1, <2>1 DEF Pieces
  <2>2. CASE i \notin 1 .. n
    <3>1. z[i].file = id BY <1>3, <2>2
    <3>2. p \in 1 .. p OBVIOUS
    <3> QED BY <3>1, <3>2 DEF Came
  <2> QED BY <2>1, <2>2
<1> QED BY <1>1, <1>4, <1>5 DEF Pieces, z

\* Object m of file q comes next.
ComesNext(fs, p, a, q, m) ==
    /\ p \in 0 .. Len(fs) /\ q \in 1 .. Len(fs) /\ m \in Objects(fs[q])
    /\ p < q \/ (p = q /\ a # NoArchive /\ m \notin a.loaded)

\* Two objects have two ids.
LEMMA NewId ==
    ASSUME NEW fs, WellFormed(fs), NEW p, NEW a, NEW ws, Pieces(fs, p, a, ws),
           NEW q, NEW m, ComesNext(fs, p, a, q, m)
    PROVE  \A j \in 1 .. Len(ws) : ws[j].file # ObjectOf(fs[q], m).id
<1>0. Len(fs) \in Nat /\ DOMAIN fs = 1 .. Len(fs) BY SeqIsFcn DEF WellFormed
<1> SUFFICES ASSUME NEW j \in 1 .. Len(ws), ws[j].file = ObjectOf(fs[q], m).id
             PROVE  FALSE
  OBVIOUS
<1>1. Came(fs, p, a, ws[j]) BY DEF Pieces
<1>2. PICK i \in 1 .. p : \E o \in Objects(fs[i]) :
        ws[j].file = ObjectOf(fs[i], o).id /\ (i = p /\ a # NoArchive => o \in a.loaded)
  BY <1>1 DEF Came
<1>3. PICK o \in Objects(fs[i]) :
        ws[j].file = ObjectOf(fs[i], o).id /\ (i = p /\ a # NoArchive => o \in a.loaded)
  BY <1>2
<1>4. i \in DOMAIN fs /\ q \in DOMAIN fs BY <1>0, <1>2 DEF ComesNext
<1>5. \A x, y \in DOMAIN fs : \A u \in Objects(fs[x]), v \in Objects(fs[y]) :
        ObjectOf(fs[x], u).id = ObjectOf(fs[y], v).id => x = y /\ u = v
  BY DEF WellFormed
<1>6. ObjectOf(fs[i], o).id = ObjectOf(fs[q], m).id BY <1>3
<1>7. i = q /\ o = m
  <2>1. \A u \in Objects(fs[i]), v \in Objects(fs[q]) :
          ObjectOf(fs[i], u).id = ObjectOf(fs[q], v).id => i = q /\ u = v
    BY <1>4, <1>5, Zenon
  <2>2. o \in Objects(fs[i]) /\ m \in Objects(fs[q]) BY <1>3 DEF ComesNext
  <2> QED BY <1>6, <2>1, <2>2, Zenon
<1> QED BY <1>0, <1>2, <1>3, <1>7 DEF ComesNext

-----------------------------------------------------------------------------
(* The invariant.                                                              *)

\* No file that may be linked has a definition that is hidden or absolute.
Ordinary ==
    \A c \in CommandLines : \A p \in DOMAIN (c \o Runtime) : \A m \in Objects((c \o Runtime)[p]) :
        PlainFile(ObjectOf((c \o Runtime)[p], m))

\* The archive that is open: a walk over the index starts at its first entry,
\* and only a member that was loaded takes it on from there.
ArchOK(a) ==
    /\ a = [file |-> a.file, i |-> a.i, bound |-> a.bound, loaded |-> a.loaded]
    /\ a.i \in Nat \ {0} /\ a.bound \in Nat /\ (a.bound = 0 => a.i = 1)

TableInv == phase # "done" => Hashed(tab)
ArchiveInv == archive = NoArchive \/ (Adding /\ ArchOK(archive))
ClaimsInv ==
    Adding => /\ SecsOK(secs) /\ IsSeq(seen) /\ nb_errors \in Nat
              /\ Ordinary => Settled(tab.syms, seen)
At(c, p) == AtFile(c, p, phase, input, archive) /\ Pieces(c \o Runtime, p, archive, placed)
PlacesInv == Adding => \E c \in CommandLines : \E p \in Nat : At(c, p)

LinkInv == TableInv /\ ArchiveInv /\ ClaimsInv /\ PlacesInv

\* The objects of a command line.
LEMMA ObjectThere ==
    ASSUME NEW c \in CommandLines, NEW p \in 1 .. Len(c \o Runtime),
           NEW m \in Objects((c \o Runtime)[p])
    PROVE  /\ ObjectFile(ObjectOf((c \o Runtime)[p], m))
           /\ Ordinary => PlainFile(ObjectOf((c \o Runtime)[p], m))
<1>1. p \in DOMAIN (c \o Runtime) /\ WellFormed(c \o Runtime) BY FilesOK
<1> QED BY <1>1 DEF WellFormed, Ordinary

\* The sections of a file that is refused, as far as they were taken in.
LEMMA CompatibleIsSeq ==
    ASSUME NEW f, IsSeq(f.secs)
    PROVE  IsSeq(Compatible(f))
<1> DEFINE q == f.secs
           Bad(k) == \E i \in DOMAIN secs : secs[i].name = f.secs[k].name /\ secs[i].type # f.secs[k].type
           bad == {k \in DOMAIN q : Bad(k)}
<1>1. Compatible(f) = IF bad = {} THEN q ELSE SubSeq(q, 1, Min(bad) - 1) BY DEF Compatible
<1>2. Len(q) \in Nat /\ DOMAIN q = 1 .. Len(q) BY SeqIsFcn
<1>3. bad \subseteq 1 .. Len(q) BY <1>2
<1> HIDE DEF q, bad
<1>4. CASE bad = {} BY <1>1, <1>4 DEF q
<1>5. CASE bad # {}
  <2>0. bad \subseteq Nat BY <1>2, <1>3
  <2>1. \E x \in bad : \A y \in bad : x <= y BY <1>5, <2>0, LeastNat
  <2>2. Min(bad) \in 1 .. Len(q)
    <3>1. Min(bad) \in bad BY <2>1 DEF Min
    <3> QED BY <1>3, <3>1
  <2> DEFINE n == Min(bad) - 1
             S == Range(q)
             z == SubSeq(q, 1, n)
  <2>3. n \in Nat /\ n <= Len(q) BY <1>2, <2>2
  <2>4. q \in Seq(S) BY DEF IsSeq, q
  <2> HIDE DEF n, S
  <2>5. z = [i \in 1 .. n |-> q[i]] BY <1>2, <2>3, <2>4
  <2>6. z = [i \in 1 .. n |-> z[i]] BY <2>5
  <2> HIDE DEF z
  <2>7. IsSeq(z) BY <2>3, <2>6, FcnIsSeq
  <2> QED BY <1>1, <1>5, <2>7 DEF z, n
<1> QED BY <1>4, <1>5

\* A file or a member is merged or refused: table, sections and claims.
LEMMA MergeKeeps ==
    ASSUME LinkInv, Adding, NEW f, ObjectFile(f), Ordinary => PlainFile(f), Merge(f),
           phase' = phase
    PROVE  TableInv' /\ ClaimsInv'
<1> DEFINE p == Place(secs, f.id, f.secs)
           ys == Moved(f, p.at)
           s == SetElfSyms(tab, ys, Bss)
<1>1. /\ secs' = p.ss /\ tab' = s.tab /\ nb_errors' = nb_errors + s.errors /\ seen' = seen \o ys
  BY DEF Merge
<1>2. Hashed(tab) /\ SecsOK(secs) /\ IsSeq(seen) /\ nb_errors \in Nat
      /\ (Ordinary => Settled(tab.syms, seen))
  BY DEF LinkInv, TableInv, ClaimsInv, Adding
<1>3. SecsOK(p.ss) BY <1>2, PlaceOK DEF ObjectFile
<1>4. /\ Hashed(s.tab) /\ s.errors \in Nat /\ IsSeq(seen \o ys)
      /\ PlainFile(f) /\ Settled(tab.syms, seen) => Settled(s.tab.syms, seen \o ys)
  BY <1>2, MergeSyms
<1> HIDE DEF p, ys, s
<1>5. Hashed(tab') /\ SecsOK(secs') /\ IsSeq(seen') /\ nb_errors' \in Nat BY <1>1, <1>2, <1>3, <1>4
<1>6. Ordinary => Settled(tab'.syms, seen') BY <1>1, <1>2, <1>4
<1> QED BY <1>5, <1>6 DEF TableInv, ClaimsInv

LEMMA RefuseKeeps ==
    ASSUME LinkInv, Adding, NEW f, ObjectFile(f), Refuse(f), NotAdded
    PROVE  TableInv' /\ ClaimsInv' /\ (Adding' => phase' = phase) /\ placed' = placed
           /\ nb_errors' # nb_errors
<1>1. Hashed(tab) /\ SecsOK(secs) /\ IsSeq(seen) /\ nb_errors \in Nat
      /\ (Ordinary => Settled(tab.syms, seen))
  BY DEF LinkInv, TableInv, ClaimsInv, Adding
<1>2. /\ nb_errors' = nb_errors + 1 /\ tab' = tab /\ seen' = seen /\ placed' = placed
      /\ secs' = Place(secs, f.id, Compatible(f)).ss
  BY DEF Refuse, symVars
<1>3. SecsOK(secs')
  <2>1. IsSeq(Compatible(f)) BY CompatibleIsSeq DEF ObjectFile
  <2> QED BY <1>1, <1>2, <2>1, PlaceOK
<1>4. nb_errors' \in Nat /\ nb_errors' # nb_errors BY <1>1, <1>2
<1>5. Ordinary => Settled(tab'.syms, seen') BY <1>1, <1>2
<1>6. Adding' => phase' = phase BY DEF NotAdded, Adding
<1> QED BY <1>1, <1>2, <1>3, <1>4, <1>5, <1>6 DEF TableInv, ClaimsInv

\* The next file, not an archive: where it puts the command line, whether its
\* sections were placed (at) or not.
LEMMA FilePlaced ==
    ASSUME LinkInv, Adding, archive = NoArchive, input # <<>>,
           Head(input).kind \in {"c", "o"}, NEW at, IsSeq(at),
           \A k \in 1 .. Len(at) : at[k].file = Head(input).id /\ at[k].num = k
    PROVE  /\ ObjectFile(Head(input)) /\ (Ordinary => PlainFile(Head(input)))
           /\ \E c \in CommandLines : \E p \in Nat :
                 /\ AtFile(c, p, phase, Tail(input), NoArchive)
                 /\ Pieces(c \o Runtime, p, NoArchive, placed)
                 /\ Pieces(c \o Runtime, p, NoArchive, placed \o at)
<1>1. PICK c \in CommandLines : \E p \in Nat : At(c, p) BY DEF LinkInv, PlacesInv
<1>2. PICK p \in Nat : At(c, p) BY <1>1
<1> DEFINE fs == c \o Runtime
           f == Head(input)
           q == p + 1
<1>3. phase \in {"files", "runtime"} BY DEF Adding
<1>4. AtFile(c, p, phase, input, NoArchive) /\ Pieces(fs, p, NoArchive, placed) BY <1>2 DEF At
<1>5. /\ q \in 1 .. Len(fs) /\ f = fs[q] /\ AtFile(c, q, phase, Tail(input), NoArchive)
  <2> DEFINE b == NoArchive
  <2>1. b # NoArchive => b.file = Head(input) /\ b.file.kind = "a" OBVIOUS
  <2>2. AtFile(c, p, phase, input, b) BY <1>4
  <2> HIDE DEF b
  <2>3. /\ p + 1 \in 1 .. Len(c \o Runtime) /\ Head(input) = (c \o Runtime)[p + 1]
        /\ AtFile(c, p + 1, phase, Tail(input), b)
    BY <1>3, <2>1, <2>2, NextFile
  <2> QED BY <2>3 DEF b
<1>6. WellFormed(fs) /\ DOMAIN fs = 1 .. Len(fs) /\ Len(fs) \in Nat
  <2>1. /\ WellFormed(c \o Runtime) /\ Len(c) \in Nat /\ Len(Runtime) \in Nat
        /\ Len(c \o Runtime) = Len(c) + Len(Runtime)
        /\ DOMAIN (c \o Runtime) = 1 .. Len(c \o Runtime)
    BY FilesOK
  <2> QED BY <2>1
<1>7. p \in 0 .. Len(fs) BY <1>4 DEF AtFile
<1>8. 0 \in Objects(fs[q]) /\ ObjectOf(fs[q], 0) = f BY <1>5 DEF Objects, ObjectOf
<1>9. ObjectFile(f) /\ (Ordinary => PlainFile(f)) BY <1>5, <1>8, ObjectThere
<1> HIDE DEF fs, f
<1>10. Pieces(fs, q, NoArchive, placed)
  <2>1. p <= q /\ q \in Nat /\ p # q BY <1>2
  <2> HIDE DEF q
  <2> QED BY <1>2, <1>4, <2>1, PiecesKept
<1>11. \A j \in 1 .. Len(placed) : placed[j].file # f.id
  <2> DEFINE m == 0
             a == NoArchive
  <2>1. ComesNext(fs, p, a, q, m) BY <1>2, <1>5, <1>7, <1>8 DEF ComesNext
  <2>2. Pieces(fs, p, a, placed) BY <1>4
  <2> HIDE DEF q, m, a
  <2>4. \A j \in 1 .. Len(placed) : placed[j].file # ObjectOf(fs[q], m).id
    BY <1>6, <2>1, <2>2, NewId
  <2> QED BY <1>8, <2>4 DEF m
<1>12. Pieces(fs, q, NoArchive, placed \o at)
  <2>1. q \in Nat /\ q >= 1 BY <1>2
  <2>2. \E m \in Objects(fs[q]) : f.id = ObjectOf(fs[q], m).id
                                  /\ (NoArchive # NoArchive => m \in NoArchive.loaded)
    BY <1>8
  <2>3. \A k \in 1 .. Len(at) : at[k].file = f.id /\ at[k].num = k BY DEF f
  <2> DEFINE b == NoArchive
             id == f.id
  <2>4. \E m \in Objects(fs[q]) : id = ObjectOf(fs[q], m).id /\ (b # NoArchive => m \in b.loaded)
    BY <2>2
  <2>5. \A j \in 1 .. Len(placed) : placed[j].file # id BY <1>11
  <2>6. \A k \in 1 .. Len(at) : at[k].file = id /\ at[k].num = k BY <2>3
  <2>7. Pieces(fs, q, b, placed) BY <1>10
  <2> HIDE DEF q, b, id
  <2>8. Pieces(fs, q, b, placed \o at) BY <2>1, <2>4, <2>5, <2>6, <2>7, PiecesMore
  <2> QED BY <2>8 DEF b
<1>13. q \in Nat BY <1>2
<1> QED BY <1>5, <1>9, <1>10, <1>12, <1>13 DEF fs, f

-----------------------------------------------------------------------------
(* One lemma for each action.                                                  *)

LEMMA InitInv == Init => LinkInv
<1> SUFFICES ASSUME Init PROVE LinkInv OBVIOUS
<1> DEFINE nil == <<>>
<1>0. IsSeq(nil) /\ Len(nil) = 0 BY DEF IsSeq
<1>1. Hashed(tab)
  <2> DEFINE on == TRUE
             b == [h \in {0} |-> 0]
             one == 1
             zero == 0
  <2>1. tab = Table(nil, one, b, nil, zero, on) BY DEF Init, EmptyTable, Table
  <2>2. one \in Nat \ {0} /\ nil \in Seq(Nat) /\ zero \in Nat /\ on = TRUE OBVIOUS
  <2>3. b \in [0 .. one - 1 -> Nat] OBVIOUS
  <2>4. (\A i \in 1 .. Len(nil) : SymOK(nil[i])) /\ OneEach(nil) BY <1>0 DEF OneEach
  <2>5. Chains(nil, one, b, nil)
    <3>1. \A h : Chained(nil, one, h) = {} BY <1>0 DEF Chained
    <3>2. \A h \in 0 .. one - 1 : b[h] = 0 OBVIOUS
    <3> HIDE DEF b, one
    <3>3. \A h \in 0 .. one - 1 : Top(b[h], Chained(nil, one, h)) BY <3>1, <3>2 DEF Top
    <3>4. \A i : i \notin 1 .. Len(nil) BY <1>0
    <3> QED BY <3>3, <3>4 DEF Chains
  <2> HIDE DEF nil, one, b, zero, on
  <2> QED BY <1>0, <2>1, <2>2, <2>3, <2>4, <2>5, MakeHashed
<1>2. /\ input \in CommandLines /\ archive = NoArchive /\ phase = "files" /\ nb_errors = 0
      /\ placed = nil /\ seen = nil
  BY DEF Init
<1>3. SecsOK(secs)
  <2> DEFINE text == Section(".text", "PROGBITS", {"ALLOC", "EXEC"})
             data == Section(".data", "PROGBITS", {"ALLOC", "WRITE"})
             bss == Section(".bss", "NOBITS", {"ALLOC", "WRITE"})
             symtab == Section(".symtab", "SYMTAB", {})
             strtab == Section(".strtab", "STRTAB", {})
             ss == <<text, data, bss, symtab, strtab>>
  <2>1. /\ "name" \in DOMAIN text /\ "name" \in DOMAIN data /\ "name" \in DOMAIN bss
        /\ "name" \in DOMAIN symtab /\ "name" \in DOMAIN strtab
    BY DEF Section
  <2>2. secs = ss BY DEF Init, StandardSections
  <2> HIDE DEF text, data, bss, symtab, strtab
  <2>3. IsSeq(ss) BY DEF IsSeq, Range
  <2>4. \A i \in 1 .. Len(ss) : "name" \in DOMAIN ss[i] BY <2>1
  <2> QED BY <2>2, <2>3, <2>4 DEF SecsOK
<1>4. Settled(tab.syms, seen)
  <2>1. tab.syms = nil BY DEF Init, EmptyTable
  <2>2. \A i : i \notin 1 .. Len(nil) BY <1>0
  <2> HIDE DEF nil
  <2> QED BY <1>2, <2>1, <2>2 DEF Settled
<1>5. At(input, 0)
  <2> DEFINE c == input
             fs == c \o Runtime
  <2>1. IsSeq(c) /\ Len(c) \in Nat /\ Len(fs) \in Nat
    <3>1. /\ IsSeq(c) /\ Len(c) \in Nat /\ Len(Runtime) \in Nat
          /\ Len(c \o Runtime) = Len(c) + Len(Runtime)
      BY <1>2, FilesOK
    <3> QED BY <3>1
  <2>2. c = Rest(c, 0)
    <3>1. c = [k \in 1 .. Len(c) |-> c[k]] BY <2>1, SeqIsFcn
    <3>2. Len(c) - 0 = Len(c) /\ \A k \in 1 .. Len(c) : 0 + k = k BY <2>1
    <3> HIDE DEF c
    <3> QED BY <3>1, <3>2 DEF Rest
  <2>3. AtFile(c, 0, phase, input, archive) BY <1>2, <2>1, <2>2 DEF AtFile
  <2>4. Pieces(fs, 0, archive, placed)
    <3>1. \A i : i \notin 1 .. Len(nil) BY <1>0
    <3> HIDE DEF nil, fs
    <3> QED BY <1>0, <1>2, <3>1 DEF Pieces, Once
  <2> QED BY <2>3, <2>4 DEF At
<1>6. ArchiveInv /\ TableInv BY <1>1, <1>2 DEF ArchiveInv, TableInv
<1>7. ClaimsInv BY <1>0, <1>2, <1>3, <1>4 DEF ClaimsInv
<1>8. PlacesInv BY <1>2, <1>5 DEF PlacesInv
<1> QED BY <1>6, <1>7, <1>8 DEF LinkInv

LEMMA CompileInv == LinkInv /\ CompileFile => LinkInv'
<1> SUFFICES ASSUME LinkInv, CompileFile PROVE LinkInv' OBVIOUS
<1> DEFINE f == Head(input)
           p == Place(secs, f.id, f.secs)
           ys == Moved(f, p.at)
           zs == [k \in 1 .. Len(ys) |-> EndBind(ys[k])]
           s == SetElfSyms(tab, zs, Bss)
           e == EndFile(Compiled(tab, ys), Len(tab.syms))
<1>1. /\ phase = "files" /\ archive = NoArchive /\ input # <<>> /\ f.kind \in {"c", "o"}
      /\ archive' = archive /\ input' = Tail(input) /\ Adding
  BY DEF CompileFile, Adding
<1>2. /\ secs' = p.ss /\ placed' = placed \o p.at /\ tab' = e.tab /\ nb_errors' = e.errors
      /\ seen' = seen \o [k \in DOMAIN ys |-> EndBind(ys[k])]
      /\ phase' = IF e.errors = 0 THEN phase ELSE "failed"
  BY DEF CompileFile
<1>3. /\ Hashed(tab) /\ SecsOK(secs) /\ IsSeq(seen) /\ (Ordinary => Settled(tab.syms, seen))
  BY <1>1 DEF LinkInv, TableInv, ClaimsInv
<1>4. ObjectFile(f) /\ (Ordinary => PlainFile(f))
  <2> DEFINE nil == <<>>
  <2>1. IsSeq(nil) /\ \A k \in 1 .. Len(nil) : nil[k].file = f.id /\ nil[k].num = k
    BY DEF IsSeq
  <2> HIDE DEF nil
  <2> QED BY <1>1, <2>1, FilePlaced
<1>5. /\ SecsOK(p.ss) /\ IsSeq(p.at) /\ Len(p.at) = Len(f.secs)
      /\ \A k \in 1 .. Len(f.secs) :
            p.at[k].sec \in Nat \ {0} /\ p.at[k].file = f.id /\ p.at[k].num = k
  BY <1>3, <1>4, PlaceOK DEF ObjectFile
<1>6. IsSeq(ys) /\ DOMAIN ys = 1 .. Len(ys)
  <2> DEFINE at == p.at
  <2>1. \A k \in 1 .. Len(f.secs) : at[k].sec \in Nat \ {0} BY <1>5
  <2> HIDE DEF at, f
  <2>2. IsSeq(Moved(f, at)) BY <1>4, <2>1, MovedOK
  <2> DEFINE m == Moved(f, at)
  <2> HIDE DEF m
  <2>3. IsSeq(m) /\ DOMAIN m = 1 .. Len(m) BY <2>2, SeqIsFcn DEF m
  <2> QED BY <2>3 DEF m, at
<1>7. e = s
  <2> HIDE DEF ys
  <2> QED BY <1>3, <1>6, EndFileSets
<1>8. seen' = seen \o zs BY <1>2, <1>6
<1>9. /\ Hashed(s.tab) /\ s.errors \in Nat /\ IsSeq(seen \o zs)
      /\ PlainFile(f) /\ Settled(tab.syms, seen) => Settled(s.tab.syms, seen \o zs)
  <2> DEFINE at == p.at
  <2>1. zs = [k \in 1 .. Len(Moved(f, at)) |-> EndBind(Moved(f, at)[k])] BY DEF zs, ys
  <2>2. at = Place(secs, f.id, f.secs).at OBVIOUS
  <2> HIDE DEF at, zs, f, ys
  <2>3. /\ Hashed(SetElfSyms(tab, zs, Bss).tab) /\ SetElfSyms(tab, zs, Bss).errors \in Nat
        /\ IsSeq(seen \o zs)
        /\ PlainFile(f) /\ Settled(tab.syms, seen) =>
              Settled(SetElfSyms(tab, zs, Bss).tab.syms, seen \o zs)
    BY <1>3, <1>4, <2>1, <2>2, MergeSyms
  <2> QED BY <2>3
<1>10. PICK c \in CommandLines : \E k \in Nat :
         AtFile(c, k, phase, Tail(input), NoArchive) /\ Pieces(c \o Runtime, k, NoArchive, placed \o p.at)
  <2> DEFINE at == p.at
  <2>1. IsSeq(at) /\ \A k \in 1 .. Len(at) : at[k].file = Head(input).id /\ at[k].num = k
    BY <1>5
  <2> HIDE DEF at
  <2>2. \E c \in CommandLines : \E k \in Nat :
         AtFile(c, k, phase, Tail(input), NoArchive) /\ Pieces(c \o Runtime, k, NoArchive, placed \o at)
    BY <1>1, <2>1, FilePlaced
  <2> QED BY <2>2 DEF at
<1> HIDE DEF f, p, ys, zs, s, e
<1>11. TableInv' BY <1>2, <1>7, <1>9 DEF TableInv
<1>12. ClaimsInv'
  <2>1. SecsOK(secs') /\ IsSeq(seen') /\ nb_errors' \in Nat BY <1>2, <1>5, <1>7, <1>8, <1>9
  <2>2. Ordinary => Settled(tab'.syms, seen') BY <1>2, <1>3, <1>4, <1>7, <1>8, <1>9
  <2> QED BY <2>1, <2>2 DEF ClaimsInv
<1>13. ArchiveInv' BY <1>1 DEF ArchiveInv
<1>14. PlacesInv'
  <2> SUFFICES ASSUME Adding' PROVE \E k \in Nat : At(c, k)' BY DEF PlacesInv
  <2>1. phase' = phase BY <1>2 DEF Adding
  <2> QED BY <1>1, <1>2, <1>10, <2>1 DEF At
<1> QED BY <1>11, <1>12, <1>13, <1>14 DEF LinkInv

LEMMA LoadObjectInv == LinkInv /\ LoadObject => LinkInv'
<1> SUFFICES ASSUME LinkInv, LoadObject PROVE LinkInv' OBVIOUS
<1> DEFINE f == Head(input)
           at == Place(secs, f.id, f.secs).at
<1>1. /\ Adding /\ archive = NoArchive /\ input # <<>> /\ f.kind \in {"c", "o"}
      /\ archive' = archive /\ input' = Tail(input)
  BY DEF LoadObject
<1>2. SecsOK(secs) BY <1>1 DEF LinkInv, ClaimsInv
<1>3. ObjectFile(f) /\ (Ordinary => PlainFile(f))
  <2> DEFINE nil == <<>>
  <2>1. IsSeq(nil) /\ \A k \in 1 .. Len(nil) : nil[k].file = f.id /\ nil[k].num = k
    BY DEF IsSeq
  <2> HIDE DEF nil
  <2> QED BY <1>1, <2>1, FilePlaced
<1>4. IsSeq(at) /\ \A k \in 1 .. Len(at) : at[k].file = f.id /\ at[k].num = k
  BY <1>2, <1>3, PlaceOK DEF ObjectFile
<1>5. PICK c \in CommandLines : \E k \in Nat :
        /\ AtFile(c, k, phase, Tail(input), NoArchive)
        /\ Pieces(c \o Runtime, k, NoArchive, placed)
        /\ Pieces(c \o Runtime, k, NoArchive, placed \o at)
  <2> HIDE DEF at
  <2> QED BY <1>1, <1>4, FilePlaced
<1>6. ArchiveInv' BY <1>1 DEF ArchiveInv
<1>7. CASE Merge(f) /\ phase' = phase
  <2>1. TableInv' /\ ClaimsInv'
    <3> HIDE DEF f
    <3> QED BY <1>1, <1>3, <1>7, MergeKeeps
  <2>2. placed' = placed \o at BY <1>7 DEF Merge
  <2> HIDE DEF at
  <2>3. PlacesInv' BY <1>1, <1>5, <1>7, <2>2 DEF PlacesInv, At
  <2> QED BY <1>6, <2>1, <2>3 DEF LinkInv
<1>8. CASE Refuse(f) /\ NotAdded
  <2>1. TableInv' /\ ClaimsInv' /\ (Adding' => phase' = phase) /\ placed' = placed
    <3> HIDE DEF f
    <3> QED BY <1>1, <1>3, <1>8, RefuseKeeps
  <2>2. PlacesInv' BY <1>1, <1>5, <2>1 DEF PlacesInv, At
  <2> QED BY <1>6, <2>1, <2>2 DEF LinkInv
<1>9. (Merge(f) /\ phase' = phase) \/ (Refuse(f) /\ NotAdded) BY DEF LoadObject
<1> QED BY <1>7, <1>8, <1>9

LEMMA OpenArchiveInv == LinkInv /\ OpenArchive => LinkInv'
<1> SUFFICES ASSUME LinkInv, OpenArchive PROVE LinkInv' OBVIOUS
<1>1. /\ Adding /\ archive = NoArchive /\ input # <<>> /\ Head(input).kind = "a"
      /\ archive' = [file |-> Head(input), i |-> 1, bound |-> 0, loaded |-> {}]
      /\ input' = Tail(input) /\ phase' = phase /\ nb_errors' = nb_errors /\ secs' = secs
      /\ placed' = placed /\ tab' = tab /\ seen' = seen
  BY DEF OpenArchive, secVars, symVars
<1>2. TableInv' /\ ClaimsInv' BY <1>1 DEF LinkInv, TableInv, ClaimsInv, Adding
<1>3. ArchiveInv' BY <1>1 DEF ArchiveInv, ArchOK, Adding
<1>4. PICK c \in CommandLines : \E p \in Nat : At(c, p) BY <1>1 DEF LinkInv, PlacesInv
<1>5. PICK p \in Nat : At(c, p) BY <1>4
<1> DEFINE q == p + 1
           b == [file |-> Head(input), i |-> 1, bound |-> 0, loaded |-> {}]
           a == archive
<1>6. AtFile(c, p, phase, input, a) /\ Pieces(c \o Runtime, p, a, placed) BY <1>5 DEF At
<1>7. p <= q /\ q \in Nat /\ p # q BY <1>5
<1>8. b.file = Head(input) /\ b.file.kind = "a" BY <1>1
<1> HIDE DEF b, a
<1>9. AtFile(c, q, phase, Tail(input), b)
  <2>1. phase \in {"files", "runtime"} BY <1>1 DEF Adding
  <2>2. AtFile(c, p + 1, phase, Tail(input), b) BY <1>1, <1>6, <1>8, <2>1, NextFile
  <2> QED BY <2>2
<1> HIDE DEF q
<1>10. Pieces(c \o Runtime, q, b, placed) BY <1>5, <1>6, <1>7, PiecesKept
<1>11. At(c, q)' BY <1>1, <1>9, <1>10 DEF At, b
<1>12. PlacesInv' BY <1>7, <1>11 DEF PlacesInv
<1> QED BY <1>2, <1>3, <1>12 DEF LinkInv

\* An open archive: its file, and the members that its index names.
LEMMA OpenMembers ==
    ASSUME LinkInv, archive # NoArchive
    PROVE  /\ Adding /\ ArchOK(archive)
           /\ \E c \in CommandLines : \E p \in Nat :
                 /\ At(c, p) /\ p \in 1 .. Len(c \o Runtime)
                 /\ archive.file = (c \o Runtime)[p] /\ archive.file.kind = "a"
           /\ Indexed(ArIndex(archive.file), Len(archive.file.members))
           /\ DOMAIN archive.file.members = 1 .. Len(archive.file.members)
<1>1. Adding /\ ArchOK(archive) BY DEF LinkInv, ArchiveInv
<1>2. PICK c \in CommandLines : \E p \in Nat : At(c, p) BY <1>1 DEF LinkInv, PlacesInv
<1>3. PICK p \in Nat : At(c, p) BY <1>2
<1> DEFINE fs == c \o Runtime
           f == archive.file
<1>4. p \in 1 .. Len(fs) /\ f = fs[p] /\ f.kind = "a"
  BY <1>3 DEF At, AtFile
<1>5. WellFormed(fs) /\ DOMAIN fs = 1 .. Len(fs) BY FilesOK
<1> HIDE DEF fs, f
<1>6. IsSeq(f.members) BY <1>4, <1>5 DEF WellFormed
<1>7. \A m \in DOMAIN f.members : ObjectFile(f.members[m])
  BY <1>4, <1>5 DEF WellFormed, Objects, ObjectOf
<1>8. Indexed(ArIndex(f), Len(f.members)) /\ DOMAIN f.members = 1 .. Len(f.members)
  BY <1>6, <1>7, ArIndexed
<1> QED BY <1>1, <1>3, <1>4, <1>8 DEF fs, f

\* A member that the walk comes to and that is not loaded yet.
LEMMA MemberPlaced ==
    ASSUME LinkInv, archive # NoArchive, NEW i \in 1 .. Len(ArIndex(archive.file)),
           NEW m, m = ArIndex(archive.file)[i].member, m \notin archive.loaded,
           NEW f, f = archive.file.members[m], NEW b, b.file = archive.file,
           b.loaded = archive.loaded \cup {m},
           NEW at, IsSeq(at), \A k \in 1 .. Len(at) : at[k].file = f.id /\ at[k].num = k
    PROVE  /\ ObjectFile(f) /\ (Ordinary => PlainFile(f))
           /\ \E c \in CommandLines : \E p \in Nat :
                 /\ AtFile(c, p, phase, input, b) /\ AtFile(c, p, phase, input, NoArchive)
                 /\ Pieces(c \o Runtime, p, NoArchive, placed)
                 /\ Pieces(c \o Runtime, p, b, placed \o at)
<1>1. PICK c \in CommandLines : \E p \in Nat :
        /\ At(c, p) /\ p \in 1 .. Len(c \o Runtime)
        /\ archive.file = (c \o Runtime)[p] /\ archive.file.kind = "a"
  BY OpenMembers
<1>2. PICK p \in Nat :
        /\ At(c, p) /\ p \in 1 .. Len(c \o Runtime)
        /\ archive.file = (c \o Runtime)[p] /\ archive.file.kind = "a"
  BY <1>1
<1> DEFINE fs == c \o Runtime
           a == archive
<1>3. /\ Indexed(ArIndex(a.file), Len(a.file.members))
      /\ DOMAIN a.file.members = 1 .. Len(a.file.members)
  BY OpenMembers
<1>4. m \in DOMAIN a.file.members BY <1>3 DEF Indexed
<1>5. p \in 1 .. Len(fs) /\ a.file = fs[p] /\ a.file.kind = "a" BY <1>2
<1>6. m \in Objects(fs[p]) /\ ObjectOf(fs[p], m) = f BY <1>4, <1>5 DEF Objects, ObjectOf
<1>7. ObjectFile(f) /\ (Ordinary => PlainFile(f))
  <2>1. p \in 1 .. Len(c \o Runtime) /\ m \in Objects((c \o Runtime)[p]) BY <1>5, <1>6
  <2>2. /\ ObjectFile(ObjectOf((c \o Runtime)[p], m))
        /\ Ordinary => PlainFile(ObjectOf((c \o Runtime)[p], m))
    <3> HIDE DEF fs
    <3> QED BY <2>1, ObjectThere
  <2> QED BY <1>6, <2>2
<1>8. AtFile(c, p, phase, input, a) /\ Pieces(fs, p, a, placed) BY <1>2 DEF At
<1>9. WellFormed(fs) /\ a # NoArchive BY FilesOK
<1>10. AtFile(c, p, phase, input, b) /\ AtFile(c, p, phase, input, NoArchive)
  BY <1>8, <1>9 DEF AtFile
<1>11. p <= p /\ p >= 1 /\ p \in 0 .. Len(fs) BY <1>2, <1>5
<1>12. b.loaded = a.loaded \cup {m} /\ m \notin a.loaded OBVIOUS
<1> HIDE DEF fs, a
<1>13. Pieces(fs, p, NoArchive, placed)
  <2> DEFINE none == NoArchive
  <2>1. p = p /\ none # NoArchive => a # NoArchive /\ a.loaded \subseteq none.loaded OBVIOUS
  <2> HIDE DEF none
  <2>2. Pieces(fs, p, none, placed) BY <1>2, <1>8, <1>11, <2>1, PiecesKept
  <2> QED BY <2>2 DEF none
<1>14. Pieces(fs, p, b, placed)
  <2>1. p = p /\ b # NoArchive => a # NoArchive /\ a.loaded \subseteq b.loaded BY <1>9, <1>12
  <2> QED BY <1>2, <1>8, <1>11, <2>1, PiecesKept
<1>15. \A j \in 1 .. Len(placed) : placed[j].file # f.id
  <2>1. ComesNext(fs, p, a, p, m) BY <1>5, <1>6, <1>9, <1>11, <1>12 DEF ComesNext
  <2>2. \A j \in 1 .. Len(placed) : placed[j].file # ObjectOf(fs[p], m).id
    BY <1>8, <1>9, <2>1, NewId
  <2> QED BY <1>6, <2>2
<1>16. Pieces(fs, p, b, placed \o at)
  <2> DEFINE id == f.id
  <2>1. \E o \in Objects(fs[p]) : id = ObjectOf(fs[p], o).id /\ (b # NoArchive => o \in b.loaded)
    BY <1>6, <1>12
  <2>2. \A j \in 1 .. Len(placed) : placed[j].file # id BY <1>15
  <2>3. \A k \in 1 .. Len(at) : at[k].file = id /\ at[k].num = k OBVIOUS
  <2> HIDE DEF id
  <2> QED BY <1>2, <1>11, <1>14, <2>1, <2>2, <2>3, PiecesMore
<1> QED BY <1>2, <1>7, <1>10, <1>13, <1>16 DEF fs

\* The fields of an archive that a step changes.
LEMMA ArchiveAgain ==
    ASSUME NEW a, ArchOK(a), NEW y2, NEW z2
    PROVE  [a EXCEPT !.i = y2, !.bound = z2] = [file |-> a.file, i |-> y2, bound |-> z2, loaded |-> a.loaded]
<1> DEFINE x == a.file
           y == a.i
           z == a.bound
           w == a.loaded
<1>1. a = [file |-> x, i |-> y, bound |-> z, loaded |-> w] BY DEF ArchOK
<1> DEFINE b == [a EXCEPT !.i = y2, !.bound = z2]
           c == [file |-> a.file, i |-> y2, bound |-> z2, loaded |-> a.loaded]
<1>2. c = [f \in {"file", "i", "bound", "loaded"} |-> c[f]] OBVIOUS
<1>3. /\ b = [f \in {"file", "i", "bound", "loaded"} |-> b[f]]
      /\ b.file = c.file /\ b.i = c.i /\ b.bound = c.bound /\ b.loaded = c.loaded
  <2> HIDE DEF x, y, z, w
  <2> QED BY <1>1
<1> HIDE DEF b, c
<1>4. b = c BY <1>2, <1>3
<1> QED BY <1>4 DEF b, c

\* What a step of the walk is: entry i is the next that is wanted.
MemberLoaded(i, m, f) ==
    /\ i \in archive.i .. Len(ArIndex(archive.file)) /\ m = ArIndex(archive.file)[i].member
    /\ f = archive.file.members[m] /\ m \notin archive.loaded
    /\ \/ /\ Merge(f) /\ phase' = phase
          /\ archive' = [archive EXCEPT !.i = i + 1, !.bound = @ + 1, !.loaded = @ \cup {m}]
       \/ /\ Refuse(f) /\ archive' = NoArchive /\ NotAdded

LEMMA LoadMemberIs ==
    ASSUME LoadMember
    PROVE  /\ archive # NoArchive /\ input' = input
           /\ \E i, m, f : MemberLoaded(i, m, f)
<1>1. archive # NoArchive /\ input' = input BY DEF LoadMember
<1>2. PICK i \in archive.i .. Len(ArIndex(archive.file)) :
        LET m == ArIndex(archive.file)[i].member
            f == archive.file.members[m]
        IN  /\ Wanted(archive, i)
            /\ \/ /\ Merge(f) /\ phase' = phase
                  /\ archive' = [archive EXCEPT !.i = i + 1, !.bound = @ + 1,
                                                !.loaded = @ \cup {m}]
               \/ Refuse(f) /\ archive' = NoArchive /\ NotAdded
  BY DEF LoadMember
<1> DEFINE m == ArIndex(archive.file)[i].member
           f == archive.file.members[m]
<1>3. m \notin archive.loaded BY <1>2 DEF Wanted
<1>4. MemberLoaded(i, m, f) BY <1>2, <1>3 DEF MemberLoaded
<1> QED BY <1>1, <1>4

LEMMA LoadMemberInv ==
    LinkInv /\ LoadMember =>
        LinkInv' /\ (archive' = NoArchive => nb_errors' # nb_errors)
<1> SUFFICES ASSUME LinkInv, LoadMember
             PROVE  LinkInv' /\ (archive' = NoArchive => nb_errors' # nb_errors)
  OBVIOUS
<1>1. archive # NoArchive /\ input' = input BY LoadMemberIs
<1>2. PICK i, m, f : MemberLoaded(i, m, f) BY LoadMemberIs
<1>3. /\ i \in archive.i .. Len(ArIndex(archive.file)) /\ m = ArIndex(archive.file)[i].member
      /\ f = archive.file.members[m] /\ m \notin archive.loaded
  BY <1>2 DEF MemberLoaded
<1>4. Adding /\ ArchOK(archive) BY <1>1, OpenMembers
<1>5. i \in 1 .. Len(ArIndex(archive.file)) /\ i \in Nat
  <2>1. archive.i \in Nat \ {0} BY <1>4 DEF ArchOK
  <2>2. Len(ArIndex(archive.file)) \in Nat BY <1>1, OpenMembers, SeqIsFcn DEF Indexed
  <2> QED BY <1>3, <2>1, <2>2
<1> DEFINE at == Place(secs, f.id, f.secs).at
           b == [archive EXCEPT !.i = i + 1, !.bound = @ + 1, !.loaded = @ \cup {m}]
<1>6. /\ b = [file |-> b.file, i |-> b.i, bound |-> b.bound, loaded |-> b.loaded]
      /\ b.file = archive.file /\ b.i = i + 1 /\ b.bound = archive.bound + 1
      /\ b.loaded = archive.loaded \cup {m}
  <2> DEFINE x == archive.file
             y == archive.i
             z == archive.bound
             w == archive.loaded
             j == i + 1
             z2 == z + 1
             w2 == w \cup {m}
             c == [file |-> b.file, i |-> b.i, bound |-> b.bound, loaded |-> b.loaded]
  <2>1. archive = [file |-> x, i |-> y, bound |-> z, loaded |-> w] BY <1>4 DEF ArchOK
  <2>2. b = [archive EXCEPT !.i = j, !.bound = z2, !.loaded = w2] OBVIOUS
  <2>3. /\ b = [d \in {"file", "i", "bound", "loaded"} |-> b[d]]
        /\ b.file = x /\ b.i = j /\ b.bound = z2 /\ b.loaded = w2
    <3> HIDE DEF x, y, z, w, j, z2, w2, b
    <3> QED BY <2>1, <2>2
  <2>4. /\ c = [d \in {"file", "i", "bound", "loaded"} |-> c[d]]
        /\ c.file = b.file /\ c.i = b.i /\ c.bound = b.bound /\ c.loaded = b.loaded
    <3> HIDE DEF b
    <3> QED OBVIOUS
  <2>5. b = c
    <3> HIDE DEF b, c
    <3> QED BY <2>3, <2>4
  <2> HIDE DEF b
  <2> QED BY <2>3, <2>5
<1> HIDE DEF b
<1>7. /\ b.file = archive.file /\ b.loaded = archive.loaded \cup {m} /\ ArchOK(b) /\ b # NoArchive
  <2>1. b.i # 0 BY <1>5, <1>6
  <2>2. NoArchive.i = 0 BY DEF NoArchive
  <2>3. archive.bound \in Nat BY <1>4 DEF ArchOK
  <2>4. b.i \in Nat \ {0} /\ b.bound \in Nat /\ b.bound # 0 BY <1>5, <1>6, <2>3
  <2>5. ArchOK(b) BY <1>6, <2>4 DEF ArchOK
  <2> QED BY <1>6, <2>1, <2>2, <2>5
<1>8. SecsOK(secs) BY <1>4 DEF LinkInv, ClaimsInv
<1>9. ObjectFile(f) /\ (Ordinary => PlainFile(f))
  <2> DEFINE nil == <<>>
  <2>1. IsSeq(nil) /\ \A k \in 1 .. Len(nil) : nil[k].file = f.id /\ nil[k].num = k
    BY DEF IsSeq
  <2> HIDE DEF nil
  <2> QED BY <1>1, <1>3, <1>5, <1>7, <2>1, MemberPlaced
<1>10. IsSeq(at) /\ \A k \in 1 .. Len(at) : at[k].file = f.id /\ at[k].num = k
  BY <1>8, <1>9, PlaceOK DEF ObjectFile
<1>11. PICK c \in CommandLines : \E p \in Nat :
         /\ AtFile(c, p, phase, input, b) /\ AtFile(c, p, phase, input, NoArchive)
         /\ Pieces(c \o Runtime, p, NoArchive, placed)
         /\ Pieces(c \o Runtime, p, b, placed \o at)
  <2> HIDE DEF at
  <2> QED BY <1>1, <1>3, <1>5, <1>7, <1>10, MemberPlaced
<1>12. CASE Merge(f) /\ phase' = phase /\ archive' = b
  <2>1. TableInv' /\ ClaimsInv' BY <1>4, <1>9, <1>12, MergeKeeps
  <2>2. placed' = placed \o at BY <1>12 DEF Merge
  <2> HIDE DEF at
  <2>3. PlacesInv' BY <1>1, <1>11, <1>12, <2>2 DEF PlacesInv, At
  <2>4. ArchiveInv' BY <1>4, <1>7, <1>12 DEF ArchiveInv, Adding
  <2> QED BY <1>7, <1>12, <2>1, <2>3, <2>4 DEF LinkInv
<1>13. CASE Refuse(f) /\ NotAdded /\ archive' = NoArchive
  <2>1. /\ TableInv' /\ ClaimsInv' /\ (Adding' => phase' = phase) /\ placed' = placed
        /\ nb_errors' # nb_errors
    BY <1>4, <1>9, <1>13, RefuseKeeps
  <2>2. PlacesInv' BY <1>1, <1>11, <1>13, <2>1 DEF PlacesInv, At
  <2>3. ArchiveInv' BY <1>13 DEF ArchiveInv
  <2> QED BY <2>1, <2>2, <2>3 DEF LinkInv
<1> QED BY <1>2, <1>12, <1>13 DEF MemberLoaded, b

LEMMA EndOfIndexInv == LinkInv /\ EndOfIndex => LinkInv'
<1> SUFFICES ASSUME LinkInv, EndOfIndex PROVE LinkInv' OBVIOUS
<1>1. /\ archive # NoArchive
      /\ archive' = IF archive.bound > 0 THEN [archive EXCEPT !.i = 1, !.bound = 0] ELSE NoArchive
      /\ input' = input /\ phase' = phase /\ nb_errors' = nb_errors /\ secs' = secs
      /\ placed' = placed /\ tab' = tab /\ seen' = seen
  BY DEF EndOfIndex, secVars, symVars
<1>2. Adding /\ ArchOK(archive) BY <1>1, OpenMembers
<1>3. TableInv' /\ ClaimsInv' BY <1>1 DEF LinkInv, TableInv, ClaimsInv, Adding
<1> DEFINE b == [file |-> archive.file, i |-> 1, bound |-> 0, loaded |-> archive.loaded]
<1>4. archive' = b \/ archive' = NoArchive
  <2> DEFINE j == 1
             z == 0
  <2>1. [archive EXCEPT !.i = 1, !.bound = 0] = [archive EXCEPT !.i = j, !.bound = z] OBVIOUS
  <2> HIDE DEF j, z
  <2>2. [archive EXCEPT !.i = j, !.bound = z]
          = [file |-> archive.file, i |-> j, bound |-> z, loaded |-> archive.loaded]
    BY <1>2, ArchiveAgain
  <2> QED BY <1>1, <2>1, <2>2 DEF j, z
<1>5. ArchOK(b) /\ b.file = archive.file /\ b.loaded = archive.loaded BY DEF ArchOK
<1> HIDE DEF b
<1>6. ArchiveInv' BY <1>1, <1>2, <1>4, <1>5 DEF ArchiveInv, Adding
<1>7. PICK c \in CommandLines : \E p \in Nat : At(c, p) BY <1>2 DEF LinkInv, PlacesInv
<1>8. PICK p \in Nat : At(c, p) BY <1>7
<1>9. AtFile(c, p, phase, input, archive) /\ Pieces(c \o Runtime, p, archive, placed)
  BY <1>8 DEF At
<1>10. AtFile(c, p, phase, input, archive') BY <1>1, <1>4, <1>5, <1>9 DEF AtFile
<1>11. Pieces(c \o Runtime, p, archive', placed)
  <2>1. p = p /\ archive' # NoArchive => archive # NoArchive /\ archive.loaded \subseteq archive'.loaded
    BY <1>1, <1>4, <1>5
  <2>2. p <= p BY <1>8
  <2> QED BY <1>8, <1>9, <2>1, <2>2, PiecesKept
<1>12. At(c, p)' BY <1>1, <1>10, <1>11 DEF At
<1>13. PlacesInv' BY <1>8, <1>12 DEF PlacesInv
<1> QED BY <1>3, <1>6, <1>13 DEF LinkInv

\* From the command line to the libraries.
LEMMA StartOutputInv == LinkInv /\ StartOutput => LinkInv'
<1> SUFFICES ASSUME LinkInv, StartOutput PROVE LinkInv' OBVIOUS
<1>1. /\ phase = "files" /\ archive = NoArchive /\ input = <<>> /\ nb_errors' = 0
      /\ archive' = archive /\ secs' = secs /\ placed' = placed /\ tab' = tab /\ seen' = seen
      /\ \/ phase' = "runtime" /\ input' = Runtime
         \/ phase' = "layout"
  BY DEF StartOutput, secVars, symVars
<1>2. Adding BY <1>1 DEF Adding
<1>3. TableInv' /\ ArchiveInv' BY <1>1 DEF LinkInv, TableInv, ArchiveInv
<1>4. ClaimsInv' BY <1>1, <1>2 DEF LinkInv, ClaimsInv
<1>5. PlacesInv'
  <2> SUFFICES ASSUME Adding' PROVE PlacesInv' BY DEF PlacesInv
  <2>1. phase' = "runtime" /\ input' = Runtime BY <1>1 DEF Adding
  <2>2. PICK c \in CommandLines : \E p \in Nat : At(c, p) BY <1>2 DEF LinkInv, PlacesInv
  <2>3. PICK p \in Nat : At(c, p) BY <2>2
  <2> DEFINE fs == c \o Runtime
  <2>4. /\ IsSeq(c) /\ IsSeq(Runtime) /\ Len(c) \in Nat /\ Len(Runtime) \in Nat
        /\ Len(fs) = Len(c) + Len(Runtime)
        /\ \A i \in 1 .. Len(Runtime) : fs[Len(c) + i] = Runtime[i]
    BY FilesOK
  <2>5. p \in 0 .. Len(fs) /\ p <= Len(c) /\ <<>> = Rest(c, p) /\ Pieces(fs, p, archive, placed)
    BY <1>1, <2>3 DEF At, AtFile
  <2>6. p = Len(c)
    <3>1. p \in 0 .. Len(c) BY <2>3, <2>4, <2>5
    <3> QED BY <2>4, <2>5, <3>1, RestSteps
  <2> HIDE DEF fs
  <2>7. Runtime = Rest(fs, p)
    <3>1. Runtime = [k \in 1 .. Len(Runtime) |-> Runtime[k]] BY <2>4, SeqIsFcn
    <3>2. Len(fs) - p = Len(Runtime) BY <2>4, <2>6
    <3>3. \A k \in 1 .. Len(Runtime) : fs[p + k] = Runtime[k] BY <2>4, <2>6
    <3> QED BY <3>1, <3>2, <3>3 DEF Rest
  <2>8. AtFile(c, p, phase', input', archive') BY <1>1, <2>1, <2>5, <2>7 DEF AtFile, fs
  <2>9. At(c, p)' BY <1>1, <2>5, <2>8 DEF At, fs
  <2> QED BY <2>3, <2>9 DEF PlacesInv
<1> QED BY <1>3, <1>4, <1>5 DEF LinkInv

\* Once no more files are added only the table matters.
LEMMA AfterFiles ==
    ASSUME ~Adding', archive' = NoArchive, phase' # "done" => Hashed(tab')
    PROVE  LinkInv'
BY DEF LinkInv, TableInv, ArchiveInv, ClaimsInv, PlacesInv

LEMMA ResolveCommonInv == LinkInv /\ ResolveCommon => LinkInv'
<1> SUFFICES ASSUME LinkInv, ResolveCommon PROVE LinkInv' OBVIOUS
<1> DEFINE c == CommonPlaced(secs, tab)
           a == [ss |-> c.ss, t |-> c.t, errors |-> nb_errors]
<1>1. /\ phase = "runtime" /\ archive = NoArchive /\ archive' = archive /\ phase' = "got"
      /\ tab' = LinkerSymsAdded(a)[Len(LinkerSymbols)].t
  BY DEF ResolveCommon, inVars
<1>2. Hashed(tab) BY <1>1 DEF LinkInv, TableInv
<1>3. a.t = c.t OBVIOUS
<1>4. Hashed(c.t) BY <1>2, CommonHashed
<1> HIDE DEF a, c
<1>5. Hashed(tab') BY <1>1, <1>3, <1>4, LinkerSymsHashed
<1> QED BY <1>1, <1>5, AfterFiles DEF Adding

LEMMA BuildGotInv == LinkInv /\ BuildGot => LinkInv'
<1> SUFFICES ASSUME LinkInv, BuildGot PROVE LinkInv' OBVIOUS
<1> DEFINE n == Len(secs) + 1
           y == [name |-> "_GLOBAL_OFFSET_TABLE_", bind |-> "GLOBAL", vis |-> DEFAULT,
                 asm |-> FALSE, size |-> 4, sec |-> n, value |-> 0, org |-> "linker"]
<1>1. phase = "got" /\ phase' = "layout" /\ archive' = archive BY DEF BuildGot, inVars
<1>2. tab' = tab \/ tab' = SetElfSym(tab, y, Bss) BY DEF BuildGot
<1>3. SymOK(y)
  <2> HIDE DEF n
  <2> QED BY SymbolsAssumption DEF SymOK, SymFields
<1>4. Hashed(tab) /\ archive = NoArchive
  BY <1>1 DEF LinkInv, TableInv, ArchiveInv, Adding
<1> HIDE DEF y
<1>5. Hashed(tab') BY <1>2, <1>3, <1>4, SetHashed
<1> QED BY <1>1, <1>4, <1>5, AfterFiles DEF Adding

LEMMA LayoutInv == LinkInv /\ Layout => LinkInv'
<1> SUFFICES ASSUME LinkInv, Layout PROVE LinkInv' OBVIOUS
<1>1. /\ phase = "layout" /\ phase' \in {"reloc", "write"} /\ archive' = archive /\ tab' = tab
  BY DEF Layout, inVars, symVars
<1>2. Hashed(tab) /\ archive = NoArchive
  BY <1>1 DEF LinkInv, TableInv, ArchiveInv, Adding
<1> QED BY <1>1, <1>2, AfterFiles DEF Adding

LEMMA RelocInv == LinkInv /\ Reloc => LinkInv'
<1> SUFFICES ASSUME LinkInv, Reloc PROVE LinkInv' OBVIOUS
<1> DEFINE ys == [i \in DOMAIN tab.syms |-> Relocated(tab.syms[i])]
<1>1. /\ phase = "reloc" /\ phase' \in {"failed", "write"} /\ archive' = archive
      /\ tab' = [tab EXCEPT !.syms = ys]
  BY DEF Reloc, inVars
<1>2. Hashed(tab) /\ archive = NoArchive
  BY <1>1 DEF LinkInv, TableInv, ArchiveInv, Adding
<1>3. ys = [i \in DOMAIN tab.syms |-> ys[i]] OBVIOUS
<1>4. \A i \in DOMAIN tab.syms :
        \/ ys[i] = tab.syms[i]
        \/ \E v, w : ys[i] = [tab.syms[i] EXCEPT !.sec = v, !.value = w]
        \/ \E w : ys[i] = [tab.syms[i] EXCEPT !.value = w]
  BY DEF Relocated
<1> HIDE DEF ys
<1>5. Hashed(tab') BY <1>1, <1>2, <1>3, <1>4, RevaluedHashed
<1> QED BY <1>1, <1>2, <1>5, AfterFiles DEF Adding

LEMMA WriteInv == LinkInv /\ Write => LinkInv'
<1> SUFFICES ASSUME LinkInv, Write PROVE LinkInv' OBVIOUS
<1>1. phase = "write" /\ phase' = "done" /\ archive' = archive BY DEF Write, inVars
<1>2. archive = NoArchive BY <1>1 DEF LinkInv, ArchiveInv, Adding
<1> QED BY <1>1, <1>2, AfterFiles DEF Adding

LEMMA StutterInv == LinkInv /\ UNCHANGED vars => LinkInv'
<1> SUFFICES ASSUME LinkInv, UNCHANGED vars PROVE LinkInv' OBVIOUS
<1>1. /\ phase' = phase /\ input' = input /\ archive' = archive /\ nb_errors' = nb_errors
      /\ secs' = secs /\ placed' = placed /\ tab' = tab /\ seen' = seen
  BY DEF vars, inVars, secVars, symVars
<1> QED BY <1>1 DEF LinkInv, TableInv, ArchiveInv, ClaimsInv, PlacesInv, At, Adding

LEMMA StepInv == LinkInv /\ [Next]_vars => LinkInv'
<1> SUFFICES ASSUME LinkInv, [Next]_vars PROVE LinkInv' OBVIOUS
<1> QED BY CompileInv, LoadObjectInv, OpenArchiveInv, LoadMemberInv, EndOfIndexInv, StartOutputInv,
           ResolveCommonInv, BuildGotInv, LayoutInv, RelocInv, WriteInv, StutterInv
           DEF Next, Stopped

-----------------------------------------------------------------------------
(* Relocations and the symbols that they name.                                 *)

\* Symbol i has this name, and is from this file if it is local.
IsThere(ys, i, name, org) ==
    i \in 1 .. Len(ys) /\ ys[i].name = name /\ (IsLocal(ys[i]) => ys[i].org = org)

\* The table zs has the symbols of ys under the numbers they had.
StillThere(ys, zs) ==
    /\ Len(ys) \in Nat /\ Len(zs) \in Nat /\ Len(ys) <= Len(zs)
    /\ \A i \in 1 .. Len(ys) : /\ zs[i].name = ys[i].name
                               /\ IsLocal(zs[i]) => IsLocal(ys[i]) /\ zs[i].org = ys[i].org

LEMMA ThereStill ==
    ASSUME NEW ys, NEW zs, StillThere(ys, zs), NEW i, NEW name, NEW org, IsThere(ys, i, name, org)
    PROVE  IsThere(zs, i, name, org)
BY DEF IsThere, StillThere

LEMMA StillStill ==
    ASSUME NEW xs, NEW ys, StillThere(xs, ys), NEW zs, StillThere(ys, zs)
    PROVE  StillThere(xs, zs)
<1>1. \A i \in 1 .. Len(xs) : i \in 1 .. Len(ys) BY DEF StillThere
<1> QED BY <1>1 DEF StillThere

\* set_elf_sym() returns the number of the symbol, and moves no other.
LEMMA SetThere ==
    ASSUME NEW t, Hashed(t), NEW y, SymOK(y), NEW bss
    PROVE  /\ StillThere(t.syms, SetElfSym(t, y, bss).syms)
           /\ IsThere(SetElfSym(t, y, bss).syms, SymIndex(t, y), y.name, y.org)
<1> DEFINE ys == t.syms
           zs == SetElfSym(t, y, bss).syms
           i == SymIndex(t, y)
           n == Len(ys)
<1>1. (Appended(ys, y, zs) /\ i = n + 1) \/ Joined(ys, y, i, bss, zs) BY SetHashed
<1>2. IsSeq(ys) /\ n \in Nat /\ DOMAIN ys = 1 .. n /\ \A j \in 1 .. n : SymOK(ys[j])
  BY SeqIsFcn DEF Hashed, TableShape
<1> HIDE DEF zs, i
<1>3. CASE Appended(ys, y, zs) /\ i = n + 1
  <2> HIDE DEF ys
  <2>1. zs = Append(ys, y) BY <1>3 DEF Appended
  <2>2. Len(zs) = n + 1 /\ zs[n + 1] = y /\ \A j \in 1 .. n : zs[j] = ys[j]
    BY <1>2, <2>1, AppendIsSeq
  <2>3. StillThere(ys, zs) BY <1>2, <2>2 DEF StillThere
  <2>4. IsThere(zs, i, y.name, y.org) BY <1>2, <1>3, <2>2 DEF IsThere
  <2> QED BY <2>3, <2>4 DEF zs, i, ys
<1>4. CASE Joined(ys, y, i, bss, zs)
  <2> HIDE DEF ys
  <2> DEFINE e == Merged(ys[i], y, bss)
  <2>1. i \in 1 .. n /\ ~IsLocal(ys[i]) /\ ys[i].name = y.name /\ ~IsLocal(y)
    BY <1>4 DEF Joined, Named
  <2>2. e.name = ys[i].name /\ ~IsLocal(e) BY <1>2, <2>1, MergedKeeps
  <2>3. zs = [ys EXCEPT ![i] = e] BY <1>4 DEF Joined
  <2> HIDE DEF e
  <2>4. zs = [j \in 1 .. n |-> zs[j]] /\ zs[i] = e /\ \A j \in 1 .. n : j # i => zs[j] = ys[j]
    BY <1>2, <2>1, <2>3
  <2>5. Len(zs) = n BY <1>2, <2>4, FcnIsSeq
  <2>6. \A j \in 1 .. n : zs[j].name = ys[j].name /\ (IsLocal(zs[j]) => zs[j] = ys[j])
    BY <2>2, <2>4
  <2>7. StillThere(ys, zs) BY <1>2, <2>5, <2>6 DEF StillThere
  <2>8. IsThere(zs, i, y.name, y.org) BY <2>1, <2>2, <2>4, <2>5 DEF IsThere
  <2> QED BY <2>7, <2>8 DEF zs, i, ys
<1> QED BY <1>1, <1>3, <1>4

\* The same for the symbols of a file, in turn.
TurnOK(t, W, ys, k) ==
    /\ StillThere(t.syms, W[k].syms)
    /\ \A j \in 1 .. k : IsThere(W[k].syms, SymIndex(W[j - 1], ys[j]), ys[j].name, ys[j].org)

LEMMA TurnThere ==
    ASSUME NEW t, Hashed(t), NEW ys, IsSeq(ys), \A k \in 1 .. Len(ys) : SymOK(ys[k]), NEW bss
    PROVE  TurnOK(t, SetInTurn(t, ys, bss), ys, Len(ys))
<1> DEFINE n == Len(ys)
           W == SetInTurn(t, ys, bss)
           Bad == {k \in 0 .. n : ~TurnOK(t, W, ys, k)}
<1>0. n \in Nat BY SeqIsFcn
<1>1. W[0] = t /\ \A k \in 1 .. n : W[k] = SetElfSym(W[k - 1], ys[k], bss)
  BY <1>0, SetInTurnSteps
<1>2. \A k \in 0 .. n : Hashed(W[k]) BY TurnHashed
<1> HIDE DEF W
<1>3. TurnOK(t, W, ys, 0)
  <2>1. Len(t.syms) \in Nat BY SeqIsFcn DEF Hashed, TableShape
  <2> QED BY <1>1, <2>1 DEF TurnOK, StillThere
<1>4. Bad = {}
  <2> SUFFICES ASSUME Bad # {} PROVE FALSE OBVIOUS
  <2>1. PICK k \in Bad : \A l \in Bad : k <= l
    <3>1. Bad \subseteq Nat BY <1>0
    <3> HIDE DEF Bad
    <3> QED BY <3>1, LeastNat
  <2>2. k \in 0 .. n /\ ~TurnOK(t, W, ys, k) OBVIOUS
  <2>3. k # 0 BY <1>3, <2>2
  <2>4. k \in 1 .. n /\ k - 1 \in 0 .. n /\ ~(k <= k - 1) BY <1>0, <2>2, <2>3
  <2>5. k - 1 \notin Bad
    <3> HIDE DEF Bad
    <3> QED BY <2>1, <2>4
  <2>6. TurnOK(t, W, ys, k - 1) BY <2>4, <2>5
  <2> DEFINE u == W[k - 1]
             v == W[k]
             y == ys[k]
  <2>7. Hashed(u) /\ SymOK(y) /\ v = SetElfSym(u, y, bss) BY <1>1, <1>2, <2>4
  <2>8. StillThere(u.syms, v.syms) /\ IsThere(v.syms, SymIndex(u, y), y.name, y.org)
    <3> HIDE DEF u, v, y
    <3> QED BY <2>7, SetThere
  <2>9. StillThere(t.syms, v.syms)
    <3>1. StillThere(t.syms, u.syms) BY <2>6 DEF TurnOK
    <3> HIDE DEF u, v
    <3> QED BY <2>8, <3>1, StillStill
  <2>10. ASSUME NEW j \in 1 .. k
         PROVE  IsThere(v.syms, SymIndex(W[j - 1], ys[j]), ys[j].name, ys[j].org)
    <3>1. CASE j = k BY <2>8, <3>1
    <3>2. CASE j # k
      <4>1. j \in 1 .. k - 1 BY <2>4, <3>2
      <4>2. IsThere(u.syms, SymIndex(W[j - 1], ys[j]), ys[j].name, ys[j].org)
        BY <2>6, <4>1 DEF TurnOK
      <4> HIDE DEF u, v
      <4> QED BY <2>8, <4>2, ThereStill
    <3> QED BY <3>1, <3>2
  <2>11. TurnOK(t, W, ys, k) BY <2>9, <2>10 DEF TurnOK
  <2> QED BY <2>2, <2>11
<1>5. TurnOK(t, W, ys, n) BY <1>0, <1>4
<1> QED BY <1>5 DEF W

LEMMA SymsThere ==
    ASSUME NEW t, Hashed(t), NEW ys, IsSeq(ys), \A k \in 1 .. Len(ys) : SymOK(ys[k])
    PROVE  /\ StillThere(t.syms, SetElfSyms(t, ys, Bss).tab.syms)
           /\ \A k \in 1 .. Len(ys) :
                 IsThere(SetElfSyms(t, ys, Bss).tab.syms, SetElfSyms(t, ys, Bss).index[k],
                         ys[k].name, ys[k].org)
<1> DEFINE W == SetInTurn(t, ys, Bss)
           s == SetElfSyms(t, ys, Bss)
<1>1. TurnOK(t, W, ys, Len(ys)) BY TurnThere
<1>2. s.tab = W[Len(ys)] /\ \A k \in 1 .. Len(ys) : s.index[k] = SymIndex(W[k - 1], ys[k])
  BY DEF SetElfSyms
<1> HIDE DEF W, s
<1> QED BY <1>1, <1>2 DEF TurnOK, s

RelFields == {"sec", "off", "kind", "sym", "name", "org", "value"}
FollowsOne(r, ys) == RelFields \subseteq DOMAIN r /\ IsThere(ys, r.sym, r.name, r.org)
Follows(rs, ys) == IsSeq(rs) /\ \A k \in 1 .. Len(rs) : FollowsOne(rs[k], ys)

LEMMA FollowsStill ==
    ASSUME NEW rs, NEW ys, Follows(rs, ys), NEW zs, StillThere(ys, zs)
    PROVE  Follows(rs, zs)
<1>1. ASSUME NEW k \in 1 .. Len(rs) PROVE FollowsOne(rs[k], zs)
  <2>1. FollowsOne(rs[k], ys) BY DEF Follows
  <2>2. IsThere(zs, rs[k].sym, rs[k].name, rs[k].org) BY <2>1, ThereStill DEF FollowsOne
  <2> QED BY <2>1, <2>2 DEF FollowsOne
<1> QED BY <1>1 DEF Follows

LEMMA FollowsBoth ==
    ASSUME NEW ys, NEW rs, Follows(rs, ys), NEW qs, Follows(qs, ys)
    PROVE  Follows(rs \o qs, ys)
<1> DEFINE z == rs \o qs
           n == Len(rs)
<1>1. /\ IsSeq(z) /\ n \in Nat /\ Len(qs) \in Nat /\ Len(z) = n + Len(qs)
      /\ \A i \in 1 .. n : z[i] = rs[i]
      /\ \A i \in 1 .. Len(qs) : z[n + i] = qs[i]
  BY ConcatIsSeq DEF Follows
<1> HIDE DEF z
<1>2. ASSUME NEW i \in 1 .. Len(z) PROVE FollowsOne(z[i], ys)
  <2>1. CASE i \in 1 .. n BY <1>1, <2>1 DEF Follows
  <2>2. CASE i \notin 1 .. n
    <3> DEFINE k == i - n
    <3>1. k \in 1 .. Len(qs) /\ i = n + k BY <1>1, <2>2
    <3> HIDE DEF k
    <3>2. z[n + k] = qs[k] BY <1>1, <3>1
    <3>3. z[i] = qs[k] BY <3>1, <3>2
    <3> QED BY <3>1, <3>3 DEF Follows
  <2> QED BY <2>1, <2>2
<1> QED BY <1>1, <1>2 DEF Follows, z

\* The relocations of a file, renumbered as its symbols were.
LEMMA RebasedFollow ==
    ASSUME NEW f, ObjectFile(f), NEW at, NEW index, NEW ys,
           \A k \in 1 .. Len(f.syms) : IsThere(ys, index[k], f.syms[k].name, f.id)
    PROVE  Follows(Rebased(f, at, index), ys)
<1> DEFINE rs == Rebased(f, at, index)
           n == Len(f.rels)
<1>1. n \in Nat /\ DOMAIN f.rels = 1 .. n /\ DOMAIN f.syms = 1 .. Len(f.syms)
  BY SeqIsFcn DEF ObjectFile
<1> DEFINE Sec(k) == at[f.rels[k].sec].sec
           Off(k) == f.rels[k].off + at[f.rels[k].sec].off
<1>2. rs = [k \in 1 .. n |-> rs[k]] BY <1>1 DEF Rebased
<1>3. \A k \in 1 .. n :
        rs[k] = [sec |-> Sec(k), off |-> Off(k), kind |-> f.rels[k].kind,
                 sym |-> index[f.rels[k].sym], name |-> f.syms[f.rels[k].sym].name, org |-> f.id,
                 value |-> 0]
  BY <1>1 DEF Rebased
<1> HIDE DEF rs, Sec, Off
<1>4. IsSeq(rs) /\ Len(rs) = n BY <1>1, <1>2, FcnIsSeq
<1>5. ASSUME NEW k \in 1 .. n PROVE FollowsOne(rs[k], ys)
  <2> DEFINE m == f.rels[k].sym
             kind == f.rels[k].kind
             sec == Sec(k)
             off == Off(k)
             sym == index[m]
             name == f.syms[m].name
             org == f.id
             r == rs[k]
  <2>1. r = [sec |-> sec, off |-> off, kind |-> kind, sym |-> sym, name |-> name, org |-> org,
             value |-> 0]
    BY <1>3
  <2>2. m \in 1 .. Len(f.syms) BY <1>1 DEF ObjectFile
  <2>3. IsThere(ys, sym, name, org) BY <2>2
  <2> HIDE DEF m, kind, sec, off, sym, name, org, r
  <2>4. RelFields \subseteq DOMAIN r /\ r.sym = sym /\ r.name = name /\ r.org = org
    BY <2>1 DEF RelFields
  <2>5. FollowsOne(r, ys) BY <2>3, <2>4 DEF FollowsOne
  <2> QED BY <2>5 DEF r
<1> QED BY <1>4, <1>5 DEF Follows, rs

\* A file is merged: its relocations name its symbols.
LEMMA MergeFollows ==
    ASSUME NEW f, ObjectFile(f), Hashed(tab), SecsOK(secs), Follows(rels, tab.syms),
           NEW at, at = Place(secs, f.id, f.secs).at,
           NEW ys, \/ ys = Moved(f, at)
                   \/ ys = [k \in 1 .. Len(Moved(f, at)) |-> EndBind(Moved(f, at)[k])]
    PROVE  LET s == SetElfSyms(tab, ys, Bss) IN
           Follows(rels \o Rebased(f, at, s.index), s.tab.syms)
<1> DEFINE zs == Moved(f, at)
           n == Len(f.syms)
           s == SetElfSyms(tab, ys, Bss)
           index == s.index
           after == s.tab.syms
<1>1. \A k \in 1 .. Len(f.secs) : at[k].sec \in Nat \ {0} BY PlaceOK DEF ObjectFile
<1>2. /\ IsSeq(zs) /\ Len(zs) = n
      /\ \A k \in 1 .. n : SymTyped(zs[k]) /\ zs[k].name = f.syms[k].name /\ zs[k].org = f.id
  BY <1>1, MovedOK
<1>3. n \in Nat /\ DOMAIN f.syms = 1 .. n BY SeqIsFcn DEF ObjectFile
<1> HIDE DEF zs, n
<1>4. /\ IsSeq(ys) /\ Len(ys) = n
      /\ \A k \in 1 .. n : SymTyped(ys[k]) /\ ys[k].name = f.syms[k].name /\ ys[k].org = f.id
  <2>1. CASE ys = zs BY <1>2, <2>1
  <2>2. CASE ys = [k \in 1 .. Len(zs) |-> EndBind(zs[k])]
    <3>1. ys = [k \in 1 .. n |-> ys[k]] BY <1>2, <2>2
    <3>2. \A k \in 1 .. n : ys[k] = EndBind(zs[k]) BY <1>2, <2>2
    <3>3. IsSeq(ys) /\ Len(ys) = n BY <1>3, <3>1, FcnIsSeq
    <3> QED BY <1>2, <3>2, <3>3, EndBindOK
  <2> QED BY <2>1, <2>2 DEF zs
<1>5. \A k \in 1 .. Len(ys) : SymOK(ys[k]) BY <1>4 DEF SymTyped
<1>6. /\ StillThere(tab.syms, after)
      /\ \A k \in 1 .. Len(ys) : IsThere(after, index[k], ys[k].name, ys[k].org)
  BY <1>4, <1>5, SymsThere
<1> HIDE DEF after, index
<1>7. Follows(rels, after) BY <1>6, FollowsStill
<1>8. \A k \in 1 .. Len(f.syms) : IsThere(after, index[k], f.syms[k].name, f.id)
  BY <1>4, <1>6 DEF n
<1>9. Follows(Rebased(f, at, index), after) BY <1>8, RebasedFollow
<1>10. Follows(rels \o Rebased(f, at, index), after) BY <1>7, <1>9, FollowsBoth
<1> QED BY <1>10 DEF after, index

\* A relocation may move and take a value, and still names its symbol.
LEMMA FollowsMoved ==
    ASSUME NEW ys, NEW rs, Follows(rs, ys), NEW qs, qs = [k \in 1 .. Len(rs) |-> qs[k]],
           \A k \in 1 .. Len(rs) : /\ DOMAIN qs[k] = DOMAIN rs[k] /\ qs[k].sym = rs[k].sym
                                   /\ qs[k].name = rs[k].name /\ qs[k].org = rs[k].org
    PROVE  Follows(qs, ys)
<1>1. Len(rs) \in Nat BY SeqIsFcn DEF Follows
<1>2. IsSeq(qs) /\ Len(qs) = Len(rs) BY <1>1, FcnIsSeq
<1>3. \A k \in 1 .. Len(rs) : FollowsOne(rs[k], ys) BY DEF Follows
<1> QED BY <1>2, <1>3 DEF Follows, FollowsOne

LEMMA ThereAlike ==
    ASSUME NEW ys, NEW zs, NEW n \in Nat, Len(ys) = n, Len(zs) = n,
           \A i \in 1 .. n : /\ zs[i].name = ys[i].name
                             /\ IsLocal(zs[i]) => IsLocal(ys[i]) /\ zs[i].org = ys[i].org
    PROVE  StillThere(ys, zs)
BY DEF StillThere

\* Symbols keep their names when they get their addresses.
LEMMA RevaluedThere ==
    ASSUME NEW t, Hashed(t), NEW zs, zs = [i \in DOMAIN t.syms |-> zs[i]],
           \A i \in DOMAIN t.syms :
              \/ zs[i] = t.syms[i]
              \/ \E v, w : zs[i] = [t.syms[i] EXCEPT !.sec = v, !.value = w]
              \/ \E w : zs[i] = [t.syms[i] EXCEPT !.value = w]
    PROVE  StillThere(t.syms, zs)
<1> DEFINE ys == t.syms
           n == Len(ys)
<1>1. /\ IsSeq(ys) /\ n \in Nat /\ DOMAIN ys = 1 .. n /\ \A i \in 1 .. n : SymOK(ys[i])
  BY SeqIsFcn DEF Hashed, TableShape
<1>2. IsSeq(zs) /\ Len(zs) = n
  <2>1. zs = [i \in 1 .. n |-> zs[i]] BY <1>1
  <2> HIDE DEF n
  <2> QED BY <1>1, <2>1, FcnIsSeq
<1>3. ASSUME NEW i \in 1 .. n
      PROVE  zs[i].name = ys[i].name /\ (IsLocal(zs[i]) => IsLocal(ys[i]) /\ zs[i].org = ys[i].org)
  <2> DEFINE y == ys[i]
             z == zs[i]
  <2>1. SymOK(y) BY <1>1
  <2>2. \/ z = y \/ (\E v, w : z = [y EXCEPT !.sec = v, !.value = w])
        \/ \E w : z = [y EXCEPT !.value = w]
    BY <1>1
  <2> HIDE DEF y, z
  <2>3. "name" \in DOMAIN y /\ "bind" \in DOMAIN y /\ "org" \in DOMAIN y
    BY <2>1 DEF SymOK, SymFields
  <2>4. z.name = y.name /\ z.bind = y.bind /\ z.org = y.org BY <2>2, <2>3
  <2>5. z.name = y.name /\ (IsLocal(z) => IsLocal(y) /\ z.org = y.org) BY <2>4 DEF IsLocal
  <2> QED BY <2>5 DEF y, z
<1> HIDE DEF n
<1>4. n \in Nat /\ Len(zs) = n BY <1>1, <1>2
<1>5. n = Len(ys) BY DEF n
<1> HIDE DEF ys
<1>6. StillThere(ys, zs) BY ONLY <1>3, <1>4, <1>5, ThereAlike
<1> QED BY <1>6 DEF ys

LEMMA CommonThere ==
    ASSUME NEW ss, NEW t, Hashed(t)
    PROVE  StillThere(t.syms, CommonPlaced(ss, t).t.syms)
<1> DEFINE bss == BssAfter(ss, t)
           rs == [i \in DOMAIN t.syms |->
                    IF t.syms[i].sec # COMMON THEN t.syms[i]
                    ELSE [t.syms[i] EXCEPT !.sec = Bss, !.value = bss[i].offset - t.syms[i].size]]
<1>1. CommonPlaced(ss, t).t = [t EXCEPT !.syms = rs] BY DEF CommonPlaced
<1> HIDE DEF bss
<1>2. rs = [i \in DOMAIN t.syms |-> rs[i]] OBVIOUS
<1>3. \A i \in DOMAIN t.syms :
        \/ rs[i] = t.syms[i]
        \/ \E v, w : rs[i] = [t.syms[i] EXCEPT !.sec = v, !.value = w]
        \/ \E w : rs[i] = [t.syms[i] EXCEPT !.value = w]
  OBVIOUS
<1> HIDE DEF rs
<1>4. StillThere(t.syms, rs) BY <1>2, <1>3, RevaluedThere
<1>5. "syms" \in DOMAIN t BY HashedTable DEF Table
<1>6. [t EXCEPT !.syms = rs].syms = rs BY <1>5
<1> QED BY <1>1, <1>4, <1>6

LEMMA LinkerSymThere ==
    ASSUME NEW a, Hashed(a.t), NEW d, d.name \in SymNames
    PROVE  StillThere(a.t.syms, LinkerSymAdded(a, d).t.syms)
<1> DEFINE ss == WithSection(a.ss, [name |-> d.sec, type |-> "PROGBITS",
                                    flags |-> {"ALLOC"}, align |-> PtrSize])
           n == SectionNum(ss, d.sec)
           v == IF d.at = "end" THEN ss[n].offset ELSE 0
           y == [name |-> d.name, bind |-> "GLOBAL", vis |-> DEFAULT, asm |-> FALSE,
                 size |-> 0, sec |-> n, org |-> "linker", value |-> v]
<1>1. LinkerSymAdded(a, d).t = SetElfSym(a.t, y, Bss) BY DEF LinkerSymAdded
<1>2. SymOK(y)
  <2> HIDE DEF n, v
  <2> QED BY DEF SymOK, SymFields
<1> HIDE DEF y
<1> QED BY <1>1, <1>2, SetThere

LEMMA LinkerSymsThere ==
    ASSUME NEW a, Hashed(a.t)
    PROVE  StillThere(a.t.syms, LinkerSymsAdded(a)[Len(LinkerSymbols)].t.syms)
<1> DEFINE n == Len(LinkerSymbols)
           W == LinkerSymsAdded(a)
           OK(k) == Hashed(W[k].t) /\ StillThere(a.t.syms, W[k].t.syms)
           Bad == {k \in 0 .. n : ~OK(k)}
<1>0. n \in Nat /\ DOMAIN LinkerSymbols = 1 .. n BY SymbolsAssumption, SeqIsFcn
<1>1. W[0] = a /\ \A k \in 1 .. n : W[k] = LinkerSymAdded(W[k - 1], LinkerSymbols[k])
  BY <1>0, LinkerSymsSteps
<1> HIDE DEF W
<1>2. OK(0)
  <2>1. Len(a.t.syms) \in Nat BY SeqIsFcn DEF Hashed, TableShape
  <2> QED BY <1>1, <2>1 DEF StillThere
<1>3. Bad = {}
  <2> SUFFICES ASSUME Bad # {} PROVE FALSE OBVIOUS
  <2>1. PICK k \in Bad : \A l \in Bad : k <= l
    <3>1. Bad \subseteq Nat BY <1>0
    <3> HIDE DEF Bad
    <3> QED BY <3>1, LeastNat
  <2>2. k \in 0 .. n /\ ~OK(k) OBVIOUS
  <2>3. k # 0 BY <1>2, <2>2
  <2>4. k \in 1 .. n /\ k - 1 \in 0 .. n /\ ~(k <= k - 1) BY <1>0, <2>2, <2>3
  <2>5. k - 1 \notin Bad
    <3> HIDE DEF Bad
    <3> QED BY <2>1, <2>4
  <2>6. OK(k - 1) BY <2>4, <2>5
  <2> DEFINE u == W[k - 1]
             v == W[k]
             d == LinkerSymbols[k]
  <2>7. v = LinkerSymAdded(u, d) /\ d.name \in SymNames BY <1>0, <1>1, <2>4, SymbolsAssumption
  <2>8. Hashed(u.t) /\ StillThere(a.t.syms, u.t.syms) BY <2>6
  <2>9. Hashed(v.t) /\ StillThere(a.t.syms, v.t.syms)
    <3> HIDE DEF u, v, d
    <3>1. Hashed(v.t) BY <2>7, <2>8, LinkerSymHashed
    <3>2. StillThere(u.t.syms, v.t.syms) BY <2>7, <2>8, LinkerSymThere
    <3>3. StillThere(a.t.syms, v.t.syms) BY <2>8, <3>2, StillStill
    <3> QED BY <3>1, <3>3
  <2> QED BY <2>2, <2>9
<1>4. OK(n) BY <1>0, <1>3
<1> QED BY <1>4 DEF W

\* The relocations for which a GOT entry is made.
LEMMA GotEntriesSteps ==
    ASSUME NEW rs, Len(rs) \in Nat
    PROVE  /\ GotEntries(rs)[0] = <<>>
           /\ \A k \in 1 .. Len(rs) :
                 GotEntries(rs)[k] = GotEntry(GotEntries(rs)[k - 1], rs[k])
<1> DEFINE n == Len(rs)
           Step(f, k) == IF k = 0 THEN <<>> ELSE GotEntry(f[k - 1], rs[k])
           Runs(f, m) == \A k \in 0 .. m : f[k] = Step(f, k)
           Bad == {m \in Nat : ~ \E f : Runs(f, m)}
           W == GotEntries(rs)
<1>1. Bad = {}
  <2> SUFFICES ASSUME Bad # {} PROVE FALSE OBVIOUS
  <2>1. PICK m \in Bad : \A l \in Bad : m <= l
    <3>1. Bad \subseteq Nat OBVIOUS
    <3> HIDE DEF Bad
    <3> QED BY <3>1, LeastNat
  <2>2. CASE m = 0
    <3>1. Runs([k \in 0 .. 0 |-> <<>>], 0) OBVIOUS
    <3> QED BY <2>1, <2>2, <3>1
  <2>3. CASE m # 0
    <3>0. m - 1 \in Nat /\ ~(m <= m - 1) BY <2>1, <2>3
    <3>1. m - 1 \notin Bad
      <4> HIDE DEF Bad
      <4> QED BY <2>1, <3>0
    <3>2. PICK f : Runs(f, m - 1) BY <3>0, <3>1
    <3> DEFINE last == GotEntry(f[m - 1], rs[m])
               g == [k \in 0 .. m |-> IF k = m THEN last ELSE f[k]]
    <3>4. ASSUME NEW k \in 0 .. m PROVE g[k] = Step(g, k)
      <4> HIDE DEF last
      <4>1. CASE k = m
        <5>1. g[k] = last /\ g[m - 1] = f[m - 1] BY <3>0, <4>1
        <5> HIDE DEF g
        <5> QED BY <2>3, <4>1, <5>1 DEF last
      <4>2. CASE k # m
        <5>1. k \in 0 .. m - 1 /\ g[k] = f[k] BY <3>0, <4>2
        <5>2. k # 0 => g[k - 1] = f[k - 1] BY <3>0, <5>1
        <5> HIDE DEF g
        <5> QED BY <3>2, <5>1, <5>2
      <4> QED BY <4>1, <4>2
    <3>5. Runs(g, m)
      <4> HIDE DEF g, Step
      <4> QED BY <3>4
    <3> HIDE DEF Runs
    <3> QED BY <2>1, <3>5
  <2> QED BY <2>2, <2>3
<1>2. PICK f : Runs(f, n) BY <1>1
<1> DEFINE F == [k \in 0 .. n |-> f[k]]
<1>3. F = [k \in 0 .. n |-> Step(F, k)]
  <2>1. ASSUME NEW k \in 0 .. n PROVE F[k] = Step(F, k)
    <3>1. F[k] = f[k] /\ (k # 0 => F[k - 1] = f[k - 1]) OBVIOUS
    <3>2. f[k] = Step(f, k) BY <1>2
    <3> HIDE DEF F
    <3> QED BY <3>1, <3>2
  <2> HIDE DEF Step
  <2> QED BY <2>1
<1>4. W = CHOOSE h : h = [k \in 0 .. n |-> Step(h, k)] BY DEF GotEntries
<1>5. W = [k \in 0 .. n |-> Step(W, k)]
  <2> HIDE DEF W, F
  <2> QED BY <1>3, <1>4
<1>6. ASSUME NEW k \in 0 .. n PROVE W[k] = Step(W, k)
  <2> HIDE DEF W
  <2> QED BY <1>5
<1>7. W[0] = <<>>
  <2> HIDE DEF W
  <2> QED BY <1>6
<1>8. ASSUME NEW k \in 1 .. n PROVE W[k] = GotEntry(W[k - 1], rs[k])
  <2> HIDE DEF W
  <2>1. k \in 0 .. n /\ k # 0 OBVIOUS
  <2> QED BY <1>6, <2>1
<1> QED BY <1>7, <1>8

LEMMA GotEntryFollows ==
    ASSUME NEW ys, NEW gs, Follows(gs, ys), NEW r, FollowsOne(r, ys)
    PROVE  Follows(GotEntry(gs, r), ys)
<1> DEFINE z == Append(gs, r)
<1>1. /\ IsSeq(z) /\ Len(gs) \in Nat /\ Len(z) = Len(gs) + 1 /\ z[Len(gs) + 1] = r
      /\ \A i \in 1 .. Len(gs) : z[i] = gs[i]
  BY AppendIsSeq DEF Follows
<1> HIDE DEF z
<1>2. \A i \in 1 .. Len(z) : i \in 1 .. Len(gs) \/ i = Len(gs) + 1 BY <1>1
<1>3. Follows(z, ys) BY <1>1, <1>2 DEF Follows
<1>4. GotEntry(gs, r) = z \/ GotEntry(gs, r) = gs BY DEF GotEntry, z
<1> QED BY <1>3, <1>4

LEMMA GotFollows ==
    ASSUME NEW ys, NEW rs, Follows(rs, ys)
    PROVE  Follows(GotEntries(rs)[Len(rs)], ys)
<1> DEFINE n == Len(rs)
           W == GotEntries(rs)
           Bad == {k \in 0 .. n : ~Follows(W[k], ys)}
<1>0. n \in Nat BY SeqIsFcn DEF Follows
<1>1. W[0] = <<>> /\ \A k \in 1 .. n : W[k] = GotEntry(W[k - 1], rs[k]) BY <1>0, GotEntriesSteps
<1> HIDE DEF W
<1>2. Follows(<<>>, ys)
  <2>1. <<>> \in Seq(Range(<<>>)) /\ Len(<<>>) = 0 OBVIOUS
  <2> QED BY <2>1 DEF Follows, IsSeq
<1>3. Bad = {}
  <2> SUFFICES ASSUME Bad # {} PROVE FALSE OBVIOUS
  <2>1. PICK k \in Bad : \A l \in Bad : k <= l
    <3>1. Bad \subseteq Nat BY <1>0
    <3> HIDE DEF Bad
    <3> QED BY <3>1, LeastNat
  <2>2. k \in 0 .. n /\ ~Follows(W[k], ys) OBVIOUS
  <2>3. k # 0 BY <1>1, <1>2, <2>2
  <2>4. k \in 1 .. n /\ k - 1 \in 0 .. n /\ ~(k <= k - 1) BY <1>0, <2>2, <2>3
  <2>5. k - 1 \notin Bad
    <3> HIDE DEF Bad
    <3> QED BY <2>1, <2>4
  <2>6. Follows(W[k - 1], ys) BY <2>4, <2>5
  <2>7. FollowsOne(rs[k], ys) BY <2>4 DEF Follows
  <2>8. Follows(GotEntry(W[k - 1], rs[k]), ys) BY <2>6, <2>7, GotEntryFollows
  <2> QED BY <1>1, <2>2, <2>4, <2>8
<1>4. Follows(W[n], ys) BY <1>0, <1>3
<1> QED BY <1>4 DEF W

\* A pass of sort_syms() over the table.
LEMMA SortPassSteps ==
    ASSUME NEW a, NEW ys, Len(ys) \in Nat, NEW local
    PROVE  /\ SortPass(a, ys, local)[0] = a
           /\ \A k \in 1 .. Len(ys) :
                 SortPass(a, ys, local)[k] = SortStep(SortPass(a, ys, local)[k - 1], ys, k, local)
<1> DEFINE n == Len(ys)
           Step(f, k) == IF k = 0 THEN a ELSE SortStep(f[k - 1], ys, k, local)
           Runs(f, m) == \A k \in 0 .. m : f[k] = Step(f, k)
           Bad == {m \in Nat : ~ \E f : Runs(f, m)}
           W == SortPass(a, ys, local)
<1>1. Bad = {}
  <2> SUFFICES ASSUME Bad # {} PROVE FALSE OBVIOUS
  <2>1. PICK m \in Bad : \A l \in Bad : m <= l
    <3>1. Bad \subseteq Nat OBVIOUS
    <3> HIDE DEF Bad
    <3> QED BY <3>1, LeastNat
  <2>2. CASE m = 0
    <3>1. Runs([k \in 0 .. 0 |-> a], 0) OBVIOUS
    <3> QED BY <2>1, <2>2, <3>1
  <2>3. CASE m # 0
    <3>0. m - 1 \in Nat /\ ~(m <= m - 1) BY <2>1, <2>3
    <3>1. m - 1 \notin Bad
      <4> HIDE DEF Bad
      <4> QED BY <2>1, <3>0
    <3>2. PICK f : Runs(f, m - 1) BY <3>0, <3>1
    <3> DEFINE last == SortStep(f[m - 1], ys, m, local)
               g == [k \in 0 .. m |-> IF k = m THEN last ELSE f[k]]
    <3>4. ASSUME NEW k \in 0 .. m PROVE g[k] = Step(g, k)
      <4> HIDE DEF last
      <4>1. CASE k = m
        <5>1. g[k] = last /\ g[m - 1] = f[m - 1] BY <3>0, <4>1
        <5> HIDE DEF g
        <5> QED BY <2>3, <4>1, <5>1 DEF last
      <4>2. CASE k # m
        <5>1. k \in 0 .. m - 1 /\ g[k] = f[k] BY <3>0, <4>2
        <5>2. k # 0 => g[k - 1] = f[k - 1] BY <3>0, <5>1
        <5> HIDE DEF g
        <5> QED BY <3>2, <5>1, <5>2
      <4> QED BY <4>1, <4>2
    <3>5. Runs(g, m)
      <4> HIDE DEF g, Step
      <4> QED BY <3>4
    <3> HIDE DEF Runs
    <3> QED BY <2>1, <3>5
  <2> QED BY <2>2, <2>3
<1>2. PICK f : Runs(f, n) BY <1>1
<1> DEFINE F == [k \in 0 .. n |-> f[k]]
<1>3. F = [k \in 0 .. n |-> Step(F, k)]
  <2>1. ASSUME NEW k \in 0 .. n PROVE F[k] = Step(F, k)
    <3>1. F[k] = f[k] /\ (k # 0 => F[k - 1] = f[k - 1]) OBVIOUS
    <3>2. f[k] = Step(f, k) BY <1>2
    <3> HIDE DEF F
    <3> QED BY <3>1, <3>2
  <2> HIDE DEF Step
  <2> QED BY <2>1
<1>4. W = CHOOSE h : h = [k \in 0 .. n |-> Step(h, k)] BY DEF SortPass
<1>5. W = [k \in 0 .. n |-> Step(W, k)]
  <2> HIDE DEF W, F
  <2> QED BY <1>3, <1>4
<1>6. ASSUME NEW k \in 0 .. n PROVE W[k] = Step(W, k)
  <2> HIDE DEF W
  <2> QED BY <1>5
<1>7. W[0] = a
  <2> HIDE DEF W
  <2> QED BY <1>6
<1>8. ASSUME NEW k \in 1 .. n PROVE W[k] = SortStep(W[k - 1], ys, k, local)
  <2> HIDE DEF W
  <2>1. k \in 0 .. n /\ k # 0 OBVIOUS
  <2> QED BY <1>6, <2>1
<1> QED BY <1>7, <1>8

\* The symbols whose numbers are in D are copied, and `to' says where.
Going(a, ys, D) ==
    /\ IsSeq(a.new)
    /\ a.to = [i \in 1 .. Len(ys) |-> a.to[i]]
    /\ \A i \in 1 .. Len(ys) : i \in D => a.to[i] \in 1 .. Len(a.new) /\ a.new[a.to[i]] = ys[i]

LEMMA CopiedGoing ==
    ASSUME NEW ys, NEW a, NEW D, Going(a, ys, D), NEW j \in 1 .. Len(ys)
    PROVE  Going(Copied(a, ys[j], j), ys, D \cup {j})
<1> DEFINE y == ys[j]
           n == Len(a.new)
           new == Append(a.new, y)
           to == [a.to EXCEPT ![j] = n + 1]
           b == Copied(a, y, j)
<1>1. b = [new |-> new, to |-> to] BY DEF Copied
<1>2. /\ IsSeq(new) /\ n \in Nat /\ Len(new) = n + 1 /\ new[n + 1] = y
      /\ \A i \in 1 .. n : new[i] = a.new[i]
  BY AppendIsSeq DEF Going
<1>3. a.to = [i \in 1 .. Len(ys) |-> a.to[i]] BY DEF Going
<1>4. to = [i \in 1 .. Len(ys) |-> to[i]] /\ to[j] = n + 1 BY <1>3
<1>5. \A i \in 1 .. Len(ys) : i # j => to[i] = a.to[i] BY <1>3
<1>6. \A i \in 1 .. Len(ys) : i \in D => a.to[i] \in 1 .. n /\ a.new[a.to[i]] = ys[i]
  BY DEF Going
<1> HIDE DEF new, to, n
<1>7. ASSUME NEW i \in 1 .. Len(ys), i \in D \cup {j}
      PROVE  to[i] \in 1 .. Len(new) /\ new[to[i]] = ys[i]
  <2>1. CASE i = j BY <1>2, <1>4, <2>1
  <2>2. CASE i # j
    <3>1. to[i] = a.to[i] /\ a.to[i] \in 1 .. n /\ a.new[a.to[i]] = ys[i] BY <1>5, <1>6, <1>7, <2>2
    <3>2. new[a.to[i]] = a.new[a.to[i]] /\ a.to[i] \in 1 .. Len(new) BY <1>2, <3>1
    <3> QED BY <3>1, <3>2
  <2> QED BY <2>1, <2>2
<1>8. b.new = new /\ b.to = to BY <1>1
<1> HIDE DEF b
<1>9. Going(b, ys, D \cup {j}) BY <1>2, <1>4, <1>7, <1>8 DEF Going
<1> QED BY <1>9 DEF b

LEMMA PassGoing ==
    ASSUME NEW ys, Len(ys) \in Nat, NEW a, NEW D, Going(a, ys, D), NEW local,
           NEW L, \A i \in L : i \in 1 .. Len(ys) /\ (IsLocal(ys[i]) <=> local)
    PROVE  Going(SortPass(a, ys, local)[Len(ys)], ys, D \cup L)
<1> DEFINE n == Len(ys)
           W == SortPass(a, ys, local)
           Mine(i) == IsLocal(ys[i]) <=> local
           E(k) == D \cup {i \in 1 .. k : Mine(i)}
           Bad == {k \in 0 .. n : ~Going(W[k], ys, E(k))}
<1>0. n \in Nat OBVIOUS
<1>1. W[0] = a /\ \A k \in 1 .. n : W[k] = SortStep(W[k - 1], ys, k, local)
  BY <1>0, SortPassSteps
<1> HIDE DEF W
<1>2. Going(W[0], ys, E(0))
  <2>1. E(0) = D OBVIOUS
  <2> HIDE DEF E
  <2> QED BY <1>1, <2>1
<1>3. Bad = {}
  <2> SUFFICES ASSUME Bad # {} PROVE FALSE OBVIOUS
  <2>1. PICK k \in Bad : \A l \in Bad : k <= l
    <3>1. Bad \subseteq Nat BY <1>0
    <3> HIDE DEF Bad
    <3> QED BY <3>1, LeastNat
  <2>2. k \in 0 .. n /\ ~Going(W[k], ys, E(k)) OBVIOUS
  <2>3. k # 0 BY <1>2, <2>2
  <2>4. k \in 1 .. n /\ k - 1 \in 0 .. n /\ ~(k <= k - 1) BY <1>0, <2>2, <2>3
  <2>5. k - 1 \notin Bad
    <3> HIDE DEF Bad
    <3> QED BY <2>1, <2>4
  <2>6. Going(W[k - 1], ys, E(k - 1)) BY <2>4, <2>5
  <2>7. \A i \in E(k) : i \in E(k - 1) \/ (i = k /\ Mine(k))
    <3>1. \A i \in 1 .. k : i \in 1 .. k - 1 \/ i = k BY <2>4
    <3> HIDE DEF Mine
    <3> QED BY <3>1
  <2>8. CASE Mine(k)
    <3>1. W[k] = Copied(W[k - 1], ys[k], k) BY <1>1, <2>4, <2>8 DEF SortStep
    <3> DEFINE F == E(k - 1)
               G == E(k)
    <3>2. Going(W[k - 1], ys, F) BY <2>6
    <3>3. \A i \in G : i \in F \cup {k} BY <2>7
    <3> HIDE DEF F, G, E, Mine
    <3>4. Going(Copied(W[k - 1], ys[k], k), ys, F \cup {k}) BY <2>4, <3>2, CopiedGoing
    <3>5. Going(W[k], ys, G) BY <3>1, <3>3, <3>4 DEF Going
    <3> QED BY <2>2, <3>5 DEF G
  <2>9. CASE ~Mine(k)
    <3>1. W[k] = W[k - 1] BY <1>1, <2>4, <2>9 DEF SortStep
    <3> HIDE DEF E, Mine
    <3>2. Going(W[k], ys, E(k)) BY <2>6, <2>7, <2>9, <3>1 DEF Going
    <3> QED BY <2>2, <3>2
  <2> QED BY <2>8, <2>9
<1>4. Going(W[n], ys, E(n))
  <2>1. n \in 0 .. n BY <1>0
  <2> HIDE DEF E, n
  <2> QED BY <1>3, <2>1
<1>5. \A i \in D \cup L : i \in E(n) OBVIOUS
<1> DEFINE F == E(n)
           G == D \cup L
<1>6. Going(W[n], ys, F) /\ \A i \in G : i \in F BY <1>4, <1>5
<1> HIDE DEF F, G
<1>7. Going(W[n], ys, G) BY <1>6 DEF Going
<1> QED BY <1>7 DEF W, G

\* sort_syms() copies every symbol, and knows where.
LEMMA SortedGoing ==
    ASSUME NEW ys, IsSeq(ys)
    PROVE  Going(SortedSyms(ys), ys, 1 .. Len(ys))
<1> DEFINE nil == <<>>
           to == [i \in DOMAIN ys |-> 0]
           start == [new |-> nil, to |-> to]
           a == SortPass(start, ys, TRUE)[Len(ys)]
           b == SortPass(a, ys, FALSE)[Len(ys)]
           L == {i \in 1 .. Len(ys) : IsLocal(ys[i])}
           M == {i \in 1 .. Len(ys) : ~IsLocal(ys[i])}
           O == {}
<1>1. Len(ys) \in Nat /\ DOMAIN ys = 1 .. Len(ys) BY SeqIsFcn
<1>2. IsSeq(nil) BY DEF IsSeq
<1>3. to = [i \in 1 .. Len(ys) |-> to[i]] BY <1>1
<1>4. start.new = nil /\ start.to = to OBVIOUS
<1> HIDE DEF nil, to
<1>5. Going(start, ys, O)
  <2> HIDE DEF start
  <2> QED BY <1>2, <1>3, <1>4 DEF Going
<1> HIDE DEF start, O
<1>0. /\ \A i \in L : i \in 1 .. Len(ys) /\ (IsLocal(ys[i]) <=> TRUE)
      /\ \A i \in M : i \in 1 .. Len(ys) /\ (IsLocal(ys[i]) <=> FALSE)
  OBVIOUS
<1> HIDE DEF L, M
<1>6. Going(a, ys, O \cup L) BY <1>0, <1>1, <1>5, PassGoing
<1> DEFINE P == O \cup L
<1> HIDE DEF a, P
<1>7. Going(a, ys, P) BY <1>6 DEF P
<1>8. Going(b, ys, P \cup M) BY <1>0, <1>1, <1>7, PassGoing
<1>9. b = SortedSyms(ys) BY DEF SortedSyms, start, nil, to, a
<1>10. \A i \in 1 .. Len(ys) : i \in P \cup M BY DEF P, L, M
<1> DEFINE Q == P \cup M
<1> HIDE DEF b, Q
<1>11. Going(b, ys, Q) /\ \A i \in 1 .. Len(ys) : i \in Q BY <1>8, <1>10 DEF Q
<1> QED BY <1>9, <1>11 DEF Going

RelInv == Follows(rels, tab.syms)

LEMMA InitFollows == Init => RelInv
<1> SUFFICES ASSUME Init PROVE RelInv OBVIOUS
<1>1. rels = <<>> BY DEF Init
<1>2. <<>> \in Seq(Range(<<>>)) /\ Len(<<>>) = 0 OBVIOUS
<1> QED BY <1>1, <1>2 DEF RelInv, Follows, IsSeq

LEMMA CompileFollows == LinkInv /\ RelInv /\ CompileFile => RelInv'
<1> SUFFICES ASSUME LinkInv, RelInv, CompileFile PROVE RelInv' OBVIOUS
<1> DEFINE f == Head(input)
           at == Place(secs, f.id, f.secs).at
           ys == Moved(f, at)
           zs == [k \in 1 .. Len(ys) |-> EndBind(ys[k])]
           s == SetElfSyms(tab, zs, Bss)
           e == EndFile(Compiled(tab, ys), Len(tab.syms))
<1>1. archive = NoArchive /\ input # <<>> /\ f.kind \in {"c", "o"} /\ Adding
  BY DEF CompileFile, Adding
<1>2. tab' = e.tab /\ rels' = rels \o Rebased(f, at, e.index) BY DEF CompileFile, EndFileIndex
<1>3. Hashed(tab) /\ SecsOK(secs) BY <1>1 DEF LinkInv, TableInv, ClaimsInv, Adding
<1>4. ObjectFile(f)
  <2> DEFINE nil == <<>>
  <2>1. IsSeq(nil) /\ \A k \in 1 .. Len(nil) : nil[k].file = f.id /\ nil[k].num = k
    BY DEF IsSeq
  <2> HIDE DEF nil
  <2> QED BY <1>1, <2>1, FilePlaced
<1>5. IsSeq(ys)
  <2>1. \A k \in 1 .. Len(f.secs) : at[k].sec \in Nat \ {0} BY <1>3, <1>4, PlaceOK DEF ObjectFile
  <2> HIDE DEF at, f
  <2> QED BY <1>4, <2>1, MovedOK
<1>6. e = s
  <2> HIDE DEF ys
  <2> QED BY <1>3, <1>5, EndFileSets
<1>7. at = Place(secs, f.id, f.secs).at OBVIOUS
<1>8. zs = [k \in 1 .. Len(Moved(f, at)) |-> EndBind(Moved(f, at)[k])] OBVIOUS
<1> HIDE DEF e, at, f, ys, zs
<1>9. Follows(rels \o Rebased(f, at, s.index), s.tab.syms)
  BY <1>3, <1>4, <1>7, <1>8, MergeFollows DEF RelInv
<1> QED BY <1>2, <1>6, <1>9 DEF RelInv

LEMMA LoadFollows ==
    ASSUME LinkInv, RelInv, Adding, NEW f, ObjectFile(f), Merge(f) \/ Refuse(f)
    PROVE  RelInv'
<1> DEFINE at == Place(secs, f.id, f.secs).at
           ys == Moved(f, at)
           s == SetElfSyms(tab, ys, Bss)
<1>1. CASE Refuse(f)
  <2>1. rels' = rels /\ tab' = tab BY <1>1 DEF Refuse, symVars
  <2> QED BY <2>1 DEF RelInv
<1>2. CASE Merge(f)
  <2>1. tab' = s.tab /\ rels' = rels \o Rebased(f, at, s.index) BY <1>2 DEF Merge
  <2>2. Hashed(tab) /\ SecsOK(secs) BY DEF LinkInv, TableInv, ClaimsInv, Adding
  <2>3. at = Place(secs, f.id, f.secs).at /\ ys = Moved(f, at) OBVIOUS
  <2> HIDE DEF at, ys
  <2>4. Follows(rels \o Rebased(f, at, s.index), s.tab.syms)
    BY <2>2, <2>3, MergeFollows DEF RelInv
  <2> QED BY <2>1, <2>4 DEF RelInv
<1> QED BY <1>1, <1>2

LEMMA LoadObjectFollows == LinkInv /\ RelInv /\ LoadObject => RelInv'
<1> SUFFICES ASSUME LinkInv, RelInv, LoadObject PROVE RelInv' OBVIOUS
<1> DEFINE f == Head(input)
<1>1. Adding /\ archive = NoArchive /\ input # <<>> /\ f.kind \in {"c", "o"}
  BY DEF LoadObject
<1>2. ObjectFile(f)
  <2> DEFINE nil == <<>>
  <2>1. IsSeq(nil) /\ \A k \in 1 .. Len(nil) : nil[k].file = f.id /\ nil[k].num = k
    BY DEF IsSeq
  <2> HIDE DEF nil
  <2> QED BY <1>1, <2>1, FilePlaced
<1>3. Merge(f) \/ Refuse(f) BY DEF LoadObject
<1> HIDE DEF f
<1> QED BY <1>1, <1>2, <1>3, LoadFollows

LEMMA LoadMemberFollows == LinkInv /\ RelInv /\ LoadMember => RelInv'
<1> SUFFICES ASSUME LinkInv, RelInv, LoadMember PROVE RelInv' OBVIOUS
<1>1. archive # NoArchive BY LoadMemberIs
<1>2. PICK i, m, f : MemberLoaded(i, m, f) BY LoadMemberIs
<1>3. /\ i \in archive.i .. Len(ArIndex(archive.file)) /\ m = ArIndex(archive.file)[i].member
      /\ f = archive.file.members[m] /\ (Merge(f) \/ Refuse(f))
  BY <1>2 DEF MemberLoaded
<1>4. /\ Adding /\ ArchOK(archive)
      /\ Indexed(ArIndex(archive.file), Len(archive.file.members))
      /\ DOMAIN archive.file.members = 1 .. Len(archive.file.members)
  BY <1>1, OpenMembers
<1>5. i \in 1 .. Len(ArIndex(archive.file))
  <2>1. archive.i \in Nat \ {0} BY <1>4 DEF ArchOK
  <2>2. Len(ArIndex(archive.file)) \in Nat BY <1>4, SeqIsFcn DEF Indexed
  <2> QED BY <1>3, <2>1, <2>2
<1>6. m \in DOMAIN archive.file.members BY <1>3, <1>4, <1>5 DEF Indexed
<1>7. ObjectFile(f)
  <2>1. PICK c \in CommandLines : \E p \in Nat :
          /\ p \in 1 .. Len(c \o Runtime)
          /\ archive.file = (c \o Runtime)[p] /\ archive.file.kind = "a"
    BY <1>1, OpenMembers
  <2> DEFINE fs == c \o Runtime
  <2>2. WellFormed(fs) /\ DOMAIN fs = 1 .. Len(fs) BY FilesOK
  <2> HIDE DEF fs
  <2>3. PICK p \in Nat : p \in 1 .. Len(fs) /\ archive.file = fs[p] /\ archive.file.kind = "a"
    BY <2>1 DEF fs
  <2> QED BY <1>3, <1>6, <2>2, <2>3 DEF WellFormed, Objects, ObjectOf
<1> QED BY <1>3, <1>4, <1>7, LoadFollows

LEMMA CommonFollows == LinkInv /\ RelInv /\ ResolveCommon => RelInv'
<1> SUFFICES ASSUME LinkInv, RelInv, ResolveCommon PROVE RelInv' OBVIOUS
<1> DEFINE c == CommonPlaced(secs, tab)
           a == [ss |-> c.ss, t |-> c.t, errors |-> nb_errors]
<1>1. /\ phase = "runtime" /\ rels' = rels
      /\ tab' = LinkerSymsAdded(a)[Len(LinkerSymbols)].t
  BY DEF ResolveCommon
<1>2. Hashed(tab) BY <1>1 DEF LinkInv, TableInv
<1>3. a.t = c.t OBVIOUS
<1>4. Hashed(c.t) /\ StillThere(tab.syms, c.t.syms) BY <1>2, CommonHashed, CommonThere
<1> HIDE DEF a, c
<1>5. StillThere(a.t.syms, tab'.syms) BY <1>1, <1>3, <1>4, LinkerSymsThere
<1>6. StillThere(tab.syms, tab'.syms) BY <1>3, <1>4, <1>5, StillStill
<1> QED BY <1>1, <1>6, FollowsStill DEF RelInv

LEMMA GotStepFollows == LinkInv /\ RelInv /\ BuildGot => RelInv'
<1> SUFFICES ASSUME LinkInv, RelInv, BuildGot PROVE RelInv' OBVIOUS
<1> DEFINE gs == GotEntries(rels)[Len(rels)]
           n == Len(secs) + 1
           y == [name |-> "_GLOBAL_OFFSET_TABLE_", bind |-> "GLOBAL", vis |-> DEFAULT,
                 asm |-> FALSE, size |-> 4, sec |-> n, value |-> 0, org |-> "linker"]
           qs == [k \in DOMAIN gs |->
                     [gs[k] EXCEPT !.sec = n, !.off = (2 + k) * PtrSize, !.kind = "abs"]]
<1>1. Hashed(tab)
  <2>1. phase = "got" BY DEF BuildGot
  <2> QED BY <2>1 DEF LinkInv, TableInv
<1>2. \/ tab' = tab /\ rels' = rels
      \/ tab' = SetElfSym(tab, y, Bss) /\ rels' = rels \o qs
  BY DEF BuildGot
<1>3. SymOK(y)
  <2> HIDE DEF n
  <2> QED BY SymbolsAssumption DEF SymOK, SymFields
<1>4. Follows(gs, tab.syms) BY GotFollows DEF RelInv
<1>5. Follows(qs, tab.syms)
  <2> HIDE DEF gs, n
  <2>1. Len(gs) \in Nat /\ DOMAIN gs = 1 .. Len(gs) BY <1>4, SeqIsFcn DEF Follows
  <2>2. qs = [k \in 1 .. Len(gs) |-> qs[k]] BY <2>1
  <2>3. ASSUME NEW k \in 1 .. Len(gs)
        PROVE  /\ DOMAIN qs[k] = DOMAIN gs[k] /\ qs[k].sym = gs[k].sym
               /\ qs[k].name = gs[k].name /\ qs[k].org = gs[k].org
    <3> DEFINE g == gs[k]
               q == qs[k]
               off == (2 + k) * PtrSize
               abs == "abs"
    <3>1. q = [g EXCEPT !.sec = n, !.off = off, !.kind = abs] BY <2>1
    <3>2. {"sym", "name", "org"} \subseteq DOMAIN g BY <1>4 DEF Follows, FollowsOne, RelFields
    <3> HIDE DEF g, q, off, abs
    <3>3. DOMAIN q = DOMAIN g /\ q.sym = g.sym /\ q.name = g.name /\ q.org = g.org
      BY <3>1, <3>2
    <3> QED BY <3>3 DEF g, q
  <2> HIDE DEF qs
  <2> QED BY <1>4, <2>2, <2>3, FollowsMoved
<1> HIDE DEF y, qs
<1>6. CASE tab' = tab /\ rels' = rels BY <1>6 DEF RelInv
<1>7. CASE tab' = SetElfSym(tab, y, Bss) /\ rels' = rels \o qs
  <2>1. StillThere(tab.syms, tab'.syms) BY <1>1, <1>3, <1>7, SetThere
  <2>2. Follows(rels \o qs, tab.syms) BY <1>5, FollowsBoth DEF RelInv
  <2>3. Follows(rels', tab.syms) BY <1>7, <2>2
  <2> QED BY <2>1, <2>3, FollowsStill DEF RelInv
<1> QED BY <1>2, <1>6, <1>7

LEMMA RelocFollows == LinkInv /\ RelInv /\ Reloc => RelInv'
<1> SUFFICES ASSUME LinkInv, RelInv, Reloc PROVE RelInv' OBVIOUS
<1> DEFINE ys == [i \in DOMAIN tab.syms |-> Relocated(tab.syms[i])]
           qs == [k \in DOMAIN rels |-> [rels[k] EXCEPT !.value = RelocValue(rels[k], ys)]]
<1>1. phase = "reloc" /\ tab' = [tab EXCEPT !.syms = ys] /\ (rels' = rels \/ rels' = qs)
  BY DEF Reloc
<1>2. Hashed(tab) BY <1>1 DEF LinkInv, TableInv
<1>3. ys = [i \in DOMAIN tab.syms |-> ys[i]] OBVIOUS
<1>4. \A i \in DOMAIN tab.syms :
        \/ ys[i] = tab.syms[i]
        \/ \E v, w : ys[i] = [tab.syms[i] EXCEPT !.sec = v, !.value = w]
        \/ \E w : ys[i] = [tab.syms[i] EXCEPT !.value = w]
  BY DEF Relocated
<1> HIDE DEF ys
<1>5. StillThere(tab.syms, ys) BY <1>2, <1>3, <1>4, RevaluedThere
<1>6. tab'.syms = ys
  <2>1. "syms" \in DOMAIN tab BY <1>2, HashedTable DEF Table
  <2> QED BY <1>1, <2>1
<1>7. Follows(qs, tab.syms)
  <2>1. Len(rels) \in Nat /\ DOMAIN rels = 1 .. Len(rels) BY SeqIsFcn DEF Follows, RelInv
  <2>2. qs = [k \in 1 .. Len(rels) |-> qs[k]] BY <2>1
  <2>3. ASSUME NEW k \in 1 .. Len(rels)
        PROVE  /\ DOMAIN qs[k] = DOMAIN rels[k] /\ qs[k].sym = rels[k].sym
               /\ qs[k].name = rels[k].name /\ qs[k].org = rels[k].org
    <3> DEFINE g == rels[k]
               q == qs[k]
               v == RelocValue(g, ys)
    <3>1. q = [g EXCEPT !.value = v] BY <2>1
    <3>2. {"sym", "name", "org"} \subseteq DOMAIN g
      BY DEF Follows, FollowsOne, RelFields, RelInv
    <3> HIDE DEF g, q, v
    <3>3. DOMAIN q = DOMAIN g /\ q.sym = g.sym /\ q.name = g.name /\ q.org = g.org
      BY <3>1, <3>2
    <3> QED BY <3>3 DEF g, q
  <2> HIDE DEF qs
  <2> QED BY <2>2, <2>3, FollowsMoved DEF RelInv
<1> HIDE DEF qs
<1>8. Follows(rels', tab.syms) BY <1>1, <1>7 DEF RelInv
<1>9. Follows(rels', ys) BY <1>5, <1>8, FollowsStill
<1> QED BY <1>6, <1>9 DEF RelInv

\* The final sort: symbol and relocations move together.
LEMMA WriteFollows == LinkInv /\ RelInv /\ Write => RelInv'
<1> SUFFICES ASSUME LinkInv, RelInv, Write PROVE RelInv' OBVIOUS
<1> DEFINE ys == tab.syms
           a == SortedSyms(ys)
           zs == [i \in DOMAIN a.new |->
                     [a.new[i] EXCEPT !.sec = IF @ > 0 THEN Backmap(@) ELSE @]]
           qs == [k \in DOMAIN rels |-> [rels[k] EXCEPT !.sym = a.to[@], !.sec = Backmap(@)]]
<1>1. phase = "write" /\ tab' = [tab EXCEPT !.syms = zs] /\ rels' = qs BY DEF Write
<1>2. Hashed(tab) BY <1>1 DEF LinkInv, TableInv
<1>3. tab'.syms = zs
  <2>1. "syms" \in DOMAIN tab BY <1>2, HashedTable DEF Table
  <2> HIDE DEF zs
  <2> QED BY <1>1, <2>1
<1>4. IsSeq(ys) /\ \A i \in 1 .. Len(ys) : SymOK(ys[i]) BY <1>2 DEF Hashed, TableShape
<1>5. Going(a, ys, 1 .. Len(ys)) BY <1>4, SortedGoing
<1> HIDE DEF a
<1>6. Len(a.new) \in Nat /\ DOMAIN a.new = 1 .. Len(a.new) BY <1>5, SeqIsFcn DEF Going
<1>7. Len(zs) = Len(a.new)
  <2> DEFINE n == Len(a.new)
  <2>1. zs = [i \in 1 .. n |-> zs[i]] /\ n \in Nat BY <1>6
  <2> HIDE DEF zs, n
  <2>2. Len(zs) = n BY <2>1, FcnIsSeq
  <2> QED BY <2>2 DEF n
<1>8. ASSUME NEW i \in 1 .. Len(ys)
      PROVE  /\ a.to[i] \in 1 .. Len(zs) /\ zs[a.to[i]].name = ys[i].name
             /\ IsLocal(zs[a.to[i]]) => IsLocal(ys[i]) /\ zs[a.to[i]].org = ys[i].org
  <2> DEFINE j == a.to[i]
             y == ys[i]
             z == zs[j]
             v == IF y.sec > 0 THEN Backmap(y.sec) ELSE y.sec
  <2>1. j \in 1 .. Len(a.new) /\ a.new[j] = y BY <1>5 DEF Going
  <2>2. z = [y EXCEPT !.sec = v] BY <1>6, <2>1
  <2>3. "name" \in DOMAIN y /\ "bind" \in DOMAIN y /\ "org" \in DOMAIN y
    BY <1>4 DEF SymOK, SymFields
  <2>4. z.name = y.name /\ z.bind = y.bind /\ z.org = y.org
    <3> HIDE DEF z, y, v
    <3> QED BY <2>2, <2>3
  <2> HIDE DEF z, y, j
  <2>5. j \in 1 .. Len(zs) /\ z.name = y.name /\ (IsLocal(z) => IsLocal(y) /\ z.org = y.org)
    BY <1>7, <2>1, <2>4 DEF IsLocal
  <2> QED BY <2>5 DEF z, y, j
<1>9. Len(rels) \in Nat /\ DOMAIN rels = 1 .. Len(rels) BY SeqIsFcn DEF Follows, RelInv
<1>10. IsSeq(qs) /\ Len(qs) = Len(rels)
  <2> DEFINE n == Len(rels)
  <2>1. qs = [k \in 1 .. n |-> qs[k]] /\ n \in Nat BY <1>9
  <2> HIDE DEF qs, n
  <2>2. IsSeq(qs) /\ Len(qs) = n BY <2>1, FcnIsSeq
  <2> QED BY <2>2 DEF n
<1>11. ASSUME NEW k \in 1 .. Len(rels) PROVE FollowsOne(qs[k], zs)
  <2> DEFINE r == rels[k]
             q == qs[k]
             i == r.sym
             j == a.to[i]
             b == Backmap(r.sec)
  <2>1. q = [r EXCEPT !.sym = j, !.sec = b] BY <1>9
  <2>2. RelFields \subseteq DOMAIN r /\ IsThere(ys, i, r.name, r.org)
    BY DEF Follows, FollowsOne, RelInv
  <2> HIDE DEF r, q, j, b, zs
  <2>3. DOMAIN q = DOMAIN r /\ q.sym = j /\ q.name = r.name /\ q.org = r.org
    BY <2>1, <2>2 DEF RelFields
  <2>4. IsThere(zs, j, r.name, r.org) BY <1>8, <2>2 DEF IsThere, j
  <2>5. FollowsOne(q, zs) BY <2>2, <2>3, <2>4 DEF FollowsOne
  <2> QED BY <2>5 DEF q
<1> HIDE DEF qs, zs
<1>12. Follows(qs, zs) BY <1>10, <1>11 DEF Follows
<1> QED BY <1>1, <1>3, <1>12 DEF RelInv

LEMMA StepFollows == LinkInv /\ RelInv /\ [Next]_vars => RelInv'
<1> SUFFICES ASSUME LinkInv, RelInv, [Next]_vars PROVE RelInv' OBVIOUS
<1>1. ASSUME OpenArchive \/ EndOfIndex \/ StartOutput \/ Layout \/ UNCHANGED vars PROVE RelInv'
  <2>1. rels' = rels /\ tab' = tab
    BY <1>1 DEF OpenArchive, EndOfIndex, StartOutput, Layout, vars, symVars
  <2> QED BY <2>1 DEF RelInv
<1> QED BY <1>1, CompileFollows, LoadObjectFollows, LoadMemberFollows, CommonFollows,
           GotStepFollows, RelocFollows, WriteFollows DEF Next, Stopped

-----------------------------------------------------------------------------
(* Theorems.                                                                   *)

\* The table is well formed in every phase that looks names up, the symbols
\* of the files are settled, and every object of the command line and of the
\* libraries was placed once at most, and in its turn.
THEOREM LinkInvariant == Spec => []LinkInv
<1>1. Init => LinkInv BY InitInv
<1>2. LinkInv /\ [Next]_vars => LinkInv' BY StepInv
<1> QED BY <1>1, <1>2, PTL DEF Spec

\* Whatever elf_hash() is, find_elf_sym() finds the one symbol of a name that
\* is not local, through growing chains, rehashing and C files that are
\* compiled without the hash table, until the sort of the symbols.
THEOREM LookupsExact == Spec => []HashFindsAll
<1>1. LinkInv => HashFindsAll BY HashedExact DEF LinkInv, TableInv, HashFindsAll
<1> QED BY <1>1, LinkInvariant, PTL

\* A name has the strongest of its definitions and of those the first, for
\* every set of files and every order of files and members, as long as none
\* defines a symbol that is hidden or absolute.
THEOREM StrongestDefined == Ordinary => (Spec => []StrongestDefines)
<1> SUFFICES ASSUME Ordinary PROVE Spec => []StrongestDefines OBVIOUS
<1>1. LinkInv => StrongestDefines
  <2> SUFFICES ASSUME LinkInv PROVE StrongestDefines OBVIOUS
  <2>1. HashFindsAll BY HashedExact DEF LinkInv, TableInv, HashFindsAll
  <2>2. BestDefinitionWins
    <3>1. CASE Adding
      <4>1. Hashed(tab) /\ IsSeq(seen) /\ Settled(tab.syms, seen)
        BY <3>1 DEF LinkInv, TableInv, ClaimsInv, Adding
      <4> QED BY <4>1, SettledBest
    <3>2. CASE ~Adding BY <3>2 DEF BestDefinitionWins, Adding
    <3> QED BY <3>1, <3>2
  <2> QED BY <2>1, <2>2 DEF StrongestDefines
<1> QED BY <1>1, LinkInvariant, PTL

\* What tcc_load_alacarte() leaves out of an archive nothing asks for, and it
\* merges no member twice, however the members and their index are ordered.
THEOREM ArchivesDone == Spec => ArchivesExhausted
<1>1. LinkInv /\ [Next]_vars => [ArchiveStep]_vars
  <2> SUFFICES ASSUME LinkInv, Next, archive # NoArchive, archive' = NoArchive,
                      nb_errors' = nb_errors
               PROVE  /\ \A i \in 1 .. Len(ArIndex(archive.file)) :
                            LET e == ArIndex(archive.file)[i]
                                s == FindElfSym(tab, e.name)
                            IN  \/ e.member \in archive.loaded
                                \/ s = 0
                                \/ Rank(tab.syms[s]) > 2
                      /\ \A j, k \in DOMAIN placed :
                            /\ placed[j].file = placed[k].file /\ placed[j].num = placed[k].num
                            => j = k
    BY DEF ArchiveStep
  <2>1. Adding /\ ArchOK(archive) BY OpenMembers
  <2>2. EndOfIndex
    <3>1. ~LoadMember BY LoadMemberInv
    <3>2. ~(UNCHANGED vars) BY DEF vars, inVars
    <3> QED BY <2>1, <3>1, <3>2 DEF Next, Stopped, CompileFile, LoadObject, OpenArchive, StartOutput,
               ResolveCommon, BuildGot, Layout, Reloc, Write, Adding
  <2>3. archive.bound = 0
    <3>1. archive.bound \in Nat BY <2>1 DEF ArchOK
    <3>2. ~(archive.bound > 0)
      <4> SUFFICES ASSUME archive.bound > 0 PROVE FALSE OBVIOUS
      <4>1. archive' = [archive EXCEPT !.i = 1, !.bound = 0] BY <2>2 DEF EndOfIndex
      <4> DEFINE j == 1
                 z == 0
      <4> HIDE DEF j, z
      <4>2. archive' = [file |-> archive.file, i |-> j, bound |-> z, loaded |-> archive.loaded]
        BY <2>1, <4>1, ArchiveAgain DEF j, z
      <4>3. archive'.i = 1 BY <4>2 DEF j
      <4> QED BY <4>3 DEF NoArchive
    <3> QED BY <3>1, <3>2
  <2>4. archive.i = 1 BY <2>1, <2>3 DEF ArchOK
  <2>5. ASSUME NEW i \in 1 .. Len(ArIndex(archive.file))
        PROVE  LET e == ArIndex(archive.file)[i]
                   s == FindElfSym(tab, e.name)
               IN  \/ e.member \in archive.loaded
                   \/ s = 0
                   \/ Rank(tab.syms[s]) > 2
    <3>1. ~Wanted(archive, i) BY <2>2, <2>4 DEF EndOfIndex
    <3> DEFINE e == ArIndex(archive.file)[i]
               s == FindElfSym(tab, e.name)
    <3>2. \/ e.member \in archive.loaded \/ s = 0
          \/ tab.syms[s].sec # UNDEF /\ tab.syms[s].bind # "WEAK"
      BY <3>1 DEF Wanted
    <3>3. \A y : y.sec # UNDEF /\ y.bind # "WEAK" => Rank(y) > 2 BY DEF Rank
    <3> HIDE DEF e, s
    <3>4. e.member \in archive.loaded \/ s = 0 \/ Rank(tab.syms[s]) > 2 BY <3>2, <3>3
    <3> QED BY <3>4 DEF e, s
  <2>6. Once(placed) /\ DOMAIN placed = 1 .. Len(placed)
    <3>1. \E c \in CommandLines : \E p \in Nat : At(c, p) BY <2>1 DEF LinkInv, PlacesInv
    <3>2. IsSeq(placed) /\ Once(placed) BY <3>1 DEF At, Pieces
    <3> QED BY <3>2, SeqIsFcn
  <2>7. \A j, k \in DOMAIN placed :
          placed[j].file = placed[k].file /\ placed[j].num = placed[k].num => j = k
    BY <2>6 DEF Once
  <2> QED BY <2>5, <2>7
<1> QED BY <1>1, LinkInvariant, PTL DEF Spec, ArchivesExhausted

\* A relocation names the symbol that it was written for, through the merge of
\* its file, the symbols and the GOT that the linker adds, and the sort of
\* sort_syms(): one that the files share by its name, a local one by its file.
THEOREM RelocationsFollow == Spec => []RelocsFollow
<1>1. Init => LinkInv /\ RelInv BY InitInv, InitFollows
<1>2. LinkInv /\ RelInv /\ [Next]_vars => LinkInv' /\ RelInv' BY StepInv, StepFollows
<1>3. RelInv => RelocsFollow
  <2> SUFFICES ASSUME RelInv PROVE RelocsFollow OBVIOUS
  <2>1. DOMAIN rels = 1 .. Len(rels) BY SeqIsFcn DEF RelInv, Follows
  <2>2. \A k \in 1 .. Len(rels) : IsThere(tab.syms, rels[k].sym, rels[k].name, rels[k].org)
    BY DEF RelInv, Follows, FollowsOne
  <2> QED BY <2>1, <2>2 DEF RelocsFollow, IsThere
<1> QED BY <1>1, <1>2, <1>3, PTL DEF Spec
=============================================================================
