--------------------------- MODULE RingArithmetic ---------------------------
(* Arithmetic of two counters that run on modulo M and index a ring modulo its *)
(* size N, for the proofs about the rings of Pipe and Host: such a ring is a   *)
(* queue, also across the wrap of the counters, if M is a larger multiple of N *)
(* (in the code M is 2^32 and N a power of two).                               *)
EXTENDS Integers, SequenceTheorems, TLAPS

\* How many bytes there are between the counters, and which, oldest first.
Filled(r, w, M) == (w + M - r) % M
Queued(d, r, w, N, M) == [i \in 1 .. Filled(r, w, M) |-> d[(r + i - 1) % N]]

\* The ring with byte b at the place of the write counter.
Stored(d, w, N, b) == [d EXCEPT ![w % N] = b]

\* A ring d of N bytes of B, and its counters.
IsRing(N, M, B, d, r, w) ==
    /\ N \in Nat \ {0} /\ M \in Nat \ {0} /\ N < M /\ M % N = 0
    /\ d \in [0 .. N - 1 -> B]
    /\ r \in 0 .. M - 1 /\ w \in 0 .. M - 1

-----------------------------------------------------------------------------
(* Remainders.                                                                 *)

\* Division leaves a quotient and a remainder below the divisor.
LEMMA Divided ==
    ASSUME NEW a \in Int, NEW b \in Nat \ {0}
    PROVE  \E k \in Int, r \in 0 .. b - 1 : a % b = r /\ a = b * k + r
<1> DEFINE k == a \div b
           r == a % b
<1>1. k \in Int /\ r \in 0 .. b - 1 OBVIOUS
<1>2. r = a - b * k OBVIOUS
<1> HIDE DEF k, r
<1>3. a = b * k + r BY <1>1, <1>2
<1> QED BY <1>1, <1>3 DEF r

\* The remainder is the only number below the divisor with such a quotient.
LEMMA Remainder ==
    ASSUME NEW b \in Nat \ {0}, NEW r \in 0 .. b - 1, NEW k \in Int
    PROVE  (b * k + r) % b = r
OBVIOUS

\* A number below the divisor is its own remainder.
LEMMA SmallRemainder == ASSUME NEW b \in Nat \ {0}, NEW a \in 0 .. b - 1 PROVE a % b = a
OBVIOUS

\* A multiple of the divisor does not change the remainder.
LEMMA AddMultiple ==
    ASSUME NEW a \in Int, NEW b \in Nat \ {0}, NEW k \in Int
    PROVE  (a + b * k) % b = a % b
<1>1. PICK q \in Int, r \in 0 .. b - 1 : a % b = r /\ a = b * q + r BY Divided
<1>2. r \in 0 .. b - 1 OBVIOUS
<1>3. a = b * q + r BY <1>1
<1>4. a + b * k = b * (q + k) + r
  <2>1. b * (q + k) = b * q + b * k OBVIOUS
  <2>2. b * q \in Int /\ b * k \in Int OBVIOUS
  <2> QED BY <1>2, <1>3, <2>1, <2>2
<1>5. (b * (q + k) + r) % b = r BY <1>2, Remainder
<1> QED BY <1>1, <1>4, <1>5

\* A whole number of turns more: the same place.
LEMMA Multiple ==
    ASSUME NEW a \in Int, NEW b \in Nat \ {0}, NEW M \in Nat, M % b = 0
    PROVE  (a + M) % b = a % b
<1>1. PICK q \in Int : M = b * q BY Divided
<1>2. (a + b * q) % b = a % b BY AddMultiple
<1> QED BY <1>1, <1>2

\* Less than one turn further round, one is somewhere else.
LEMMA LessThanATurn ==
    ASSUME NEW a \in Int, NEW b \in Nat \ {0}, NEW d \in 1 .. b - 1
    PROVE  (a + d) % b # a % b
<1>1. PICK q \in Int, r \in 0 .. b - 1 : a % b = r /\ a = b * q + r BY Divided
<1>2. r \in 0 .. b - 1 OBVIOUS
<1>3. a = b * q + r BY <1>1
<1>4. CASE r + d < b
  <2>1. a + d = b * q + (r + d) BY <1>2, <1>3
  <2>2. (b * q + (r + d)) % b = r + d
    <3>1. r + d \in 0 .. b - 1 BY <1>2, <1>4
    <3> QED BY <3>1, Remainder
  <2> QED BY <1>1, <1>2, <2>1, <2>2
<1>5. CASE ~(r + d < b)
  <2>1. a + d = b * (q + 1) + (r + d - b)
    <3>1. b * (q + 1) = b * q + b OBVIOUS
    <3> QED BY <1>2, <1>3, <3>1
  <2>2. (b * (q + 1) + (r + d - b)) % b = r + d - b
    <3>1. r + d - b \in 0 .. b - 1 BY <1>2, <1>5
    <3>2. q + 1 \in Int OBVIOUS
    <3> QED BY <3>1, <3>2, Remainder
  <2> QED BY <1>1, <1>2, <2>1, <2>2
<1> QED BY <1>4, <1>5

\* Reducing by a multiple of the divisor first does not change the remainder.
LEMMA ReducedBy ==
    ASSUME NEW b \in Nat \ {0}, NEW M \in Nat \ {0}, NEW q \in Int, M = b * q, NEW a \in Int
    PROVE  (a % M) % b = a % b
<1>1. PICK k \in Int, r \in 0 .. M - 1 : a % M = r /\ a = M * k + r BY Divided
<1>2. q * k \in Int /\ b * (q * k) = (b * q) * k OBVIOUS
<1>3. a = r + b * (q * k) BY <1>1, <1>2
<1>4. (r + b * (q * k)) % b = r % b
  <2> DEFINE m == q * k
  <2>1. m \in Int /\ r \in Int BY <1>2
  <2> HIDE DEF m
  <2>2. (r + b * m) % b = r % b BY <2>1, AddMultiple
  <2> QED BY <2>2 DEF m
<1> QED BY <1>1, <1>3, <1>4

\* So if the divisor divides it.
LEMMA Reduced ==
    ASSUME NEW b \in Nat \ {0}, NEW M \in Nat \ {0}, M % b = 0, NEW a \in Int
    PROVE  (a % M) % b = a % b
<1>1. PICK q \in Int : M = b * q BY Divided
<1> QED BY <1>1, ReducedBy

-----------------------------------------------------------------------------
(* The counters.                                                               *)

\* The unsigned difference, without the remainder.
LEMMA FilledCases ==
    ASSUME NEW M \in Nat \ {0}, NEW r \in 0 .. M - 1, NEW w \in 0 .. M - 1
    PROVE  Filled(r, w, M) = IF r <= w THEN w - r ELSE w + M - r
<1>1. CASE r <= w
  <2>1. w - r \in 0 .. M - 1 BY <1>1
  <2>2. (M * 1 + (w - r)) % M = w - r BY <2>1, Remainder
  <2>3. w + M - r = M * 1 + (w - r) OBVIOUS
  <2> QED BY <1>1, <2>2, <2>3 DEF Filled
<1>2. CASE ~(r <= w)
  <2>1. w + M - r \in 0 .. M - 1 BY <1>2
  <2> QED BY <1>2, <2>1, SmallRemainder DEF Filled
<1> QED BY <1>1, <1>2

\* x++ on a counter.
LEMMA Incremented ==
    ASSUME NEW M \in Nat \ {0}, NEW x \in 0 .. M - 1
    PROVE  (x + 1) % M = IF x = M - 1 THEN 0 ELSE x + 1
<1>1. CASE x = M - 1
  <2>1. (M * 1 + 0) % M = 0 BY Remainder
  <2>2. x + 1 = M * 1 + 0 BY <1>1
  <2> QED BY <1>1, <2>1, <2>2
<1>2. CASE x # M - 1
  <2>1. x + 1 \in 0 .. M - 1 BY <1>2
  <2> QED BY <1>2, <2>1, SmallRemainder
<1> QED BY <1>1, <1>2

\* A byte put in or taken out counts as one.
LEMMA FilledSteps ==
    ASSUME NEW M \in Nat \ {0}, NEW r \in 0 .. M - 1, NEW w \in 0 .. M - 1
    PROVE  /\ Filled(r, w, M) \in 0 .. M - 1 /\ Filled(r, w, M) \in Nat
           /\ Filled(r, w, M) = 0 <=> r = w
           /\ (r + 1) % M \in 0 .. M - 1 /\ (w + 1) % M \in 0 .. M - 1
           /\ Filled(r, w, M) < M - 1 => Filled(r, (w + 1) % M, M) = Filled(r, w, M) + 1
           /\ Filled(r, w, M) # 0 => Filled((r + 1) % M, w, M) = Filled(r, w, M) - 1
<1>1. /\ (r + 1) % M = IF r = M - 1 THEN 0 ELSE r + 1
      /\ (w + 1) % M = IF w = M - 1 THEN 0 ELSE w + 1
  BY Incremented
<1> DEFINE r1 == (r + 1) % M
           w1 == (w + 1) % M
<1>2. r1 \in 0 .. M - 1 /\ w1 \in 0 .. M - 1 BY <1>1
<1> HIDE DEF r1, w1
<1>3. /\ Filled(r, w, M) = IF r <= w THEN w - r ELSE w + M - r
      /\ Filled(r1, w, M) = IF r1 <= w THEN w - r1 ELSE w + M - r1
      /\ Filled(r, w1, M) = IF r <= w1 THEN w1 - r ELSE w1 + M - r
  BY <1>2, FilledCases
<1>4. r1 = (IF r = M - 1 THEN 0 ELSE r + 1) /\ w1 = (IF w = M - 1 THEN 0 ELSE w + 1)
  BY <1>1 DEF r1, w1
<1>5. /\ Filled(r, w, M) \in 0 .. M - 1 /\ Filled(r, w, M) \in Nat
      /\ Filled(r, w, M) = 0 <=> r = w
      /\ Filled(r, w, M) < M - 1 => Filled(r, w1, M) = Filled(r, w, M) + 1
      /\ Filled(r, w, M) # 0 => Filled(r1, w, M) = Filled(r, w, M) - 1
  BY <1>3, <1>4
<1> QED BY <1>2, <1>5 DEF r1, w1

\* The write counter points at the first place behind the bytes in the ring,
\* and that is none of theirs while the ring is not full.
LEMMA WritePlace ==
    ASSUME NEW N \in Nat \ {0}, NEW M \in Nat \ {0}, N < M, M % N = 0,
           NEW r \in 0 .. M - 1, NEW w \in 0 .. M - 1
    PROVE  /\ w % N \in 0 .. N - 1
           /\ w % N = (r + Filled(r, w, M)) % N
           /\ Filled(r, w, M) < N =>
                \A i \in 1 .. Filled(r, w, M) : (r + i - 1) % N # w % N
<1>1. Filled(r, w, M) = IF r <= w THEN w - r ELSE w + M - r BY FilledCases
<1> DEFINE c == Filled(r, w, M)
<1>2. c \in Nat BY <1>1
<1>3. w % N = (r + c) % N
  <2>1. CASE r <= w BY <1>1, <2>1
  <2>2. CASE ~(r <= w)
    <3>1. r + c = w + M BY <1>1, <2>2
    <3>2. w \in Int /\ M \in Nat OBVIOUS
    <3>3. (w + M) % N = w % N BY <3>2, Multiple
    <3> QED BY <3>1, <3>3
  <2> QED BY <2>1, <2>2
<1>4. w % N \in 0 .. N - 1 OBVIOUS
<1> HIDE DEF c
<1>5. ASSUME c < N, NEW i \in 1 .. c PROVE (r + i - 1) % N # w % N
  <2> DEFINE a == r + i - 1
             d == c - i + 1
  <2>1. a \in Int /\ d \in 1 .. N - 1 BY <1>2, <1>5
  <2>2. a + d = r + c BY <1>2
  <2> HIDE DEF a, d
  <2>3. (a + d) % N # a % N BY <2>1, LessThanATurn
  <2> QED BY <1>3, <2>2, <2>3 DEF a
<1> QED BY <1>3, <1>4, <1>5 DEF c

\* The places of the bytes behind the oldest stay theirs.
LEMMA ReadPlace ==
    ASSUME NEW N \in Nat \ {0}, NEW M \in Nat \ {0}, N < M, M % N = 0,
           NEW r \in 0 .. M - 1, NEW i \in Nat \ {0}
    PROVE  (((r + 1) % M) + i - 1) % N = (r + i) % N
<1>1. (r + 1) % M = IF r = M - 1 THEN 0 ELSE r + 1 BY Incremented
<1>2. CASE r = M - 1
  <2>1. ((r + 1) % M) + i - 1 = i - 1 BY <1>1, <1>2
  <2>2. r + i = (i - 1) + M BY <1>2
  <2>3. i - 1 \in Int OBVIOUS
  <2>4. ((i - 1) + M) % N = (i - 1) % N BY <2>3, Multiple
  <2> QED BY <2>1, <2>2, <2>4
<1>3. CASE r # M - 1
  <2>1. ((r + 1) % M) + i - 1 = r + i BY <1>1, <1>3
  <2> QED BY <2>1
<1> QED BY <1>2, <1>3

-----------------------------------------------------------------------------
(* The ring is a queue.                                                        *)

\* The counters of a ring, one byte at a time.
LEMMA RingCounts ==
    ASSUME NEW N, NEW M, NEW B, NEW d, NEW r, NEW w, IsRing(N, M, B, d, r, w)
    PROVE  /\ Filled(r, w, M) \in Nat
           /\ Filled(r, w, M) = 0 <=> r = w
           /\ Filled(r, w, M) < N => Filled(r, (w + 1) % M, M) = Filled(r, w, M) + 1
           /\ Filled(r, w, M) # 0 => Filled((r + 1) % M, w, M) = Filled(r, w, M) - 1
<1>0. /\ N \in Nat \ {0} /\ M \in Nat \ {0} /\ N < M
      /\ r \in 0 .. M - 1 /\ w \in 0 .. M - 1
  BY DEF IsRing
<1>1. /\ Filled(r, w, M) \in Nat
      /\ Filled(r, w, M) = 0 <=> r = w
      /\ Filled(r, w, M) < M - 1 => Filled(r, (w + 1) % M, M) = Filled(r, w, M) + 1
      /\ Filled(r, w, M) # 0 => Filled((r + 1) % M, w, M) = Filled(r, w, M) - 1
  BY <1>0, FilledSteps
<1>2. Filled(r, w, M) < N => Filled(r, w, M) < M - 1 BY <1>0, <1>1
<1> QED BY <1>1, <1>2

\* The bytes in the ring are a sequence as long as the counters say.
LEMMA QueuedType ==
    ASSUME NEW N, NEW M, NEW B, NEW d, NEW r, NEW w, IsRing(N, M, B, d, r, w)
    PROVE  /\ Queued(d, r, w, N, M) \in Seq(B)
           /\ Len(Queued(d, r, w, N, M)) = Filled(r, w, M)
           /\ \A i \in 1 .. Filled(r, w, M) : Queued(d, r, w, N, M)[i] = d[(r + i - 1) % N]
           /\ Filled(r, w, M) \in Nat
<1>0. /\ N \in Nat \ {0} /\ M \in Nat \ {0} /\ N < M /\ M % N = 0
      /\ d \in [0 .. N - 1 -> B] /\ r \in 0 .. M - 1 /\ w \in 0 .. M - 1
  BY DEF IsRing
<1> DEFINE c == Filled(r, w, M)
<1>1. c \in Nat BY <1>0, FilledSteps
<1> HIDE DEF c
<1>2. \A i \in 1 .. c : (r + i - 1) % N \in 0 .. N - 1 BY <1>0, <1>1
<1>3. Queued(d, r, w, N, M) = [i \in 1 .. c |-> d[(r + i - 1) % N]] BY DEF Queued, c
<1>4. Queued(d, r, w, N, M) \in [1 .. c -> B] BY <1>0, <1>2, <1>3
<1>5. Queued(d, r, w, N, M) \in Seq(B) /\ Len(Queued(d, r, w, N, M)) = c BY <1>1, <1>4
<1> QED BY <1>1, <1>3, <1>5 DEF c

\* A byte stored at the write counter of a ring with room goes to the end.
LEMMA RingPush ==
    ASSUME NEW N, NEW M, NEW B, NEW d, NEW r, NEW w, IsRing(N, M, B, d, r, w),
           Filled(r, w, M) < N, NEW b \in B
    PROVE  Queued(Stored(d, w, N, b), r, (w + 1) % M, N, M) = Append(Queued(d, r, w, N, M), b)
<1>0. /\ N \in Nat \ {0} /\ M \in Nat \ {0} /\ N < M /\ M % N = 0
      /\ d \in [0 .. N - 1 -> B] /\ r \in 0 .. M - 1 /\ w \in 0 .. M - 1
  BY DEF IsRing
<1> DEFINE c == Filled(r, w, M)
           e == [d EXCEPT ![w % N] = b]
           w1 == (w + 1) % M
           old == Queued(d, r, w, N, M)
           new == Queued(e, r, w1, N, M)
<1>1. c \in Nat /\ c < N BY <1>0, FilledSteps
<1>2. w1 \in 0 .. M - 1 /\ Filled(r, w1, M) = c + 1
  <2>1. c < M - 1 BY <1>0, <1>1
  <2> QED BY <1>0, <2>1, FilledSteps
<1>3. /\ w % N \in 0 .. N - 1 /\ w % N = (r + c) % N
      /\ \A i \in 1 .. c : (r + i - 1) % N # w % N
  BY <1>0, <1>1, WritePlace
<1>4. e \in [0 .. N - 1 -> B] /\ e[w % N] = b
      /\ \A j \in 0 .. N - 1 : j # w % N => e[j] = d[j]
  BY <1>0, <1>3
<1>5. /\ old \in Seq(B)
      /\ Len(old) = c
      /\ \A i \in 1 .. c : old[i] = d[(r + i - 1) % N]
  <2>1. old \in Seq(B) BY QueuedType
  <2>2. Len(old) = c BY QueuedType
  <2>3. \A i \in 1 .. c : old[i] = d[(r + i - 1) % N] BY QueuedType
  <2> QED BY <2>1, <2>2, <2>3
<1>14. IsRing(N, M, B, e, r, w1) BY <1>0, <1>2, <1>4 DEF IsRing
<1> HIDE DEF e, w1
<1>6. /\ new \in Seq(B) /\ Len(new) = Filled(r, w1, M)
      /\ \A i \in 1 .. Filled(r, w1, M) : new[i] = e[(r + i - 1) % N]
  BY QueuedType, <1>14
<1> HIDE DEF c, old, new
<1>7. new \in Seq(B) /\ Len(new) = c + 1 /\ \A i \in 1 .. c + 1 : new[i] = e[(r + i - 1) % N]
  BY <1>2, <1>6
<1>8. /\ Append(old, b) \in Seq(B) /\ Len(Append(old, b)) = c + 1
      /\ \A i \in 1 .. c : Append(old, b)[i] = old[i]
      /\ Append(old, b)[c + 1] = b
  BY <1>5, AppendProperties
<1>9. \A i \in 1 .. c : new[i] = old[i]
  <2>1. \A i \in 1 .. c : (r + i - 1) % N \in 0 .. N - 1 BY <1>0, <1>1
  <2>2. \A i \in 1 .. c : i \in 1 .. c + 1 BY <1>1
  <2> QED BY <1>3, <1>4, <1>5, <1>7, <2>1, <2>2
<1>10. new[c + 1] = b
  <2>1. c + 1 \in 1 .. c + 1 /\ r + (c + 1) - 1 = r + c BY <1>0, <1>1
  <2> QED BY <1>3, <1>4, <1>7, <2>1
<1>11. \A i \in 1 .. Len(new) : new[i] = Append(old, b)[i]
  <2>1. \A i \in 1 .. c + 1 : i \in 1 .. c \/ i = c + 1 BY <1>1
  <2> QED BY <1>7, <1>8, <1>9, <1>10, <2>1
<1>12. new = Append(old, b) BY <1>7, <1>8, <1>11, SeqEqual
<1> QED BY <1>12 DEF new, old, e, w1, Stored

\* The byte at the read counter is the oldest, and the rest stays.
LEMMA RingPop ==
    ASSUME NEW N, NEW M, NEW B, NEW d, NEW r, NEW w, IsRing(N, M, B, d, r, w), r # w
    PROVE  /\ Queued(d, r, w, N, M) # <<>>
           /\ d[r % N] = Head(Queued(d, r, w, N, M))
           /\ Queued(d, (r + 1) % M, w, N, M) = Tail(Queued(d, r, w, N, M))
<1>0. /\ N \in Nat \ {0} /\ M \in Nat \ {0} /\ N < M /\ M % N = 0
      /\ d \in [0 .. N - 1 -> B] /\ r \in 0 .. M - 1 /\ w \in 0 .. M - 1
  BY DEF IsRing
<1> DEFINE c == Filled(r, w, M)
           r1 == (r + 1) % M
           old == Queued(d, r, w, N, M)
           new == Queued(d, r1, w, N, M)
<1>1. c \in Nat \ {0}
  <2>1. Filled(r, w, M) \in Nat BY <1>0, FilledSteps
  <2>2. Filled(r, w, M) = 0 <=> r = w BY <1>0, FilledSteps
  <2> QED BY <2>1, <2>2
<1>2. r1 \in 0 .. M - 1 /\ Filled(r1, w, M) = c - 1
  BY <1>0, <1>1, FilledSteps
<1>3. old \in Seq(B) /\ Len(old) = c /\ \A i \in 1 .. c : old[i] = d[(r + i - 1) % N]
  BY QueuedType
<1>4. \A i \in Nat \ {0} : (r1 + i - 1) % N = (r + i) % N
  <2> SUFFICES ASSUME NEW i \in Nat \ {0} PROVE (((r + 1) % M) + i - 1) % N = (r + i) % N OBVIOUS
  <2> QED BY <1>0, ReadPlace
<1>14. IsRing(N, M, B, d, r1, w) BY <1>0, <1>2 DEF IsRing
<1> HIDE DEF r1
<1>5. /\ new \in Seq(B) /\ Len(new) = Filled(r1, w, M)
      /\ \A i \in 1 .. Filled(r1, w, M) : new[i] = d[(r1 + i - 1) % N]
  BY QueuedType, <1>14
<1> HIDE DEF c, old, new
<1>6. new \in Seq(B) /\ Len(new) = c - 1 /\ \A i \in 1 .. c - 1 : new[i] = d[(r1 + i - 1) % N]
  BY <1>2, <1>5
<1>7. old # <<>> BY <1>1, <1>3, EmptySeq
<1>8. /\ Tail(old) \in Seq(B) /\ Len(Tail(old)) = c - 1
      /\ \A i \in 1 .. c - 1 : Tail(old)[i] = old[i + 1]
  BY <1>3, <1>7, HeadTailProperties
<1>9. \A i \in 1 .. c - 1 : new[i] = old[i + 1]
  <2>1. \A i \in 1 .. c - 1 : i + 1 \in 1 .. c /\ i \in Nat \ {0} /\ r + (i + 1) - 1 = r + i
    BY <1>0, <1>1
  <2> SUFFICES ASSUME NEW i \in 1 .. c - 1 PROVE new[i] = old[i + 1] OBVIOUS
  <2>2. new[i] = d[(r + i) % N] BY <1>4, <1>6, <2>1
  <2>3. old[i + 1] = d[(r + (i + 1) - 1) % N] BY <1>3, <2>1
  <2> QED BY <2>1, <2>2, <2>3
<1>10. \A i \in 1 .. Len(new) : new[i] = Tail(old)[i] BY <1>6, <1>8, <1>9
<1>11. new = Tail(old) BY <1>6, <1>8, <1>10, SeqEqual
<1>12. Head(old) = d[r % N]
  <2>1. 1 \in 1 .. c /\ r + 1 - 1 = r BY <1>0, <1>1
  <2>2. Head(old) = old[1] BY <1>3, <1>7
  <2> QED BY <1>3, <2>1, <2>2
<1> QED BY <1>7, <1>11, <1>12 DEF old, new, r1
=============================================================================
