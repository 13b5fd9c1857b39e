---------------------------- MODULE HashMapProofs ----------------------------
(***************************************************************************)
(* Proofs about the hash map in shared memory, for any number of nodes,    *)
(* buckets, chunks, keys and processes: what its linked lists have at any  *)
(* time, that nothing is lost, and that it acts as stacks of data.         *)
(***************************************************************************)
EXTENDS MCShmHashMap, FiniteSetsExt, FiniteSetTheorems, SequenceTheorems,
        WellFoundedInduction, NaturalsInduction, TLAPS

-----------------------------------------------------------------------------
(* Numbers                                                                 *)

\* The smallest of some natural numbers.
LEMMA LeastNat ==
    ASSUME NEW T, T \subseteq Nat, T # {}
    PROVE  Min(T) \in T /\ \A y \in T : Min(T) <= y
<1> DEFINE R == {ss \in Nat \X Nat : ss[1] < ss[2]}
<1>1. IsWellFoundedOn(R, Nat)
  BY NatLessThanWellFounded DEF OpToRel
<1>2. \A x, y \in Nat : y < x => <<y, x>> \in R
  OBVIOUS
<1> HIDE DEF R
<1>3. \E x \in T : \A y \in T : <<y, x>> \notin R
  BY <1>1, WFMin
<1>4. \A x, y \in T : <<y, x>> \notin R => x <= y
  BY <1>2
<1> QED BY <1>3, <1>4 DEF Min

\* Remainders are below m.
LEMMA ModRange ==
    ASSUME NEW x \in Nat, NEW m \in Nat \ {0}
    PROVE  x % m \in 0 .. m - 1
OBVIOUS

\* A set that has 0, and with every number the next one, has those up to n.
LEMMA CountUp ==
    ASSUME NEW n \in Nat, NEW T, 0 \in T, \A i \in 0 .. n - 1 : i \in T => i + 1 \in T
    PROVE  0 .. n \subseteq T
<1> DEFINE Bad == (0 .. n) \ T
<1>1. SUFFICES ASSUME Bad # {} PROVE FALSE
  OBVIOUS
<1> DEFINE k == Min(Bad)
<1>2. k \in Bad /\ \A y \in Bad : k <= y
  <2>1. Bad \subseteq Nat
    OBVIOUS
  <2> HIDE DEF Bad
  <2> QED BY <1>1, <2>1, LeastNat
<1> HIDE DEF k
<1>3. k # 0 /\ k - 1 \in 0 .. n - 1 /\ k - 1 \notin Bad /\ (k - 1) + 1 = k
  BY <1>2
<1>4. k - 1 \in T
  BY <1>3
<1> QED BY <1>2, <1>3, <1>4

-----------------------------------------------------------------------------
(* Lists                                                                   *)

\* the i-th element of a list, or that there is none
At(q, i) == IF i \in 1 .. Len(q) THEN q[i] ELSE INVALID

\* sequences of elements of S without repetitions
List(S) == {q \in Seq(S) : \A i, j \in 1 .. Len(q) : q[i] = q[j] => i = j}

\* elements of S, or none
Handlers(S) == S \cup {INVALID}

\* The handlers from h on are those of q.
Linked(next, h, q) == /\ h = At(q, 1)
                      /\ \A i \in 1 .. Len(q) : next[q[i]] = At(q, i + 1)

\* The walk of Follow, as the equation it is defined by.
IsWalk(at, next, h, n) ==
    at = [i \in 1 .. n |-> IF i = 1 THEN h
                           ELSE LET last == at[i - 1]
                                IN  IF last = INVALID THEN INVALID ELSE next[last]]

\* The walk along a list gives its elements, and then none.
LEMMA WalkList ==
    ASSUME NEW S, S \subseteq Nat \ {0}, NEW q \in Seq(S), NEW next, NEW h, Linked(next, h, q),
           NEW n \in Nat
    PROVE  LET at == CHOOSE f : IsWalk(f, next, h, n)
           IN  /\ IsWalk(at, next, h, n)
               /\ \A i \in 1 .. n : at[i] = At(q, i)
<1>1. Len(q) \in Nat /\ \A i \in 1 .. Len(q) : q[i] \in Nat /\ q[i] # INVALID
  BY LenProperties DEF INVALID
<1>2. \A i \in 1 .. n : i # 1 => LET last == At(q, i - 1)
                                 IN  At(q, i) = IF last = INVALID THEN INVALID ELSE next[last]
  <2> SUFFICES ASSUME NEW i \in 1 .. n, i # 1
               PROVE  At(q, i) = IF At(q, i - 1) = INVALID THEN INVALID ELSE next[At(q, i - 1)]
    OBVIOUS
  <2>1. CASE i - 1 \in 1 .. Len(q)
    <3>1. At(q, i - 1) = q[i - 1] /\ q[i - 1] # INVALID /\ next[q[i - 1]] = At(q, (i - 1) + 1)
      BY <1>1, <2>1 DEF At, Linked
    <3>2. (i - 1) + 1 = i
      OBVIOUS
    <3> QED BY <3>1, <3>2
  <2>2. CASE i - 1 \notin 1 .. Len(q)
    <3>1. i \notin 1 .. Len(q)
      BY <1>1, <2>2
    <3> QED BY <2>2, <3>1 DEF At
  <2> QED BY <2>1, <2>2
<1>3. \E f : IsWalk(f, next, h, n)
  <2> DEFINE f == [i \in 1 .. n |-> At(q, i)]
  <2>1. \A i \in 1 .. n : At(q, i) = IF i = 1 THEN h
                                     ELSE LET last == f[i - 1]
                                          IN  IF last = INVALID THEN INVALID ELSE next[last]
    <3>1. \A i \in 1 .. n : i # 1 => f[i - 1] = At(q, i - 1)
      OBVIOUS
    <3>2. h = At(q, 1)
      BY DEF Linked
    <3> HIDE DEF f
    <3> QED BY <1>2, <3>1, <3>2
  <2>2. IsWalk(f, next, h, n)
    BY <2>1 DEF IsWalk
  <2> QED BY <2>2
<1> DEFINE at == CHOOSE f : IsWalk(f, next, h, n)
<1>4. IsWalk(at, next, h, n)
  BY <1>3
<1> HIDE DEF at
<1> DEFINE T == {i \in 0 .. n : i = 0 \/ at[i] = At(q, i)}
<1>5. \A i \in 1 .. n : at[i] = IF i = 1 THEN h
                                ELSE LET last == at[i - 1]
                                     IN  IF last = INVALID THEN INVALID ELSE next[last]
  BY <1>4 DEF IsWalk
<1>6. 0 \in T
  OBVIOUS
<1>7. ASSUME NEW i \in 0 .. n - 1, i \in T PROVE i + 1 \in T
  <2>1. i + 1 \in 1 .. n /\ (i + 1) - 1 = i
    OBVIOUS
  <2>2. CASE i = 0
    BY <1>5, <2>1, <2>2 DEF Linked
  <2>3. CASE i # 0
    <3>1. at[i] = At(q, i)
      BY <1>7, <2>3
    <3>2. at[i + 1] = IF At(q, i) = INVALID THEN INVALID ELSE next[At(q, i)]
      BY <1>5, <2>1, <2>3, <3>1
    <3>3. i + 1 # 1
      BY <2>3
    <3> QED BY <1>2, <2>1, <3>2, <3>3
  <2> QED BY <2>2, <2>3
<1> HIDE DEF T
<1>8. 0 .. n \subseteq T
  BY <1>6, <1>7, CountUp
<1>9. \A i \in 1 .. n : at[i] = At(q, i)
  BY <1>8 DEF T
<1> QED BY <1>4, <1>9 DEF at

\* Follow gives a list, or as much of it as asked for.
LEMMA FollowList ==
    ASSUME NEW S, S \subseteq Nat \ {0}, NEW q \in Seq(S), NEW next, NEW h, Linked(next, h, q),
           NEW n \in Nat
    PROVE  /\ n <= Len(q) => Follow(next, h, n) = SubSeq(q, 1, n)
           /\ n >= Len(q) => Follow(next, h, n) = q
<1> DEFINE at == CHOOSE f : IsWalk(f, next, h, n)
           V == {i \in 1 .. n : at[i] # INVALID}
           k == IF n <= Len(q) THEN n ELSE Len(q)
<1>1. \A i \in 1 .. n : at[i] = At(q, i)
  BY WalkList
<1>2. Len(q) \in Nat /\ \A i \in 1 .. Len(q) : q[i] \in Nat /\ q[i] # INVALID
  BY LenProperties DEF INVALID
<1>3. Follow(next, h, n) = SubSeq(at, 1, Cardinality(V))
  BY DEF Follow, IsWalk
<1> HIDE DEF at
<1>4. V = 1 .. k
  BY <1>1, <1>2 DEF At
<1>5. Cardinality(V) = k
  <2>1. k \in Nat
    BY <1>2
  <2> HIDE DEF k, V
  <2>2. Cardinality(1 .. k) = IF 1 > k THEN 0 ELSE k - 1 + 1
    BY <2>1, FS_Interval
  <2> QED BY <1>4, <2>1, <2>2
<1>6. k \in Nat /\ \A i \in 1 .. k : at[i] = q[i] /\ q[i] \in S
  BY <1>1, <1>2 DEF At
<1>7. SubSeq(at, 1, k) = SubSeq(q, 1, k)
  <2>1. /\ SubSeq(at, 1, k) \in Seq(S) /\ SubSeq(q, 1, k) \in Seq(S)
        /\ Len(SubSeq(at, 1, k)) = IF 1 <= k THEN k - 1 + 1 ELSE 0
        /\ Len(SubSeq(q, 1, k)) = IF 1 <= k THEN k - 1 + 1 ELSE 0
        /\ \A i \in 1 .. k - 1 + 1 : SubSeq(at, 1, k)[i] = at[1 + i - 1]
        /\ \A i \in 1 .. k - 1 + 1 : SubSeq(q, 1, k)[i] = q[1 + i - 1]
    <3>1. \A i \in 1 .. k : at[i] \in S /\ q[i] \in S
      BY <1>6
    <3> HIDE DEF k
    <3> QED BY <1>6, <3>1, SubSeqProperties
  <2> HIDE DEF k
  <2>2. \A i \in 1 .. Len(SubSeq(at, 1, k)) : SubSeq(at, 1, k)[i] = SubSeq(q, 1, k)[i]
    <3> SUFFICES ASSUME NEW i \in 1 .. Len(SubSeq(at, 1, k))
                 PROVE  SubSeq(at, 1, k)[i] = SubSeq(q, 1, k)[i]
      OBVIOUS
    <3>1. i \in 1 .. k - 1 + 1 /\ i \in 1 .. k /\ 1 + i - 1 = i
      BY <1>6, <2>1
    <3> QED BY <1>6, <2>1, <3>1
  <2> QED BY <2>1, <2>2, SeqEqual
<1>8. SubSeq(q, 1, Len(q)) = q
  BY SubSeqFull
<1>9. n >= Len(q) => k = Len(q)
  BY <1>2
<1>10. n <= Len(q) => k = n
  BY <1>2
<1> QED BY <1>3, <1>5, <1>7, <1>8, <1>9, <1>10

\* What a sequence has.
LEMMA RangeOf ==
    ASSUME NEW S, NEW q \in Seq(S)
    PROVE  /\ Range(q) \subseteq S
           /\ \A i \in 1 .. Len(q) : q[i] \in Range(q) /\ q[i] \in S
           /\ \A x \in Range(q) : \E i \in 1 .. Len(q) : q[i] = x
           /\ Len(q) \in Nat
BY RangeEquality, LenProperties

\* The numbers up to n are n.
LEMMA UpToN ==
    ASSUME NEW n \in Nat
    PROVE  IsFiniteSet(1 .. n) /\ Cardinality(1 .. n) = n
<1>1. IsFiniteSet(1 .. n) /\ Cardinality(1 .. n) = IF 1 > n THEN 0 ELSE n - 1 + 1
  BY FS_Interval
<1> QED BY <1>1

\* A list has no more elements than there are.
LEMMA ListBound ==
    ASSUME NEW n \in Nat, NEW q \in List(1 .. n)
    PROVE  Len(q) \in 0 .. n
<1>1. q \in Seq(1 .. n) /\ \A i, j \in 1 .. Len(q) : q[i] = q[j] => i = j
  BY DEF List
<1>2. Len(q) \in Nat /\ DOMAIN q = 1 .. Len(q) /\ q \in [1 .. Len(q) -> 1 .. n]
  BY <1>1, LenProperties
<1>3. q \in Injection(1 .. Len(q), 1 .. n)
  BY <1>1, <1>2 DEF Injection, IsInjective
<1>4. IsFiniteSet(1 .. n) /\ Cardinality(1 .. n) = n
  BY UpToN
<1>5. Cardinality(1 .. Len(q)) = Len(q)
  BY <1>2, UpToN
<1>6. Cardinality(1 .. Len(q)) <= Cardinality(1 .. n)
  BY <1>3, <1>4, FS_Injection
<1> QED BY <1>2, <1>4, <1>5, <1>6

\* A list with one more element in front.
LEMMA PushList ==
    ASSUME NEW S, NEW q \in List(S), NEW x \in S, x \notin Range(q)
    PROVE  LET r == <<x>> \o q
           IN  /\ r \in List(S)
               /\ Len(r) = Len(q) + 1
               /\ r[1] = x
               /\ \A i \in 1 .. Len(q) : r[i + 1] = q[i]
               /\ \A i \in 2 .. Len(q) + 1 : r[i] = q[i - 1]
               /\ Range(r) = Range(q) \cup {x}
<1> DEFINE r == <<x>> \o q
<1>1. q \in Seq(S) /\ <<x>> \in Seq(S) /\ Len(<<x>>) = 1 /\ <<x>>[1] = x
  BY DEF List
<1>2. Len(q) \in Nat /\ \A i \in 1 .. Len(q) : q[i] \in Range(q)
  BY <1>1, RangeOf
<1>3. /\ r \in Seq(S) /\ Len(r) = 1 + Len(q)
      /\ \A i \in 1 .. 1 + Len(q) : r[i] = IF i <= 1 THEN <<x>>[i] ELSE q[i - 1]
  BY <1>1, ConcatProperties
<1>4. Range(<<x>>) = {x}
  BY DEF Range
<1>5. Range(r) = Range(q) \cup {x}
  <2>1. Range(r) = Range(<<x>>) \cup Range(q)
    BY <1>1, RangeConcatenation, ZenonT(60)
  <2> QED BY <1>4, <2>1
<1> HIDE DEF r
<1>6. r[1] = x /\ \A i \in 2 .. Len(q) + 1 : r[i] = q[i - 1]
  BY <1>1, <1>2, <1>3
<1>7. \A i \in 1 .. Len(q) : r[i + 1] = q[i]
  <2> SUFFICES ASSUME NEW i \in 1 .. Len(q) PROVE r[i + 1] = q[i]
    OBVIOUS
  <2>1. i + 1 \in 2 .. Len(q) + 1 /\ (i + 1) - 1 = i
    BY <1>2
  <2> QED BY <1>6, <2>1
<1>8. ASSUME NEW i \in 1 .. Len(r), NEW j \in 1 .. Len(r), r[i] = r[j] PROVE i = j
  <2>1. \A k \in 1 .. Len(r) : k = 1 \/ (k \in 2 .. Len(q) + 1 /\ k - 1 \in 1 .. Len(q))
    BY <1>2, <1>3
  <2>2. CASE i = 1 \/ j = 1
    BY <1>2, <1>6, <1>8, <2>1, <2>2
  <2>3. CASE i # 1 /\ j # 1
    <3>1. q[i - 1] = q[j - 1] /\ i - 1 \in 1 .. Len(q) /\ j - 1 \in 1 .. Len(q)
      BY <1>6, <1>8, <2>1, <2>3
    <3>2. i - 1 = j - 1
      BY <3>1 DEF List
    <3> QED BY <3>2, <1>3, <1>2
  <2> QED BY <2>2, <2>3
<1>9. r \in List(S)
  BY <1>3, <1>8 DEF List
<1> QED BY <1>2, <1>3, <1>5, <1>6, <1>7, <1>9 DEF r

\* A sequence without one of its elements.
LEMMA TakeSeq ==
    ASSUME NEW S, NEW q \in Seq(S), NEW j \in 1 .. Len(q)
    PROVE  LET r == RemoveAt(q, j)
           IN  /\ r \in Seq(S)
               /\ Len(r) = Len(q) - 1
               /\ \A i \in 1 .. Len(q) - 1 : r[i] = IF i < j THEN q[i] ELSE q[i + 1]
<1> DEFINE a == SubSeq(q, 1, j - 1)
           b == SubSeq(q, j + 1, Len(q))
           r == RemoveAt(q, j)
<1>1. q \in Seq(S) /\ Len(q) \in Nat /\ \A i \in 1 .. Len(q) : q[i] \in S
  BY RangeOf
<1>2. /\ a \in Seq(S) /\ Len(a) = IF 1 <= j - 1 THEN (j - 1) - 1 + 1 ELSE 0
      /\ \A i \in 1 .. (j - 1) - 1 + 1 : a[i] = q[1 + i - 1]
  <2>1. \A i \in 1 .. j - 1 : q[i] \in S
    BY <1>1
  <2> QED BY <2>1, SubSeqProperties
<1>3. /\ b \in Seq(S) /\ Len(b) = IF j + 1 <= Len(q) THEN Len(q) - (j + 1) + 1 ELSE 0
      /\ \A i \in 1 .. Len(q) - (j + 1) + 1 : b[i] = q[(j + 1) + i - 1]
  <2>1. \A i \in j + 1 .. Len(q) : q[i] \in S
    BY <1>1
  <2> QED BY <1>1, <2>1, SubSeqProperties
<1>4. r = a \o b
  BY DEF RemoveAt
<1> HIDE DEF a, b, r
<1>5. Len(a) = j - 1 /\ Len(b) = Len(q) - j
  BY <1>1, <1>2, <1>3
<1>6. /\ r \in Seq(S) /\ Len(r) = Len(q) - 1
      /\ \A i \in 1 .. Len(q) - 1 : r[i] = IF i <= j - 1 THEN a[i] ELSE b[i - (j - 1)]
  <2>1. (j - 1) + (Len(q) - j) = Len(q) - 1
    BY <1>1
  <2>2. /\ a \o b \in Seq(S) /\ Len(a \o b) = Len(a) + Len(b)
        /\ \A i \in 1 .. Len(a) + Len(b) :
             (a \o b)[i] = IF i <= Len(a) THEN a[i] ELSE b[i - Len(a)]
    BY <1>2, <1>3, ConcatProperties
  <2> QED BY <1>4, <1>5, <2>1, <2>2
<1>7. ASSUME NEW i \in 1 .. Len(q) - 1
      PROVE  r[i] = IF i < j THEN q[i] ELSE q[i + 1]
  <2>1. CASE i < j
    <3>1. i <= j - 1 /\ i \in 1 .. (j - 1) - 1 + 1 /\ 1 + i - 1 = i
      BY <1>1, <2>1
    <3> QED BY <1>2, <1>6, <2>1, <3>1
  <2>2. CASE ~(i < j)
    <3>1. /\ ~(i <= j - 1) /\ i - (j - 1) \in 1 .. Len(q) - (j + 1) + 1
          /\ (j + 1) + (i - (j - 1)) - 1 = i + 1
      BY <1>1, <2>2
    <3> QED BY <1>3, <1>6, <2>2, <3>1
  <2> QED BY <2>1, <2>2
<1> QED BY <1>6, <1>7 DEF r

\* A list without one of its elements.
LEMMA TakeList ==
    ASSUME NEW S, NEW q \in List(S), NEW j \in 1 .. Len(q)
    PROVE  LET r == RemoveAt(q, j)
           IN  /\ r \in List(S)
               /\ Len(r) = Len(q) - 1
               /\ \A i \in 1 .. Len(q) - 1 : r[i] = IF i < j THEN q[i] ELSE q[i + 1]
               /\ Range(r) = Range(q) \ {q[j]}
<1> DEFINE r == RemoveAt(q, j)
<1>1. q \in Seq(S) /\ Len(q) \in Nat /\ \A i \in 1 .. Len(q) : q[i] \in S
  BY RangeOf DEF List
<1>2. /\ r \in Seq(S) /\ Len(r) = Len(q) - 1
      /\ \A i \in 1 .. Len(q) - 1 : r[i] = IF i < j THEN q[i] ELSE q[i + 1]
  BY <1>1, TakeSeq
<1> HIDE DEF r
<1>6. r \in Seq(S) /\ Len(r) = Len(q) - 1
  BY <1>2
<1>7. ASSUME NEW i \in 1 .. Len(q) - 1
      PROVE  r[i] = IF i < j THEN q[i] ELSE q[i + 1]
  BY <1>2
<1>8. ASSUME NEW i \in 1 .. Len(r), NEW k \in 1 .. Len(r), r[i] = r[k] PROVE i = k
  <2> DEFINE up(x) == IF x < j THEN x ELSE x + 1
  <2>1. r[i] = q[up(i)] /\ r[k] = q[up(k)] /\ up(i) \in 1 .. Len(q) /\ up(k) \in 1 .. Len(q)
    BY <1>1, <1>6, <1>7
  <2>2. up(i) = up(k)
    BY <1>8, <2>1 DEF List
  <2> QED BY <1>1, <1>6, <2>2
<1>9. r \in List(S)
  BY <1>6, <1>8 DEF List
<1>10. Range(r) = Range(q) \ {q[j]}
  <2>1. ASSUME NEW x \in Range(r) PROVE x \in Range(q) /\ x # q[j]
    <3>1. PICK i \in 1 .. Len(r) : r[i] = x
      BY <1>6, RangeOf
    <3>2. \E k \in 1 .. Len(q) : k # j /\ q[k] = x
      <4>1. CASE i < j
        BY <1>1, <1>6, <1>7, <3>1, <4>1
      <4>2. CASE ~(i < j)
        <5>1. i + 1 \in 1 .. Len(q) /\ i + 1 # j /\ q[i + 1] = x
          BY <1>1, <1>6, <1>7, <3>1, <4>2
        <5> QED BY <5>1
      <4> QED BY <4>1, <4>2
    <3> QED BY <3>2, <1>1, RangeOf DEF List
  <2>2. ASSUME NEW x \in Range(q), x # q[j] PROVE x \in Range(r)
    <3>1. PICK k \in 1 .. Len(q) : q[k] = x
      BY <1>1, RangeOf
    <3>2. \E i \in 1 .. Len(r) : r[i] = x
      <4>1. CASE k < j
        <5>1. k \in 1 .. Len(q) - 1
          BY <1>1, <4>1
        <5> QED BY <1>6, <1>7, <3>1, <4>1, <5>1
      <4>2. CASE ~(k < j)
        <5>1. k - 1 \in 1 .. Len(q) - 1 /\ ~(k - 1 < j) /\ (k - 1) + 1 = k
          BY <1>1, <2>2, <3>1, <4>2
        <5> QED BY <1>6, <1>7, <3>1, <5>1
      <4> QED BY <4>1, <4>2
    <3> QED BY <1>6, <3>2, RangeOf
  <2> QED BY <2>1, <2>2
<1> QED BY <1>6, <1>7, <1>9, <1>10 DEF r

-----------------------------------------------------------------------------
(* Linked lists                                                            *)

\* next_[n] = v, unless n is no handler
Put(f, n, v) == IF n = INVALID THEN f ELSE [f EXCEPT ![n] = v]

\* The handlers from h on are those of q, and lead back.
DLinked(next, prev, h, q) == /\ Linked(next, h, q)
                             /\ \A i \in 1 .. Len(q) : prev[q[i]] = At(q, i - 1)

\* A list is linked as before when no element of it is changed.
LEMMA SameLinks ==
    ASSUME NEW S, NEW q \in Seq(S), NEW f, NEW g, NEW h, Linked(f, h, q),
           \A x \in Range(q) : g[x] = f[x]
    PROVE  Linked(g, h, q)
<1>1. \A i \in 1 .. Len(q) : q[i] \in Range(q)
  BY RangeOf
<1> QED BY <1>1 DEF Linked

\* The same for a list that is linked both ways.
LEMMA SameDLinks ==
    ASSUME NEW S, NEW q \in Seq(S), NEW f, NEW g, NEW f2, NEW g2, NEW h, DLinked(f, g, h, q),
           \A x \in Range(q) : f2[x] = f[x] /\ g2[x] = g[x]
    PROVE  DLinked(f2, g2, h, q)
<1>1. \A i \in 1 .. Len(q) : q[i] \in Range(q)
  BY RangeOf
<1> QED BY <1>1, SameLinks DEF DLinked

\* The neighbours of an element of a list.
LEMMA Neighbours ==
    ASSUME NEW S, INVALID \notin S, NEW q \in List(S), NEW f, NEW g, NEW h, DLinked(f, g, h, q),
           NEW j \in 1 .. Len(q)
    PROVE  /\ f[q[j]] = IF j < Len(q) THEN q[j + 1] ELSE INVALID
           /\ g[q[j]] = IF j > 1 THEN q[j - 1] ELSE INVALID
           /\ f[q[j]] \in Handlers(Range(q) \ {q[j]}) /\ g[q[j]] \in Handlers(Range(q) \ {q[j]})
           /\ h = q[1]
<1>1. q \in Seq(S) /\ Len(q) \in Nat /\ \A i \in 1 .. Len(q) : q[i] \in Range(q)
  BY RangeOf DEF List
<1>2. f[q[j]] = At(q, j + 1) /\ g[q[j]] = At(q, j - 1) /\ h = At(q, 1)
  BY DEF DLinked, Linked
<1>3. At(q, j + 1) = IF j < Len(q) THEN q[j + 1] ELSE INVALID
  BY <1>1 DEF At
<1>4. At(q, j - 1) = IF j > 1 THEN q[j - 1] ELSE INVALID
  BY <1>1 DEF At
<1>5. At(q, 1) = q[1]
  BY <1>1 DEF At
<1>6. \A i \in 1 .. Len(q) : i # j => q[i] # q[j]
  BY DEF List
<1> QED BY <1>1, <1>2, <1>3, <1>4, <1>5, <1>6 DEF Handlers

\* An element enters at the head of a list.
LEMMA PushLinks ==
    ASSUME NEW S, INVALID \notin S, NEW q \in List(S), NEW x \in S, x \notin Range(q),
           NEW f \in [S -> Handlers(S)], NEW h, Linked(f, h, q)
    PROVE  Linked(Put(f, x, h), x, <<x>> \o q)
<1> DEFINE r == <<x>> \o q
           f2 == Put(f, x, h)
<1>1. q \in Seq(S) /\ Len(q) \in Nat /\ \A i \in 1 .. Len(q) : q[i] \in Range(q) /\ q[i] \in S
  BY RangeOf DEF List
<1>2. /\ Len(r) = Len(q) + 1 /\ r[1] = x
      /\ \A i \in 1 .. Len(q) : r[i + 1] = q[i]
      /\ \A i \in 2 .. Len(q) + 1 : r[i] = q[i - 1]
  BY PushList
<1>3. h = At(q, 1) /\ \A i \in 1 .. Len(q) : f[q[i]] = At(q, i + 1)
  BY DEF Linked
<1>4. h \in Handlers(S) /\ x \in Handlers(S)
  BY <1>1, <1>3 DEF At, Handlers
<1>5. \A y \in S : f2[y] = IF y = x THEN h ELSE f[y]
  BY <1>4 DEF Put, Handlers
<1> HIDE DEF r, f2
<1>6. \A i \in 1 .. Len(q) + 1 : At(r, i + 1) = At(q, i)
  <2> SUFFICES ASSUME NEW i \in 1 .. Len(q) + 1 PROVE At(r, i + 1) = At(q, i)
    OBVIOUS
  <2>1. i \in 1 .. Len(q) <=> i + 1 \in 1 .. Len(r)
    BY <1>1, <1>2
  <2> QED BY <1>2, <2>1 DEF At
<1>7. x = At(r, 1)
  BY <1>1, <1>2 DEF At
<1>8. ASSUME NEW i \in 1 .. Len(r) PROVE f2[r[i]] = At(r, i + 1)
  <2>1. CASE i = 1
    BY <1>1, <1>2, <1>3, <1>5, <1>6, <2>1
  <2>2. CASE i # 1
    <3>1. i \in 2 .. Len(q) + 1 /\ i - 1 \in 1 .. Len(q) /\ (i - 1) + 1 = i
      BY <1>1, <1>2, <2>2
    <3>2. r[i] = q[i - 1] /\ q[i - 1] # x
      BY <1>1, <1>2, <3>1
    <3>3. f2[q[i - 1]] = f[q[i - 1]]
      BY <1>1, <1>5, <3>1, <3>2
    <3>4. f[q[i - 1]] = At(q, i)
      BY <1>3, <3>1
    <3> QED BY <1>6, <3>1, <3>2, <3>3, <3>4
  <2> QED BY <2>1, <2>2
<1> QED BY <1>7, <1>8 DEF Linked, r, f2

\* The same when the list leads back.
LEMMA PushDLinks ==
    ASSUME NEW S, INVALID \notin S, NEW q \in List(S), NEW x \in S, x \notin Range(q),
           NEW f \in [S -> Handlers(S)], NEW g \in [S -> Handlers(S)], NEW h, DLinked(f, g, h, q)
    PROVE  DLinked(Put(f, x, h), Put(Put(g, x, INVALID), h, x), x, <<x>> \o q)
<1> DEFINE r == <<x>> \o q
           g2 == Put(Put(g, x, INVALID), h, x)
<1>1. q \in Seq(S) /\ Len(q) \in Nat /\ \A i \in 1 .. Len(q) : q[i] \in Range(q) /\ q[i] \in S
  BY RangeOf DEF List
<1>2. /\ Len(r) = Len(q) + 1 /\ r[1] = x
      /\ \A i \in 1 .. Len(q) : r[i + 1] = q[i]
      /\ \A i \in 2 .. Len(q) + 1 : r[i] = q[i - 1]
  BY PushList
<1>3. Linked(f, h, q) /\ \A i \in 1 .. Len(q) : g[q[i]] = At(q, i - 1)
  BY DEF DLinked
<1>4. Linked(Put(f, x, h), x, r)
  BY <1>3, PushLinks
<1>5. h = At(q, 1)
  BY <1>3 DEF Linked
<1>6. h \in Handlers(S) /\ INVALID \in Handlers(S) /\ x \in Handlers(S)
  BY <1>1, <1>5 DEF At, Handlers
<1>7. Put(g, x, INVALID) \in [S -> Handlers(S)]
      /\ \A y \in S : Put(g, x, INVALID)[y] = IF y = x THEN INVALID ELSE g[y]
  BY <1>6 DEF Put, Handlers
<1>8. \A y \in S : g2[y] = IF y = h THEN x ELSE IF y = x THEN INVALID ELSE g[y]
  <2>1. \A y \in S : g2[y] = IF y = h THEN x ELSE Put(g, x, INVALID)[y]
    BY <1>6, <1>7 DEF Put, Handlers
  <2> QED BY <1>7, <2>1
<1> HIDE DEF r, g2
<1>9. ASSUME NEW i \in 1 .. Len(r) PROVE g2[r[i]] = At(r, i - 1)
  <2>1. CASE i = 1
    <3>1. At(r, i - 1) = INVALID /\ r[i] = x
      BY <1>2, <2>1 DEF At
    <3>2. x # h
      BY <1>1, <1>5 DEF At
    <3> QED BY <1>8, <3>1, <3>2
  <2>2. CASE i = 2
    <3>1. At(r, i - 1) = x /\ r[i] = q[1] /\ 1 \in 1 .. Len(q)
      BY <1>1, <1>2, <2>2 DEF At
    <3>2. h = q[1]
      BY <1>5, <3>1 DEF At
    <3> QED BY <1>1, <1>8, <3>1, <3>2
  <2>3. CASE i > 2
    <3>1. /\ i \in 2 .. Len(q) + 1 /\ i - 1 \in 2 .. Len(q) + 1 /\ i - 1 \in 1 .. Len(r)
          /\ i - 1 \in 1 .. Len(q) /\ (i - 1) - 1 \in 1 .. Len(q) /\ 1 \in 1 .. Len(q)
      BY <1>1, <1>2, <2>3
    <3>2. At(r, i - 1) = q[(i - 1) - 1] /\ r[i] = q[i - 1]
      BY <1>2, <3>1 DEF At
    <3>3. h = q[1] /\ q[i - 1] # h /\ q[i - 1] # x
      BY <1>1, <1>5, <2>3, <3>1 DEF At, List
    <3>4. g[q[i - 1]] = q[(i - 1) - 1]
      BY <1>3, <3>1 DEF At
    <3> QED BY <1>1, <1>8, <3>1, <3>2, <3>3, <3>4
  <2> QED BY <1>1, <1>2, <2>1, <2>2, <2>3
<1> QED BY <1>4, <1>9 DEF DLinked, r, g2

\* The first element leaves a list.
LEMMA PopLinks ==
    ASSUME NEW S, INVALID \notin S, NEW q \in List(S), 1 \in 1 .. Len(q),
           NEW f \in [S -> Handlers(S)], NEW h, Linked(f, h, q)
    PROVE  /\ h = q[1] /\ h \in S
           /\ Linked(Put(f, h, INVALID), f[h], RemoveAt(q, 1))
<1> DEFINE r == RemoveAt(q, 1)
           f2 == Put(f, h, INVALID)
<1>1. q \in Seq(S) /\ Len(q) \in Nat /\ \A i \in 1 .. Len(q) : q[i] \in Range(q) /\ q[i] \in S
  BY RangeOf DEF List
<1>2. /\ Len(r) = Len(q) - 1
      /\ \A i \in 1 .. Len(q) - 1 : r[i] = IF i < 1 THEN q[i] ELSE q[i + 1]
  BY TakeList
<1>3. h = At(q, 1) /\ \A i \in 1 .. Len(q) : f[q[i]] = At(q, i + 1)
  BY DEF Linked
<1>4. h = q[1] /\ h \in S /\ h \in Handlers(S) /\ INVALID \in Handlers(S)
  BY <1>1, <1>3 DEF At, Handlers
<1>5. \A y \in S : f2[y] = IF y = h THEN INVALID ELSE f[y]
  BY <1>4 DEF Put, Handlers
<1> HIDE DEF r, f2
<1>6. \A i \in 1 .. Len(q) : At(r, i) = At(q, i + 1)
  <2> SUFFICES ASSUME NEW i \in 1 .. Len(q) PROVE At(r, i) = At(q, i + 1)
    OBVIOUS
  <2>1. /\ i \in 1 .. Len(r) <=> i + 1 \in 1 .. Len(q)
        /\ i \in 1 .. Len(r) => i \in 1 .. Len(q) - 1 /\ ~(i < 1)
    BY <1>1, <1>2
  <2> QED BY <1>2, <2>1 DEF At
<1>7. f[h] = At(r, 1)
  BY <1>3, <1>4, <1>6
<1>8. ASSUME NEW i \in 1 .. Len(r) PROVE f2[r[i]] = At(r, i + 1)
  <2>1. i \in 1 .. Len(q) - 1 /\ ~(i < 1) /\ i + 1 \in 1 .. Len(q) /\ i + 1 # 1
    BY <1>1, <1>2
  <2>2. r[i] = q[i + 1] /\ q[i + 1] # h /\ q[i + 1] \in S
    BY <1>1, <1>2, <1>4, <2>1 DEF List
  <2> QED BY <1>3, <1>5, <1>6, <2>1, <2>2
<1> QED BY <1>4, <1>7, <1>8 DEF Linked, r, f2

\* An element leaves a list.
LEMMA TakeDLinks ==
    ASSUME NEW S, INVALID \notin S, NEW q \in List(S), NEW j \in 1 .. Len(q),
           NEW f \in [S -> Handlers(S)], NEW g \in [S -> Handlers(S)], NEW h, NEW t,
           DLinked(f, g, h, q), t = At(q, Len(q)), NEW n, n = q[j]
    PROVE  LET f2 == Put(Put(f, g[n], f[n]), n, INVALID)
               g2 == Put(Put(g, f[n], g[n]), n, INVALID)
               r  == RemoveAt(q, j)
           IN  /\ DLinked(f2, g2, IF h = n THEN f[n] ELSE h, r)
               /\ (IF t = n THEN g[n] ELSE t) = At(r, Len(r))
               /\ f2[n] = INVALID /\ g2[n] = INVALID
               /\ \A x \in S \ Range(q) : f2[x] = f[x] /\ g2[x] = g[x]
<1> DEFINE a == f[n]
           b == g[n]
           f1 == Put(f, b, a)
           g1 == Put(g, a, b)
           f2 == Put(f1, n, INVALID)
           g2 == Put(g1, n, INVALID)
           r  == RemoveAt(q, j)
           h2 == IF h = n THEN a ELSE h
           t2 == IF t = n THEN b ELSE t
           up(i) == IF i < j THEN i ELSE i + 1
<1>1. q \in Seq(S) /\ Len(q) \in Nat /\ \A i \in 1 .. Len(q) : q[i] \in Range(q) /\ q[i] \in S
  BY RangeOf DEF List
<1>2. /\ Len(r) = Len(q) - 1
      /\ \A i \in 1 .. Len(q) - 1 : r[i] = q[up(i)]
  BY TakeList
<1>3. /\ a = IF j < Len(q) THEN q[j + 1] ELSE INVALID
      /\ b = IF j > 1 THEN q[j - 1] ELSE INVALID
      /\ a \in Handlers(Range(q) \ {n}) /\ b \in Handlers(Range(q) \ {n})
      /\ h = q[1]
  <2>1. /\ f[q[j]] = IF j < Len(q) THEN q[j + 1] ELSE INVALID
        /\ g[q[j]] = IF j > 1 THEN q[j - 1] ELSE INVALID
        /\ f[q[j]] \in Handlers(Range(q) \ {q[j]}) /\ g[q[j]] \in Handlers(Range(q) \ {q[j]})
        /\ h = q[1]
    BY Neighbours
  <2> QED BY <2>1
<1>4. n \in S /\ n \in Handlers(S) /\ INVALID \in Handlers(S) /\ a \in Handlers(S) /\ b \in Handlers(S)
  BY <1>1 DEF Handlers
<1>5. /\ f1 \in [S -> Handlers(S)] /\ g1 \in [S -> Handlers(S)]
      /\ \A y \in S : f1[y] = IF y = b THEN a ELSE f[y]
      /\ \A y \in S : g1[y] = IF y = a THEN b ELSE g[y]
  <2> HIDE DEF a, b
  <2> QED BY <1>4 DEF Put, Handlers
<1>6. /\ \A y \in S : f2[y] = IF y = n THEN INVALID ELSE IF y = b THEN a ELSE f[y]
      /\ \A y \in S : g2[y] = IF y = n THEN INVALID ELSE IF y = a THEN b ELSE g[y]
  <2>1. /\ \A y \in S : f2[y] = IF y = n THEN INVALID ELSE f1[y]
        /\ \A y \in S : g2[y] = IF y = n THEN INVALID ELSE g1[y]
    <3> HIDE DEF a, b, f1, g1
    <3> QED BY <1>4, <1>5 DEF Put, Handlers
  <2> QED BY <1>5, <2>1
<1>7. /\ \A i \in 1 .. Len(q) : f[q[i]] = At(q, i + 1) /\ g[q[i]] = At(q, i - 1)
      /\ \A i, k \in 1 .. Len(q) : q[i] = q[k] => i = k
  BY DEF DLinked, Linked, List
<1> HIDE DEF f1, g1, f2, g2, r, a, b
<1>8. h2 = At(r, 1)
  <2>1. CASE j = 1
    BY <1>1, <1>2, <1>3, <2>1 DEF At
  <2>2. CASE j # 1
    BY <1>1, <1>2, <1>3, <1>7, <2>2 DEF At
  <2> QED BY <2>1, <2>2
<1>9. t2 = At(r, Len(r))
  <2>1. t = q[Len(q)]
    BY <1>1 DEF At
  <2>2. CASE j = Len(q)
    BY <1>1, <1>2, <1>3, <2>1, <2>2 DEF At
  <2>3. CASE j # Len(q)
    <3>1. /\ Len(r) \in 1 .. Len(q) - 1 /\ Len(r) \in 1 .. Len(r) /\ ~(Len(r) < j)
          /\ Len(r) + 1 = Len(q) /\ Len(q) \in 1 .. Len(q)
      BY <1>1, <1>2, <2>3
    <3>2. t # n /\ At(r, Len(r)) = r[Len(r)] /\ r[Len(r)] = q[Len(r) + 1]
      BY <1>2, <1>7, <2>1, <2>3, <3>1 DEF At
    <3> QED BY <2>1, <3>1, <3>2
  <2> QED BY <2>2, <2>3
<1>10. ASSUME NEW i \in 1 .. Len(r)
       PROVE  f2[r[i]] = At(r, i + 1) /\ g2[r[i]] = At(r, i - 1)
  <2>1. /\ i \in 1 .. Len(q) - 1 /\ up(i) \in 1 .. Len(q) /\ up(i) # j
        /\ r[i] = q[up(i)] /\ r[i] \in S /\ r[i] # n
    BY <1>1, <1>2, <1>7
  <2>2. f2[r[i]] = At(r, i + 1)
    <3>1. CASE i = j - 1
      <4>1. r[i] = q[j - 1] /\ b = q[j - 1]
        BY <1>1, <1>2, <1>3, <2>1, <3>1
      <4>2. f2[r[i]] = a
        BY <1>6, <2>1, <4>1
      <4>3. i + 1 \in 1 .. Len(r) <=> j < Len(q)
        BY <1>1, <1>2, <2>1, <3>1
      <4>4. j < Len(q) => r[i + 1] = q[j + 1]
        BY <1>1, <1>2, <2>1, <3>1
      <4> QED BY <1>3, <4>2, <4>3, <4>4 DEF At
    <3>2. CASE i # j - 1
      <4>1. r[i] # b
        <5>1. CASE j > 1
          <6>1. b = q[j - 1] /\ j - 1 \in 1 .. Len(q) /\ up(i) # j - 1
            BY <1>1, <1>3, <2>1, <3>2, <5>1
          <6> QED BY <1>7, <2>1, <6>1
        <5>2. CASE ~(j > 1)
          BY <1>3, <2>1, <5>2
        <5> QED BY <5>1, <5>2
      <4>2. f2[r[i]] = At(q, up(i) + 1)
        BY <1>6, <1>7, <2>1, <4>1, SMTT(30)
      <4>3. /\ up(i) + 1 = up(i + 1)
            /\ i + 1 \in 1 .. Len(r) <=> up(i) + 1 \in 1 .. Len(q)
        BY <1>1, <1>2, <2>1, <3>2
      <4>4. i + 1 \in 1 .. Len(r) => r[i + 1] = q[up(i) + 1]
        BY <1>2, <4>3
      <4>5. At(q, up(i) + 1) = At(r, i + 1)
        <5>1. CASE i + 1 \in 1 .. Len(r)
          BY <4>3, <4>4, <5>1 DEF At
        <5>2. CASE i + 1 \notin 1 .. Len(r)
          BY <4>3, <5>2 DEF At
        <5> QED BY <5>1, <5>2
      <4> QED BY <4>2, <4>5
    <3> QED BY <3>1, <3>2
  <2>3. g2[r[i]] = At(r, i - 1)
    <3>1. CASE i = j
      <4>1. r[i] = q[j + 1] /\ a = q[j + 1]
        BY <1>1, <1>2, <1>3, <2>1, <3>1
      <4>2. g2[r[i]] = b
        BY <1>6, <2>1, <4>1
      <4>3. i - 1 \in 1 .. Len(r) <=> j > 1
        BY <1>1, <1>2, <2>1, <3>1
      <4>4. j > 1 => r[i - 1] = q[j - 1]
        BY <1>1, <1>2, <2>1, <3>1
      <4> QED BY <1>3, <4>2, <4>3, <4>4 DEF At
    <3>2. CASE i # j
      <4>1. r[i] # a
        <5>1. CASE j < Len(q)
          <6>1. a = q[j + 1] /\ j + 1 \in 1 .. Len(q) /\ up(i) # j + 1
            BY <1>1, <1>3, <2>1, <3>2, <5>1
          <6> QED BY <1>7, <2>1, <6>1
        <5>2. CASE ~(j < Len(q))
          BY <1>3, <2>1, <5>2
        <5> QED BY <5>1, <5>2
      <4>2. g2[r[i]] = At(q, up(i) - 1)
        BY <1>6, <1>7, <2>1, <4>1
      <4>3. /\ i - 1 \in 1 .. Len(r) => up(i) - 1 = up(i - 1) /\ i - 1 \in 1 .. Len(q) - 1
            /\ i - 1 \in 1 .. Len(r) <=> up(i) - 1 \in 1 .. Len(q)
        BY <1>1, <1>2, <2>1, <3>2
      <4> QED BY <1>2, <4>2, <4>3 DEF At
    <3> QED BY <3>1, <3>2
  <2> QED BY <2>2, <2>3
<1>11. DLinked(f2, g2, h2, r)
  BY <1>8, <1>10 DEF DLinked, Linked
<1>12. \A x \in S \ Range(q) : f2[x] = f[x] /\ g2[x] = g[x]
  <2> SUFFICES ASSUME NEW x \in S \ Range(q) PROVE f2[x] = f[x] /\ g2[x] = g[x]
    OBVIOUS
  <2>1. x # n /\ x # a /\ x # b
    BY <1>1, <1>3 DEF Handlers
  <2> QED BY <1>6, <2>1
<1>13. f2[n] = INVALID /\ g2[n] = INVALID
  BY <1>4, <1>6
<1> QED BY <1>9, <1>11, <1>12, <1>13 DEF f1, g1, f2, g2, r, a, b

-----------------------------------------------------------------------------
(* The nodes                                                               *)

\* the values of a node, of the pool of chunks and of the map
NodeType == [key : Key \cup {NoKey}, len : Nat, chunk : Handlers(Chunk),
             next : Handlers(Node), prev : Handlers(Node),
             add_next : Handlers(Node), add_prev : Handlers(Node)]

\* chunks: a handler each, INVALID after the last
PoolType == [next : [Chunk -> Handlers(Chunk)], data : [Chunk -> Seq(Octet)],
             free_list : Handlers(Chunk), free_total : Int]

\* nodes, the heads of their lists, and the counters
MapType == [node : [Node -> NodeType], bucket : [Bucket -> Handlers(Node)],
            free_list : Handlers(Node), add_head : Handlers(Node), add_tail : Handlers(Node),
            used_node_num : Int, used_bucket_num : Int, pool : PoolType]

\* the fields that link the nodes, all fields of a node, and those of the map
Links == {"next", "prev", "add_next", "add_prev"}
NodeFields == {"key", "len", "chunk"} \cup Links
MapFields == {"bucket", "free_list", "add_head", "add_tail",
              "used_node_num", "used_bucket_num", "pool"}

\* the field of every node
Field(m, f) == [n \in Node |-> m.node[n][f]]

\* r is m but for these fields of the map and those of its nodes.
Same(m, r, F, N) == /\ \A f \in MapFields \ F : r[f] = m[f]
                    /\ \A f \in NodeFields \ N : Field(r, f) = Field(m, f)

\* A handler of a node is not that of none.
LEMMA NodeHandlers == INVALID \notin Node /\ INVALID \notin Chunk /\ NodeTotal \in Nat /\ ChunkTotal \in Nat
                      /\ Node \subseteq Nat \ {0} /\ Chunk \subseteq Nat \ {0}
BY HashAssumption, ChunkAssumption DEF Node, Chunk, INVALID

\* The links of the nodes are handlers.
LEMMA LinkType ==
    ASSUME NEW m \in MapType, NEW f \in Links
    PROVE  /\ Field(m, f) \in [Node -> Handlers(Node)]
           /\ \A n \in Node : Field(m, f)[n] = m.node[n][f]
<1>1. \A n \in Node : m.node[n][f] \in Handlers(Node)
  BY DEF MapType, NodeType, Links
<1> QED BY <1>1 DEF Field

\* What Set leaves.
LEMMA SetField ==
    ASSUME NEW m \in MapType, NEW n \in Handlers(Node), NEW f \in Links, NEW v \in Handlers(Node)
    PROVE  /\ Set(m, n, f, v) \in MapType
           /\ Field(Set(m, n, f, v), f) = Put(Field(m, f), n, v)
           /\ Same(m, Set(m, n, f, v), {}, {f})
<1> DEFINE r == Set(m, n, f, v)
<1>1. CASE n = INVALID
  BY <1>1 DEF Set, Put, Same
<1>2. CASE n # INVALID
  <2>1. n \in Node /\ r = [m EXCEPT !.node[n][f] = v]
    BY <1>2 DEF Handlers, Set
  <2>2. m.node \in [Node -> NodeType] /\ m.node[n] \in NodeType
    BY <2>1 DEF MapType
  <2>3. [m.node[n] EXCEPT ![f] = v] \in NodeType
    BY <2>2 DEF NodeType, Links
  <2>4. /\ r \in MapType
        /\ r.node = [m.node EXCEPT ![n] = [m.node[n] EXCEPT ![f] = v]]
        /\ \A g \in MapFields : r[g] = m[g]
    <3>1. r.node \in [Node -> NodeType] /\ r.node = [m.node EXCEPT ![n] = [m.node[n] EXCEPT ![f] = v]]
      BY <2>1, <2>2, <2>3 DEF MapType
    <3>2. \A g \in MapFields : r[g] = m[g]
      BY <2>1 DEF MapType, MapFields
    <3>3. r = [node |-> r.node, bucket |-> m.bucket, free_list |-> m.free_list,
               add_head |-> m.add_head, add_tail |-> m.add_tail,
               used_node_num |-> m.used_node_num, used_bucket_num |-> m.used_bucket_num,
               pool |-> m.pool]
      BY <2>1 DEF MapType
    <3> QED BY <3>1, <3>2, <3>3 DEF MapType
  <2>5. \A x \in Node : \A g \in NodeFields :
           r.node[x][g] = IF x = n /\ g = f THEN v ELSE m.node[x][g]
    BY <2>1, <2>2, <2>4 DEF NodeType, NodeFields, Links
  <2>6. Field(r, f) = Put(Field(m, f), n, v)
    BY <1>2, <2>1, <2>5 DEF Field, Put, NodeFields
  <2>7. \A g \in NodeFields \ {f} : Field(r, g) = Field(m, g)
    BY <2>5 DEF Field
  <2> QED BY <2>4, <2>6, <2>7 DEF Same
<1> QED BY <1>1, <1>2

\* What a node that leaves the add list leaves of the map.
LEMMA DeleteFromAdd ==
    ASSUME NEW m \in MapType, NEW n \in Node
    PROVE  LET r == delete_from_add_list(m, n)
               f == Field(m, "add_next")
               g == Field(m, "add_prev")
           IN  /\ r \in MapType
               /\ Field(r, "add_next") = Put(Put(f, g[n], f[n]), n, INVALID)
               /\ Field(r, "add_prev") = Put(Put(g, f[n], g[n]), n, INVALID)
               /\ r.add_head = IF m.add_head = n THEN f[n] ELSE m.add_head
               /\ r.add_tail = IF m.add_tail = n THEN g[n] ELSE m.add_tail
               /\ Same(m, r, {"add_head", "add_tail"}, {"add_next", "add_prev"})
<1> DEFINE f  == Field(m, "add_next")
           g  == Field(m, "add_prev")
           a  == m.node[n].add_next
           b  == m.node[n].add_prev
           m1 == Set(m, b, "add_next", a)
           m2 == Set(m1, a, "add_prev", b)
           m3 == Set(m2, n, "add_next", INVALID)
           m4 == Set(m3, n, "add_prev", INVALID)
           r  == delete_from_add_list(m, n)
<1>1. /\ f \in [Node -> Handlers(Node)] /\ g \in [Node -> Handlers(Node)]
      /\ m.node[n]["add_next"] = f[n] /\ m.node[n]["add_prev"] = g[n]
  BY LinkType DEF Links
<1>2. a = f[n] /\ b = g[n] /\ a \in Handlers(Node) /\ b \in Handlers(Node)
  BY <1>1
<1>3. n \in Handlers(Node) /\ INVALID \in Handlers(Node) /\ "add_next" \in Links /\ "add_prev" \in Links
  BY DEF Handlers, Links
<1> HIDE DEF a, b
<1>4. m1 \in MapType /\ Field(m1, "add_next") = Put(f, b, a) /\ Same(m, m1, {}, {"add_next"})
  BY <1>2, <1>3, SetField
<1> HIDE DEF m1
<1>5. m2 \in MapType /\ Field(m2, "add_prev") = Put(Field(m1, "add_prev"), a, b) /\ Same(m1, m2, {}, {"add_prev"})
  BY <1>2, <1>3, <1>4, SetField
<1> HIDE DEF m2
<1>6. m3 \in MapType /\ Field(m3, "add_next") = Put(Field(m2, "add_next"), n, INVALID) /\ Same(m2, m3, {}, {"add_next"})
  BY <1>3, <1>5, SetField
<1> HIDE DEF m3
<1>7. m4 \in MapType /\ Field(m4, "add_prev") = Put(Field(m3, "add_prev"), n, INVALID) /\ Same(m3, m4, {}, {"add_prev"})
  BY <1>3, <1>6, SetField
<1> HIDE DEF m4
<1>8. /\ Field(m4, "add_next") = Put(Put(f, b, a), n, INVALID)
      /\ Field(m4, "add_prev") = Put(Put(g, a, b), n, INVALID)
      /\ Same(m, m4, {}, {"add_next", "add_prev"})
  BY <1>4, <1>5, <1>6, <1>7 DEF Same, NodeFields, Links
<1>9. r = [m4 EXCEPT !.add_head = IF @ = n THEN a ELSE @, !.add_tail = IF @ = n THEN b ELSE @]
  BY DEF delete_from_add_list, a, b, m1, m2, m3, m4
<1>10. /\ r \in MapType /\ r.node = m4.node
       /\ r.add_head = IF m4.add_head = n THEN a ELSE m4.add_head
       /\ r.add_tail = IF m4.add_tail = n THEN b ELSE m4.add_tail
       /\ \A x \in MapFields \ {"add_head", "add_tail"} : r[x] = m4[x]
  BY <1>2, <1>7, <1>9 DEF MapType, MapFields
<1>11. m4.add_head = m.add_head /\ m4.add_tail = m.add_tail
  BY <1>8 DEF Same, MapFields
<1>12. /\ Same(m, r, {"add_head", "add_tail"}, {"add_next", "add_prev"})
       /\ Field(r, "add_next") = Field(m4, "add_next") /\ Field(r, "add_prev") = Field(m4, "add_prev")
  BY <1>8, <1>10 DEF Same, Field
<1> QED BY <1>2, <1>8, <1>10, <1>11, <1>12

\* The free list is fl.
FreeShape(m, fl) == fl \in List(Node) /\ Linked(Field(m, "next"), m.free_list, fl)

\* The list of each bucket b is bl[b].
BucketShape(m, bl) ==
    /\ bl \in [Bucket -> List(Node)]
    /\ \A b \in Bucket : DLinked(Field(m, "next"), Field(m, "prev"), m.bucket[b], bl[b])

\* The add list is al, and no other node is linked to it.
AddShape(m, al) ==
    /\ al \in List(Node)
    /\ DLinked(Field(m, "add_next"), Field(m, "add_prev"), m.add_head, al)
    /\ m.add_tail = At(al, Len(al))
    /\ \A n \in Node \ Range(al) : /\ Field(m, "add_next")[n] = INVALID
                                   /\ Field(m, "add_prev")[n] = INVALID

\* The head of a linked list is one of its elements, if it has any.
LEMMA HeadOf ==
    ASSUME NEW S, NEW q \in List(S), NEW f, NEW h, Linked(f, h, q)
    PROVE  h \in Handlers(Range(q)) /\ At(q, Len(q)) \in Handlers(Range(q))
<1>1. \A i \in 1 .. Len(q) : q[i] \in Range(q)
  BY RangeOf DEF List
<1> QED BY <1>1 DEF Linked, At, Handlers

\* A node of the add list leaves it.
LEMMA AddTake ==
    ASSUME NEW m \in MapType, NEW al, AddShape(m, al), NEW j \in 1 .. Len(al)
    PROVE  LET r == delete_from_add_list(m, al[j])
           IN  /\ r \in MapType
               /\ AddShape(r, RemoveAt(al, j))
               /\ Same(m, r, {"add_head", "add_tail"}, {"add_next", "add_prev"})
<1> DEFINE n  == al[j]
           r  == delete_from_add_list(m, n)
           q  == RemoveAt(al, j)
           f  == Field(m, "add_next")
           g  == Field(m, "add_prev")
           f2 == Put(Put(f, g[n], f[n]), n, INVALID)
           g2 == Put(Put(g, f[n], g[n]), n, INVALID)
<1>1. /\ al \in List(Node) /\ DLinked(f, g, m.add_head, al) /\ m.add_tail = At(al, Len(al))
      /\ \A x \in Node \ Range(al) : f[x] = INVALID /\ g[x] = INVALID
  BY DEF AddShape
<1>2. n \in Node /\ n \in Range(al)
  BY <1>1, RangeOf DEF List
<1>3. f \in [Node -> Handlers(Node)] /\ g \in [Node -> Handlers(Node)]
  BY LinkType DEF Links
<1> HIDE DEF n, f, g
<1>4. /\ r \in MapType
      /\ Field(r, "add_next") = f2 /\ Field(r, "add_prev") = g2
      /\ r.add_head = IF m.add_head = n THEN f[n] ELSE m.add_head
      /\ r.add_tail = IF m.add_tail = n THEN g[n] ELSE m.add_tail
      /\ Same(m, r, {"add_head", "add_tail"}, {"add_next", "add_prev"})
  BY <1>2, DeleteFromAdd DEF f, g
<1> DEFINE h2 == IF m.add_head = n THEN f[n] ELSE m.add_head
           t2 == IF m.add_tail = n THEN g[n] ELSE m.add_tail
<1>5. /\ DLinked(f2, g2, h2, q) /\ t2 = At(q, Len(q))
      /\ f2[n] = INVALID /\ g2[n] = INVALID
      /\ \A x \in Node \ Range(al) : f2[x] = f[x] /\ g2[x] = g[x]
  <2>1. n = al[j] /\ INVALID \notin Node
    BY NodeHandlers DEF n
  <2> QED BY <1>1, <1>3, <2>1, TakeDLinks
<1>6. q \in List(Node) /\ Range(q) = Range(al) \ {n}
  BY <1>1, TakeList DEF n
<1> HIDE DEF f2, g2, h2, t2, r, q
<1>7. \A x \in Node \ Range(q) : f2[x] = INVALID /\ g2[x] = INVALID
  BY <1>1, <1>5, <1>6
<1>8. AddShape(r, q)
  BY <1>4, <1>5, <1>6, <1>7 DEF AddShape, h2, t2
<1> QED BY <1>4, <1>8 DEF r, q, n

\* Nothing happens to one that is not in it.
LEMMA AddAbsent ==
    ASSUME NEW m \in MapType, NEW al, AddShape(m, al), NEW n \in Node \ Range(al)
    PROVE  LET r == delete_from_add_list(m, n)
           IN  /\ r \in MapType
               /\ AddShape(r, al)
               /\ Same(m, r, {"add_head", "add_tail"}, {"add_next", "add_prev"})
<1> DEFINE r  == delete_from_add_list(m, n)
           f  == Field(m, "add_next")
           g  == Field(m, "add_prev")
<1>1. /\ al \in List(Node) /\ DLinked(f, g, m.add_head, al) /\ m.add_tail = At(al, Len(al))
      /\ \A x \in Node \ Range(al) : f[x] = INVALID /\ g[x] = INVALID
  BY DEF AddShape
<1>2. f \in [Node -> Handlers(Node)] /\ g \in [Node -> Handlers(Node)]
  BY LinkType DEF Links
<1> HIDE DEF f, g
<1>3. f[n] = INVALID /\ g[n] = INVALID
  BY <1>1
<1>4. Put(Put(f, g[n], f[n]), n, INVALID) = f /\ Put(Put(g, f[n], g[n]), n, INVALID) = g
  BY <1>2, <1>3 DEF Put
<1>5. m.add_head # n /\ m.add_tail # n
  <2>1. m.add_head \in Handlers(Range(al)) /\ m.add_tail \in Handlers(Range(al))
    BY <1>1, HeadOf DEF DLinked
  <2> QED BY <2>1, NodeHandlers DEF Handlers
<1>6. /\ r \in MapType
      /\ Field(r, "add_next") = f /\ Field(r, "add_prev") = g
      /\ r.add_head = m.add_head /\ r.add_tail = m.add_tail
      /\ Same(m, r, {"add_head", "add_tail"}, {"add_next", "add_prev"})
  BY <1>4, <1>5, DeleteFromAdd DEF f, g
<1> HIDE DEF r
<1>7. AddShape(r, al)
  BY <1>1, <1>6 DEF AddShape
<1> QED BY <1>6, <1>7 DEF r

\* A node becomes the head of the add list.
LEMMA AddPush ==
    ASSUME NEW m \in MapType, NEW n \in Node, NEW al, NEW q,
           AddShape(delete_from_add_list(m, n), q), n \notin Range(q),
           delete_from_add_list(m, n) \in MapType,
           Same(m, delete_from_add_list(m, n), {"add_head", "add_tail"}, {"add_next", "add_prev"})
    PROVE  LET r == insert_add_list_head(m, n)
           IN  /\ r \in MapType
               /\ AddShape(r, <<n>> \o q)
               /\ Same(m, r, {"add_head", "add_tail"}, {"add_next", "add_prev"})
<1> DEFINE m0 == delete_from_add_list(m, n)
           f  == Field(m0, "add_next")
           g  == Field(m0, "add_prev")
           h  == m0.add_head
           m1 == Set(m0, n, "add_next", h)
           m2 == Set(m1, n, "add_prev", INVALID)
           m3 == Set(m2, h, "add_prev", n)
           f2 == Put(f, n, h)
           g2 == Put(Put(g, n, INVALID), h, n)
           r  == insert_add_list_head(m, n)
<1> HIDE DEF m0
<1>1. /\ q \in List(Node) /\ DLinked(f, g, h, q) /\ m0.add_tail = At(q, Len(q))
      /\ \A x \in Node \ Range(q) : f[x] = INVALID /\ g[x] = INVALID
  BY DEF AddShape, m0
<1>2. /\ f \in [Node -> Handlers(Node)] /\ g \in [Node -> Handlers(Node)]
  BY LinkType DEF Links, m0
<1>3. /\ n \in Handlers(Node) /\ INVALID \in Handlers(Node) /\ "add_next" \in Links /\ "add_prev" \in Links
      /\ h \in Handlers(Node)
  BY DEF Handlers, Links, MapType, m0
<1>4. m1 \in MapType /\ Field(m1, "add_next") = f2 /\ Same(m0, m1, {}, {"add_next"})
  BY <1>3, SetField DEF m0
<1> HIDE DEF m1, h
<1>5. m2 \in MapType /\ Field(m2, "add_prev") = Put(Field(m1, "add_prev"), n, INVALID) /\ Same(m1, m2, {}, {"add_prev"})
  BY <1>3, <1>4, SetField
<1> HIDE DEF m2
<1>6. m3 \in MapType /\ Field(m3, "add_prev") = Put(Field(m2, "add_prev"), h, n) /\ Same(m2, m3, {}, {"add_prev"})
  BY <1>3, <1>5, SetField
<1> HIDE DEF m3
<1>7. /\ Field(m3, "add_next") = f2 /\ Field(m3, "add_prev") = g2
      /\ Same(m0, m3, {}, {"add_next", "add_prev"})
  BY <1>4, <1>5, <1>6 DEF Same, NodeFields, Links
<1>8. r = [m3 EXCEPT !.add_head = n, !.add_tail = IF @ = INVALID THEN n ELSE @]
  <2>1. \A x \in Node : \A v : Set(m0, x, "add_next", v).add_head = m0.add_head
    BY NodeHandlers DEF Set, MapType, m0
  <2> QED BY DEF insert_add_list_head, h, m0, m1, m2, m3
<1>9. /\ r \in MapType /\ r.node = m3.node
      /\ r.add_head = n
      /\ r.add_tail = IF m3.add_tail = INVALID THEN n ELSE m3.add_tail
      /\ \A x \in MapFields \ {"add_head", "add_tail"} : r[x] = m3[x]
  BY <1>3, <1>6, <1>8 DEF MapType, MapFields
<1>10. m3.add_tail = m0.add_tail
  BY <1>7 DEF Same, MapFields
<1>11. /\ Same(m0, r, {"add_head", "add_tail"}, {"add_next", "add_prev"})
       /\ Field(r, "add_next") = f2 /\ Field(r, "add_prev") = g2
  BY <1>7, <1>9 DEF Same, Field
<1>12. Same(m, r, {"add_head", "add_tail"}, {"add_next", "add_prev"})
  BY <1>11 DEF Same, m0
<1> DEFINE p == <<n>> \o q
<1>13. DLinked(f2, g2, n, p)
  BY <1>1, <1>2, PushDLinks, NodeHandlers
<1>14. /\ p \in List(Node) /\ Len(p) = Len(q) + 1 /\ p[1] = n
       /\ \A i \in 2 .. Len(q) + 1 : p[i] = q[i - 1]
       /\ Range(p) = Range(q) \cup {n}
  BY <1>1, PushList
<1> HIDE DEF p
<1>15. r.add_tail = At(p, Len(p))
  <2>1. Len(q) \in Nat /\ \A i \in 1 .. Len(q) : q[i] \in Node
    BY <1>1, RangeOf DEF List
  <2>2. CASE Len(q) = 0
    <3>1. m0.add_tail = INVALID /\ At(p, Len(p)) = n
      BY <1>1, <1>14, <2>2 DEF At
    <3> QED BY <1>9, <1>10, <3>1
  <2>3. CASE Len(q) # 0
    <3>1. /\ Len(q) \in 1 .. Len(q) /\ Len(p) \in 2 .. Len(q) + 1 /\ Len(p) \in 1 .. Len(p)
          /\ Len(p) - 1 = Len(q)
      BY <1>14, <2>1, <2>3
    <3>2. m0.add_tail = q[Len(q)] /\ m0.add_tail # INVALID
      BY <1>1, <2>1, <3>1, NodeHandlers DEF At
    <3>3. At(p, Len(p)) = q[Len(q)]
      BY <1>14, <3>1 DEF At
    <3> QED BY <1>9, <1>10, <3>2, <3>3
  <2> QED BY <2>2, <2>3
<1>16. \A x \in Node \ Range(p) : f2[x] = INVALID /\ g2[x] = INVALID
  <2>1. h \in Handlers(Range(q))
    BY <1>1, HeadOf DEF DLinked
  <2> SUFFICES ASSUME NEW x \in Node \ Range(p) PROVE f2[x] = INVALID /\ g2[x] = INVALID
    OBVIOUS
  <2>2. x # n /\ x # h /\ f[x] = INVALID /\ g[x] = INVALID
    BY <1>1, <1>14, <2>1, NodeHandlers DEF Handlers
  <2> QED BY <1>2, <1>3, <2>2 DEF Put
<1>17. AddShape(r, p)
  BY <1>9, <1>11, <1>13, <1>14, <1>15, <1>16 DEF AddShape
<1> QED BY <1>9, <1>12, <1>17 DEF p

\* the lists with a node more, and with one less
PushTo(bl, b, n) == [bl EXCEPT ![b] = <<n>> \o @]
TakeFrom(bl, b, j) == [bl EXCEPT ![b] = RemoveAt(@, j)]

\* No node is in two of the lists.
Apart(bl) == \A b1, b2 \in Bucket : b1 # b2 => Range(bl[b1]) \cap Range(bl[b2]) = {}

\* A key has a bucket.
LEMMA BucketOf ==
    ASSUME NEW key \in Key
    PROVE  get_bucket_id(key) \in Bucket /\ key \in Nat /\ key # NoKey
<1>1. key \in Nat /\ BucketSize \in Nat \ {0}
  BY HashAssumption
<1>2. key % BucketSize \in 0 .. BucketSize - 1
  BY <1>1, ModRange
<1> QED BY <1>1, <1>2 DEF get_bucket_id, Bucket, NoKey

\* the map with another head of a bucket's list, and another number of nodes
Rehead(m, b, v, k) == [m EXCEPT !.bucket[b] = v, !.used_node_num = k]

\* What this leaves of the map.
LEMMA SetBucket ==
    ASSUME NEW m \in MapType, NEW b \in Bucket, NEW v \in Handlers(Node), NEW k \in Int
    PROVE  LET r == Rehead(m, b, v, k)
           IN  /\ r \in MapType /\ r.node = m.node
               /\ r.bucket = [m.bucket EXCEPT ![b] = v]
               /\ r.used_node_num = k
               /\ Same(m, r, {"bucket", "used_node_num"}, {})
<1> DEFINE r == Rehead(m, b, v, k)
<1>1. m.bucket \in [Bucket -> Handlers(Node)]
  BY DEF MapType
<1>2. [m.bucket EXCEPT ![b] = v] \in [Bucket -> Handlers(Node)]
  BY <1>1
<1>3. r = [m EXCEPT !.bucket = [m.bucket EXCEPT ![b] = v], !.used_node_num = k]
  BY DEF MapType, Rehead
<1>4. /\ r \in MapType /\ r.node = m.node
      /\ r.bucket = [m.bucket EXCEPT ![b] = v]
      /\ r.used_node_num = k
      /\ \A x \in MapFields \ {"bucket", "used_node_num"} : r[x] = m[x]
  BY <1>2, <1>3 DEF MapType, MapFields
<1> QED BY <1>4 DEF Same, Field

\* A node enters the list of its bucket.
LEMMA BucketPush ==
    ASSUME NEW m \in MapType, NEW bl, BucketShape(m, bl), Apart(bl), NEW n \in Node,
           \A x \in Bucket : n \notin Range(bl[x]),
           m.node[n].key \in Key, NEW b, b = get_bucket_id(m.node[n].key)
    PROVE  LET r == insert_node_list(m, n)
           IN  /\ r \in MapType
               /\ BucketShape(r, PushTo(bl, b, n))
               /\ Same(m, r, {"bucket", "used_node_num"}, {"next", "prev"})
               /\ r.bucket[b] = n /\ \A x \in Bucket \ {b} : r.bucket[x] = m.bucket[x]
               /\ r.used_node_num = m.used_node_num + 1
               /\ \A x \in Node \ {n} : Field(r, "next")[x] = Field(m, "next")[x]
<1> DEFINE q  == bl[b]
           p  == <<n>> \o q
           f  == Field(m, "next")
           g  == Field(m, "prev")
           h  == m.bucket[b]
           m1 == Set(m, n, "next", h)
           m2 == Set(m1, n, "prev", INVALID)
           m3 == Set(m2, h, "prev", n)
           f2 == Put(f, n, h)
           g2 == Put(Put(g, n, INVALID), h, n)
           r  == insert_node_list(m, n)
<1>1. b \in Bucket
  BY BucketOf
<1>2. /\ q \in List(Node) /\ DLinked(f, g, h, q) /\ n \notin Range(q)
      /\ bl \in [Bucket -> List(Node)]
  BY <1>1 DEF BucketShape
<1>3. /\ f \in [Node -> Handlers(Node)] /\ g \in [Node -> Handlers(Node)]
  BY LinkType DEF Links
<1>4. /\ n \in Handlers(Node) /\ INVALID \in Handlers(Node) /\ "next" \in Links /\ "prev" \in Links
      /\ h \in Handlers(Node)
  BY <1>1 DEF Handlers, Links, MapType
<1>5. m1 \in MapType /\ Field(m1, "next") = f2 /\ Same(m, m1, {}, {"next"})
  BY <1>4, SetField
<1> HIDE DEF m1, h
<1>6. m2 \in MapType /\ Field(m2, "prev") = Put(Field(m1, "prev"), n, INVALID) /\ Same(m1, m2, {}, {"prev"})
  BY <1>4, <1>5, SetField
<1> HIDE DEF m2
<1>7. m3 \in MapType /\ Field(m3, "prev") = Put(Field(m2, "prev"), h, n) /\ Same(m2, m3, {}, {"prev"})
  BY <1>4, <1>6, SetField
<1> HIDE DEF m3
<1>8. /\ Field(m3, "next") = f2 /\ Field(m3, "prev") = g2
      /\ Same(m, m3, {}, {"next", "prev"})
  BY <1>5, <1>6, <1>7 DEF Same, NodeFields, Links
<1>9. r = [m3 EXCEPT !.bucket[b] = n, !.used_node_num = @ + 1]
  BY DEF insert_node_list, h, m1, m2, m3
<1>10. m3.used_node_num = m.used_node_num /\ m3.bucket = m.bucket /\ m.bucket \in [Bucket -> Handlers(Node)]
  BY <1>8 DEF Same, MapFields, MapType
<1>11. /\ r \in MapType /\ r.node = m3.node
       /\ r.bucket = [m.bucket EXCEPT ![b] = n]
       /\ r.used_node_num = m.used_node_num + 1
       /\ Same(m3, r, {"bucket", "used_node_num"}, {})
  <2> DEFINE k == m3.used_node_num + 1
  <2>1. r = Rehead(m3, b, n, k) /\ k \in Int
    BY <1>7, <1>9 DEF MapType, Rehead
  <2> HIDE DEF r, k
  <2>2. /\ r \in MapType /\ r.node = m3.node
        /\ r.bucket = [m3.bucket EXCEPT ![b] = n]
        /\ r.used_node_num = k
        /\ Same(m3, r, {"bucket", "used_node_num"}, {})
    BY <1>1, <1>4, <1>7, <2>1, SetBucket
  <2> QED BY <1>10, <2>2 DEF k
<1> HIDE DEF r
<1>12. /\ Same(m, r, {"bucket", "used_node_num"}, {"next", "prev"})
       /\ Field(r, "next") = f2 /\ Field(r, "prev") = g2
  <2>1. Field(r, "next") = Field(m3, "next") /\ Field(r, "prev") = Field(m3, "prev")
    BY <1>11 DEF Field
  <2> HIDE DEF f2, g2
  <2> QED BY <1>8, <1>11, <2>1 DEF Same
<1>13. DLinked(f2, g2, n, p) /\ p \in List(Node)
  BY <1>2, <1>3, PushDLinks, PushList, NodeHandlers
<1>14. \A x \in Node : f2[x] = IF x = n THEN h ELSE f[x]
  BY <1>3, <1>4, NodeHandlers DEF Put
<1>15. \A x \in Node : x # n /\ x # h => g2[x] = g[x]
  BY <1>3, <1>4, NodeHandlers DEF Put
<1>16. h \in Handlers(Range(q))
  BY <1>2, HeadOf DEF DLinked
<1> DEFINE bl2 == PushTo(bl, b, n)
<1>17. bl2 \in [Bucket -> List(Node)] /\ bl2[b] = p /\ \A x \in Bucket \ {b} : bl2[x] = bl[x]
  BY <1>1, <1>2, <1>13 DEF PushTo
<1> HIDE DEF bl2, p, q, f, g, f2, g2
<1>18. ASSUME NEW x \in Bucket \ {b} PROVE DLinked(f2, g2, m.bucket[x], bl[x])
  <2>1. DLinked(f, g, m.bucket[x], bl[x]) /\ bl[x] \in Seq(Node)
    BY DEF BucketShape, f, g, List
  <2>2. \A y \in Range(bl[x]) : y \in Node /\ y # n /\ y # h
    <3>1. Range(bl[x]) \subseteq Node
      BY <2>1, RangeOf
    <3>2. Range(bl[x]) \cap Range(q) = {}
      BY <1>1 DEF Apart, q
    <3> QED BY <1>16, <3>1, <3>2, NodeHandlers DEF Handlers
  <2>3. \A y \in Range(bl[x]) : f2[y] = f[y] /\ g2[y] = g[y]
    BY <1>14, <1>15, <2>2
  <2> QED BY <2>1, <2>3, SameDLinks
<1>19. BucketShape(r, bl2)
  <2>1. ASSUME NEW x \in Bucket PROVE DLinked(f2, g2, r.bucket[x], bl2[x])
    <3>1. CASE x = b
      BY <1>1, <1>10, <1>11, <1>13, <1>17, <3>1
    <3>2. CASE x # b
      BY <1>1, <1>10, <1>11, <1>17, <1>18, <3>2
    <3> QED BY <3>1, <3>2
  <2> QED BY <1>12, <1>17, <2>1 DEF BucketShape
<1>20. r.bucket[b] = n /\ \A x \in Bucket \ {b} : r.bucket[x] = m.bucket[x]
  BY <1>1, <1>10, <1>11
<1> QED BY <1>11, <1>12, <1>14, <1>19, <1>20 DEF r, bl2, f

\* A node leaves the list of its bucket.
LEMMA BucketTake ==
    ASSUME NEW m \in MapType, NEW bl, BucketShape(m, bl), Apart(bl), NEW b \in Bucket,
           NEW j \in 1 .. Len(bl[b]), NEW n, n = bl[b][j], get_bucket_id(m.node[n].key) = b
    PROVE  LET r == delete_from_node_list(m, n)
           IN  /\ r \in MapType
               /\ BucketShape(r, TakeFrom(bl, b, j))
               /\ Same(m, r, {"bucket", "used_node_num"}, {"next", "prev"})
               /\ \A x \in Bucket \ {b} : r.bucket[x] = m.bucket[x]
               /\ r.used_node_num = m.used_node_num - 1
               /\ Field(r, "next")[n] = INVALID /\ Field(r, "prev")[n] = INVALID
               /\ \A x \in Node \ Range(bl[b]) : Field(r, "next")[x] = Field(m, "next")[x]
<1> DEFINE q  == bl[b]
           p  == RemoveAt(q, j)
           f  == Field(m, "next")
           g  == Field(m, "prev")
           h  == m.bucket[b]
           a  == m.node[n].next
           c  == m.node[n].prev
           m1 == Set(m, c, "next", a)
           m2 == Set(m1, a, "prev", c)
           m3 == Set(m2, n, "next", INVALID)
           m4 == Set(m3, n, "prev", INVALID)
           f2 == Put(Put(f, g[n], f[n]), n, INVALID)
           g2 == Put(Put(g, f[n], g[n]), n, INVALID)
           h2 == IF h = n THEN f[n] ELSE h
           r  == delete_from_node_list(m, n)
<1>1. /\ q \in List(Node) /\ DLinked(f, g, h, q)
      /\ bl \in [Bucket -> List(Node)]
  BY DEF BucketShape
<1>2. n \in Node /\ n \in Range(q)
  BY <1>1, RangeOf DEF List
<1>3. /\ f \in [Node -> Handlers(Node)] /\ g \in [Node -> Handlers(Node)]
      /\ m.node[n]["next"] = f[n] /\ m.node[n]["prev"] = g[n]
  BY <1>2, LinkType DEF Links
<1>4. a = f[n] /\ c = g[n] /\ a \in Handlers(Node) /\ c \in Handlers(Node) /\ h \in Handlers(Node)
  BY <1>2, <1>3 DEF MapType
<1>5. n \in Handlers(Node) /\ INVALID \in Handlers(Node) /\ "next" \in Links /\ "prev" \in Links
  BY <1>2 DEF Handlers, Links
<1> HIDE DEF a, c
<1>6. m1 \in MapType /\ Field(m1, "next") = Put(f, c, a) /\ Same(m, m1, {}, {"next"})
  BY <1>4, <1>5, SetField
<1> HIDE DEF m1
<1>7. m2 \in MapType /\ Field(m2, "prev") = Put(Field(m1, "prev"), a, c) /\ Same(m1, m2, {}, {"prev"})
  BY <1>4, <1>5, <1>6, SetField
<1> HIDE DEF m2
<1>8. m3 \in MapType /\ Field(m3, "next") = Put(Field(m2, "next"), n, INVALID) /\ Same(m2, m3, {}, {"next"})
  BY <1>5, <1>7, SetField
<1> HIDE DEF m3
<1>9. m4 \in MapType /\ Field(m4, "prev") = Put(Field(m3, "prev"), n, INVALID) /\ Same(m3, m4, {}, {"prev"})
  BY <1>5, <1>8, SetField
<1> HIDE DEF m4
<1>10. /\ Field(m4, "next") = f2 /\ Field(m4, "prev") = g2
       /\ Same(m, m4, {}, {"next", "prev"})
  BY <1>4, <1>6, <1>7, <1>8, <1>9 DEF Same, NodeFields, Links
<1>11. r = [m4 EXCEPT !.bucket[b] = IF @ = n THEN a ELSE @, !.used_node_num = @ - 1]
  BY DEF delete_from_node_list, a, c, m1, m2, m3, m4
<1>12. m4.used_node_num = m.used_node_num /\ m4.bucket = m.bucket /\ m.bucket \in [Bucket -> Handlers(Node)]
  BY <1>10 DEF Same, MapFields, MapType
<1>13. /\ r \in MapType /\ r.node = m4.node
       /\ r.bucket = [m.bucket EXCEPT ![b] = h2]
       /\ r.used_node_num = m.used_node_num - 1
       /\ Same(m4, r, {"bucket", "used_node_num"}, {})
  <2> DEFINE k == m4.used_node_num - 1
  <2>1. h2 = (IF m4.bucket[b] = n THEN a ELSE m4.bucket[b]) /\ h2 \in Handlers(Node)
    BY <1>4, <1>12
  <2>2. r = Rehead(m4, b, h2, k) /\ k \in Int
    <3> HIDE DEF h2, r
    <3> QED BY <1>9, <1>11, <2>1 DEF MapType, Rehead
  <2> HIDE DEF r, k, h2
  <2>3. /\ r \in MapType /\ r.node = m4.node
        /\ r.bucket = [m4.bucket EXCEPT ![b] = h2]
        /\ r.used_node_num = k
        /\ Same(m4, r, {"bucket", "used_node_num"}, {})
    BY <1>9, <2>1, <2>2, SetBucket
  <2> QED BY <1>12, <2>3 DEF k
<1> HIDE DEF r
<1>14. /\ Same(m, r, {"bucket", "used_node_num"}, {"next", "prev"})
       /\ Field(r, "next") = f2 /\ Field(r, "prev") = g2
  <2>1. Field(r, "next") = Field(m4, "next") /\ Field(r, "prev") = Field(m4, "prev")
    BY <1>13 DEF Field
  <2> HIDE DEF f2, g2
  <2> QED BY <1>10, <1>13, <2>1 DEF Same
<1>15. /\ DLinked(f2, g2, h2, p)
       /\ f2[n] = INVALID /\ g2[n] = INVALID
       /\ \A x \in Node \ Range(q) : f2[x] = f[x] /\ g2[x] = g[x]
  <2>1. n = q[j] /\ j \in 1 .. Len(q) /\ INVALID \notin Node
    BY NodeHandlers
  <2> HIDE DEF f, g, h, q
  <2> DEFINE t == At(q, Len(q))
  <2>2. t = At(q, Len(q))
    OBVIOUS
  <2> HIDE DEF t
  <2> QED BY <1>1, <1>3, <2>1, <2>2, TakeDLinks
<1>16. p \in List(Node)
  BY <1>1, TakeList
<1> DEFINE bl2 == TakeFrom(bl, b, j)
<1>17. bl2 \in [Bucket -> List(Node)] /\ bl2[b] = p /\ \A x \in Bucket \ {b} : bl2[x] = bl[x]
  BY <1>1, <1>16 DEF TakeFrom
<1> HIDE DEF bl2, p, q, f, g, f2, g2, h2
<1>18. ASSUME NEW x \in Bucket \ {b} PROVE DLinked(f2, g2, m.bucket[x], bl[x])
  <2>1. DLinked(f, g, m.bucket[x], bl[x]) /\ bl[x] \in Seq(Node)
    BY DEF BucketShape, f, g, List
  <2>2. \A y \in Range(bl[x]) : y \in Node \ Range(q)
    <3>1. Range(bl[x]) \subseteq Node
      BY <2>1, RangeOf
    <3>2. Range(bl[x]) \cap Range(q) = {}
      BY DEF Apart, q
    <3> QED BY <3>1, <3>2
  <2>3. \A y \in Range(bl[x]) : f2[y] = f[y] /\ g2[y] = g[y]
    BY <1>15, <2>2
  <2> QED BY <2>1, <2>3, SameDLinks
<1>19. BucketShape(r, bl2)
  <2>1. ASSUME NEW x \in Bucket PROVE DLinked(f2, g2, r.bucket[x], bl2[x])
    <3>1. CASE x = b
      BY <1>12, <1>13, <1>15, <1>17, <3>1
    <3>2. CASE x # b
      BY <1>12, <1>13, <1>17, <1>18, <3>2
    <3> QED BY <3>1, <3>2
  <2> QED BY <1>14, <1>17, <2>1 DEF BucketShape
<1>20. \A x \in Bucket \ {b} : r.bucket[x] = m.bucket[x]
  BY <1>12, <1>13
<1> QED BY <1>13, <1>14, <1>15, <1>19, <1>20 DEF r, bl2, f, q

\* Follow gives a list of nodes from its head on.
LEMMA FollowNodes ==
    ASSUME NEW q \in List(Node), NEW next, NEW h, Linked(next, h, q)
    PROVE  Follow(next, h, NodeTotal + 1) = q /\ Len(q) \in 0 .. NodeTotal /\ q \in Seq(Node)
<1>1. Len(q) \in 0 .. NodeTotal /\ q \in Seq(Node)
  BY ListBound, NodeHandlers DEF Node, List
<1>2. NodeTotal + 1 \in Nat /\ NodeTotal + 1 >= Len(q) /\ Node \subseteq Nat \ {0}
  BY <1>1, NodeHandlers
<1>3. Follow(next, h, NodeTotal + 1) = q
  BY <1>1, <1>2, FollowList, ZenonT(60)
<1> QED BY <1>1, <1>3

\* Follow gives the free list, ...
LEMMA FreeListIs ==
    ASSUME NEW m, NEW fl, FreeShape(m, fl)
    PROVE  FreeList(m) = fl /\ Len(fl) \in 0 .. NodeTotal
<1>1. Follow(Field(m, "next"), m.free_list, NodeTotal + 1) = fl /\ Len(fl) \in 0 .. NodeTotal
  BY FollowNodes DEF FreeShape
<1> QED BY <1>1 DEF FreeList, Along, Field

\* ... the list of a bucket, ...
LEMMA BucketListIs ==
    ASSUME NEW m, NEW bl, BucketShape(m, bl), NEW b \in Bucket
    PROVE  BucketList(m, b) = bl[b] /\ (bl[b] = <<>> <=> m.bucket[b] = INVALID)
<1> DEFINE q == bl[b]
<1>1. q \in List(Node) /\ Linked(Field(m, "next"), m.bucket[b], q)
  BY DEF BucketShape, DLinked
<1> HIDE DEF q
<1>2. Follow(Field(m, "next"), m.bucket[b], NodeTotal + 1) = q /\ q \in Seq(Node)
  BY <1>1, FollowNodes
<1>3. q = <<>> <=> m.bucket[b] = INVALID
  <2>1. m.bucket[b] = At(q, 1)
    BY <1>1 DEF Linked
  <2>2. CASE q = <<>>
    <3>1. Len(q) = 0
      BY <2>2, EmptySeq
    <3> QED BY <2>1, <2>2, <3>1 DEF At
  <2>3. CASE q # <<>>
    <3>1. Len(q) \in Nat \ {0}
      BY <1>2, <2>3, EmptySeq
    <3>2. 1 \in 1 .. Len(q)
      BY <3>1
    <3>3. q[1] \in Node
      BY <1>2, <3>2, RangeOf
    <3> QED BY <2>1, <2>3, <3>2, <3>3, NodeHandlers DEF At
  <2> QED BY <2>2, <2>3
<1> QED BY <1>2, <1>3 DEF BucketList, Along, Field, q

\* ... and the add list, also backwards.
LEMMA AddListIs ==
    ASSUME NEW m, NEW al, AddShape(m, al)
    PROVE  AddList(m) = al /\ Along(m, "add_prev", m.add_tail) = Reverse(al)
<1>1. al \in List(Node) /\ DLinked(Field(m, "add_next"), Field(m, "add_prev"), m.add_head, al)
      /\ m.add_tail = At(al, Len(al))
  BY DEF AddShape
<1>2. Follow(Field(m, "add_next"), m.add_head, NodeTotal + 1) = al
      /\ Len(al) \in 0 .. NodeTotal /\ al \in Seq(Node) /\ \A i \in 1 .. Len(al) : al[i] \in Node
  BY <1>1, FollowNodes, RangeOf DEF DLinked
<1> DEFINE q == Reverse(al)
<1>3. q \in Seq(Node) /\ Len(q) = Len(al) /\ \A i \in 1 .. Len(al) : q[i] = al[(Len(al) - i) + 1]
  <2>1. \A i \in 1 .. Len(al) : (Len(al) - i) + 1 \in 1 .. Len(al)
    BY <1>2
  <2> QED BY <1>2, <2>1 DEF Reverse
<1> HIDE DEF q
<1>4. \A i \in 1 .. Len(al) : At(q, i) = al[(Len(al) - i) + 1]
  BY <1>2, <1>3 DEF At
<1>5. Linked(Field(m, "add_prev"), m.add_tail, q)
  <2>1. m.add_tail = At(q, 1)
    BY <1>1, <1>2, <1>3 DEF At
  <2>2. ASSUME NEW i \in 1 .. Len(q) PROVE Field(m, "add_prev")[q[i]] = At(q, i + 1)
    <3> DEFINE k == (Len(al) - i) + 1
    <3>1. k \in 1 .. Len(al) /\ q[i] = al[k]
      BY <1>2, <1>3
    <3>2. Field(m, "add_prev")[al[k]] = At(al, k - 1)
      BY <1>1, <3>1 DEF DLinked
    <3>3. CASE i + 1 \in 1 .. Len(q)
      <4>1. k - 1 \in 1 .. Len(al) /\ (Len(al) - (i + 1)) + 1 = k - 1
        BY <1>2, <1>3, <3>1, <3>3
      <4>2. At(q, i + 1) = al[k - 1]
        BY <1>3, <3>3, <4>1 DEF At
      <4>3. At(al, k - 1) = al[k - 1]
        BY <4>1 DEF At
      <4> QED BY <3>1, <3>2, <4>2, <4>3
    <3>4. CASE i + 1 \notin 1 .. Len(q)
      <4>1. k - 1 \notin 1 .. Len(al)
        BY <1>2, <1>3, <3>1, <3>4
      <4>2. At(q, i + 1) = INVALID /\ At(al, k - 1) = INVALID
        BY <3>4, <4>1 DEF At
      <4> HIDE DEF k
      <4> QED BY <3>1, <3>2, <4>2
    <3> QED BY <3>3, <3>4
  <2> QED BY <2>1, <2>2 DEF Linked
<1>6. q \in List(Node)
  <2>1. ASSUME NEW i \in 1 .. Len(q), NEW j \in 1 .. Len(q), q[i] = q[j] PROVE i = j
    <3>1. (Len(al) - i) + 1 \in 1 .. Len(al) /\ (Len(al) - j) + 1 \in 1 .. Len(al)
      BY <1>2, <1>3
    <3>2. (Len(al) - i) + 1 = (Len(al) - j) + 1
      BY <1>1, <1>3, <2>1, <3>1 DEF List
    <3> QED BY <1>2, <1>3, <3>2
  <2> QED BY <1>3, <2>1 DEF List
<1>7. Follow(Field(m, "add_prev"), m.add_tail, NodeTotal + 1) = q
  BY <1>5, <1>6, FollowNodes
<1> QED BY <1>2, <1>7 DEF AddList, Along, Field, q

\* The buckets that have a node.
UsedBuckets(m) == {b \in Bucket : m.bucket[b] # INVALID}

\* A node with a key enters the list of its bucket.
LEMMA UseNode ==
    ASSUME NEW m \in MapType, NEW bl, BucketShape(m, bl), Apart(bl), NEW n \in Node,
           \A b \in Bucket : n \notin Range(bl[b]),
           NEW key \in Key, NEW len \in Nat, NEW head \in Handlers(Chunk),
           m.used_bucket_num = Cardinality(UsedBuckets(m))
    PROVE  LET r == use_node(m, n, key, len, head)
               b == get_bucket_id(key)
           IN  /\ r \in MapType
               /\ BucketShape(r, PushTo(bl, b, n))
               /\ Same(m, r, {"bucket", "used_node_num", "used_bucket_num"},
                             {"next", "prev", "key", "len", "chunk"})
               /\ r.used_node_num = m.used_node_num + 1
               /\ r.used_bucket_num = Cardinality(UsedBuckets(r))
               /\ \A x \in Node \ {n} : Field(r, "next")[x] = Field(m, "next")[x]
               /\ \A x \in Node : /\ r.node[x].key = IF x = n THEN key ELSE m.node[x].key
                                  /\ r.node[x].len = IF x = n THEN len ELSE m.node[x].len
                                  /\ r.node[x].chunk = IF x = n THEN head ELSE m.node[x].chunk
<1> DEFINE b  == get_bucket_id(key)
           k  == IF BucketList(m, b) = <<>> THEN m.used_bucket_num + 1 ELSE m.used_bucket_num
           w  == [m.node[n] EXCEPT !.key = key, !.len = len, !.chunk = head]
           u  == [m EXCEPT !.node[n] = w, !.used_bucket_num = k]
           r  == use_node(m, n, key, len, head)
<1>1. b \in Bucket
  BY BucketOf
<1> HIDE DEF b
<1>2. r = insert_node_list(u, n)
  BY DEF use_node, b
<1>3. m.node \in [Node -> NodeType] /\ m.node[n] \in NodeType /\ m.used_bucket_num \in Int
  BY DEF MapType
<1>4. w \in NodeType /\ w.key = key /\ w.len = len /\ w.chunk = head
      /\ w.next = m.node[n].next /\ w.prev = m.node[n].prev
      /\ w.add_next = m.node[n].add_next /\ w.add_prev = m.node[n].add_prev
  BY <1>3 DEF NodeType
<1>5. k \in Int
  BY <1>3
<1> HIDE DEF w, k
<1>5a. u = [m EXCEPT !.node[n] = w, !.used_bucket_num = k]
  OBVIOUS
<1> HIDE DEF u
<1>6. u.node = [m.node EXCEPT ![n] = w] /\ u.used_bucket_num = k
      /\ u = [node |-> u.node, bucket |-> m.bucket, free_list |-> m.free_list,
              add_head |-> m.add_head, add_tail |-> m.add_tail,
              used_node_num |-> m.used_node_num, used_bucket_num |-> u.used_bucket_num,
              pool |-> m.pool]
  <2>1. u.node = [m.node EXCEPT ![n] = w]
    BY <1>3, <1>5a DEF MapType
  <2>2. u.used_bucket_num = k
    BY <1>3, <1>5a DEF MapType
  <2>3. u = [node |-> u.node, bucket |-> m.bucket, free_list |-> m.free_list,
             add_head |-> m.add_head, add_tail |-> m.add_tail,
             used_node_num |-> m.used_node_num, used_bucket_num |-> u.used_bucket_num,
             pool |-> m.pool]
    BY <1>5a DEF MapType
  <2> QED BY <2>1, <2>2, <2>3
<1>7. u.node = [m.node EXCEPT ![n] = w] /\ u.used_bucket_num = k /\ u \in MapType
      /\ \A x \in MapFields \ {"used_bucket_num"} : u[x] = m[x]
  BY <1>3, <1>4, <1>5, <1>6 DEF MapType, MapFields
<1> HIDE DEF r
<1>8. \A f \in Links : Field(u, f) = Field(m, f)
  BY <1>3, <1>4, <1>7 DEF Field, Links
<1>9. u.bucket = m.bucket /\ u.used_node_num = m.used_node_num
  BY <1>7 DEF MapFields
<1>10. BucketShape(u, bl)
  BY <1>8, <1>9 DEF BucketShape, Links
<1>11. u.node[n].key = key
  BY <1>3, <1>4, <1>7
<1> DEFINE bl2 == PushTo(bl, b, n)
<1>12. /\ r \in MapType
       /\ BucketShape(r, bl2)
       /\ Same(u, r, {"bucket", "used_node_num"}, {"next", "prev"})
       /\ r.bucket[b] = n /\ \A x \in Bucket \ {b} : r.bucket[x] = u.bucket[x]
       /\ r.used_node_num = u.used_node_num + 1
       /\ \A x \in Node \ {n} : Field(r, "next")[x] = Field(u, "next")[x]
  <2>1. u.node[n].key \in Key /\ b = get_bucket_id(u.node[n].key)
    BY <1>11 DEF b
  <2>2. \A x \in Bucket : n \notin Range(bl[x])
    OBVIOUS
  <2>3. u \in MapType
    BY <1>7
  <2> QED BY <1>2, <1>10, <2>1, <2>2, <2>3, BucketPush
<1>13. /\ \A f \in MapFields \ {"bucket", "used_node_num", "used_bucket_num"} : r[f] = m[f]
       /\ \A f \in Links \ {"next", "prev"} : Field(r, f) = Field(m, f)
       /\ r.used_bucket_num = k
  BY <1>7, <1>8, <1>12 DEF Same, MapFields, NodeFields, Links
<1>14. Same(m, r, {"bucket", "used_node_num", "used_bucket_num"},
                   {"next", "prev", "key", "len", "chunk"})
  BY <1>13 DEF Same, NodeFields, Links
<1>15. \A x \in Node : /\ r.node[x].key = IF x = n THEN key ELSE m.node[x].key
                       /\ r.node[x].len = IF x = n THEN len ELSE m.node[x].len
                       /\ r.node[x].chunk = IF x = n THEN head ELSE m.node[x].chunk
  <2>1. Field(r, "key") = Field(u, "key") /\ Field(r, "len") = Field(u, "len")
        /\ Field(r, "chunk") = Field(u, "chunk")
    BY <1>12 DEF Same, NodeFields
  <2>2. \A x \in Node : /\ r.node[x].key = u.node[x].key /\ r.node[x].len = u.node[x].len
                        /\ r.node[x].chunk = u.node[x].chunk
    <3> SUFFICES ASSUME NEW x \in Node
                 PROVE  /\ r.node[x].key = u.node[x].key /\ r.node[x].len = u.node[x].len
                        /\ r.node[x].chunk = u.node[x].chunk
      OBVIOUS
    <3>1. Field(r, "key")[x] = Field(u, "key")[x] /\ Field(r, "len")[x] = Field(u, "len")[x]
          /\ Field(r, "chunk")[x] = Field(u, "chunk")[x]
      BY <2>1
    <3> QED BY <3>1 DEF Field
  <2> QED BY <1>3, <1>4, <1>7, <2>2
<1>16. r.used_bucket_num = Cardinality(UsedBuckets(r))
  <2>1. m.bucket \in [Bucket -> Handlers(Node)]
    BY DEF MapType
  <2>2. UsedBuckets(r) = UsedBuckets(m) \cup {b}
    BY <1>1, <1>9, <1>12, <2>1, NodeHandlers DEF UsedBuckets
  <2>3. IsFiniteSet(Bucket)
    BY FS_Interval, HashAssumption DEF Bucket
  <2>4. IsFiniteSet(UsedBuckets(m))
    BY <2>3, FS_Subset DEF UsedBuckets
  <2>5. Cardinality(UsedBuckets(r)) = IF b \in UsedBuckets(m) THEN Cardinality(UsedBuckets(m))
                                                              ELSE Cardinality(UsedBuckets(m)) + 1
    BY <2>2, <2>4, FS_AddElement
  <2>6. b \in UsedBuckets(m) <=> BucketList(m, b) # <<>>
    BY <1>1, BucketListIs DEF UsedBuckets
  <2> QED BY <1>13, <2>5, <2>6 DEF k
<1>17. \A x \in Node \ {n} : Field(r, "next")[x] = Field(m, "next")[x]
  BY <1>8, <1>12 DEF Links
<1>18. r.used_node_num = m.used_node_num + 1
  BY <1>9, <1>12
<1> QED BY <1>12, <1>14, <1>15, <1>16, <1>17, <1>18 DEF b, r, bl2

\* A node leaves the list of its bucket, and what it had is freed.
LEMMA FreeNode ==
    ASSUME NEW m \in MapType, NEW bl, BucketShape(m, bl), Apart(bl), NEW b \in Bucket,
           NEW j \in 1 .. Len(bl[b]), NEW n, n = bl[b][j], get_bucket_id(m.node[n].key) = b,
           m.used_bucket_num = Cardinality(UsedBuckets(m)),
           m.node[n].add_next = INVALID, m.node[n].add_prev = INVALID,
           free(m.pool, m.node[n].chunk) \in PoolType
    PROVE  LET r == free_node(m, n)
           IN  /\ r \in MapType
               /\ BucketShape(r, TakeFrom(bl, b, j))
               /\ \A f \in {"free_list", "add_head", "add_tail"} : r[f] = m[f]
               /\ \A f \in {"add_next", "add_prev"} : Field(r, f) = Field(m, f)
               /\ r.pool = free(m.pool, m.node[n].chunk)
               /\ r.used_node_num = m.used_node_num - 1
               /\ r.used_bucket_num = Cardinality(UsedBuckets(r))
               /\ \A x \in Node \ Range(bl[b]) : Field(r, "next")[x] = Field(m, "next")[x]
               /\ \A x \in Node : /\ r.node[x].key = IF x = n THEN NoKey ELSE m.node[x].key
                                  /\ r.node[x].len = IF x = n THEN 0 ELSE m.node[x].len
                                  /\ r.node[x].chunk = IF x = n THEN INVALID ELSE m.node[x].chunk
<1> DEFINE o   == delete_from_node_list(m, n)
           bl2 == TakeFrom(bl, b, j)
           k   == IF BucketList(o, b) = <<>> THEN o.used_bucket_num - 1 ELSE o.used_bucket_num
           p   == free(m.pool, m.node[n].chunk)
           r   == free_node(m, n)
<1>1. n \in Node /\ n \in Range(bl[b]) /\ bl[b] \in List(Node)
  <2>1. bl[b] \in List(Node)
    BY DEF BucketShape
  <2> QED BY <2>1, RangeOf DEF List
<1>2. /\ o \in MapType
      /\ BucketShape(o, bl2)
      /\ Same(m, o, {"bucket", "used_node_num"}, {"next", "prev"})
      /\ \A x \in Bucket \ {b} : o.bucket[x] = m.bucket[x]
      /\ o.used_node_num = m.used_node_num - 1
      /\ Field(o, "next")[n] = INVALID /\ Field(o, "prev")[n] = INVALID
      /\ \A x \in Node \ Range(bl[b]) : Field(o, "next")[x] = Field(m, "next")[x]
  BY BucketTake
<1>3. r = [o EXCEPT !.pool = free(@, m.node[n].chunk), !.used_bucket_num = k, !.node[n] = init_node]
  BY DEF free_node
<1> HIDE DEF o, k, bl2, p, r
<1>4. o.pool = m.pool /\ o.used_bucket_num = m.used_bucket_num
  BY <1>2 DEF Same, MapFields
<1>5. o.node \in [Node -> NodeType] /\ k \in Int
  BY <1>2 DEF MapType, k
<1>6. r = [o EXCEPT !.pool = p, !.used_bucket_num = k, !.node[n] = init_node]
  BY <1>3, <1>4 DEF p
<1>7. init_node \in NodeType
  BY DEF init_node, NodeType, Handlers
<1>8. /\ r.node = [o.node EXCEPT ![n] = init_node]
      /\ r.pool = p /\ r.used_bucket_num = k
      /\ \A f \in MapFields \ {"pool", "used_bucket_num"} : r[f] = o[f]
      /\ r = [node |-> r.node, bucket |-> o.bucket, free_list |-> o.free_list,
              add_head |-> o.add_head, add_tail |-> o.add_tail,
              used_node_num |-> o.used_node_num, used_bucket_num |-> r.used_bucket_num,
              pool |-> r.pool]
  <2>1. r.node = [o.node EXCEPT ![n] = init_node]
    BY <1>2, <1>6 DEF MapType
  <2>2. r.pool = p /\ r.used_bucket_num = k
    BY <1>2, <1>6 DEF MapType
  <2>3. \A f \in MapFields \ {"pool", "used_bucket_num"} : r[f] = o[f]
    BY <1>2, <1>6 DEF MapType, MapFields
  <2>4. r = [node |-> r.node, bucket |-> o.bucket, free_list |-> o.free_list,
             add_head |-> o.add_head, add_tail |-> o.add_tail,
             used_node_num |-> o.used_node_num, used_bucket_num |-> r.used_bucket_num,
             pool |-> r.pool]
    BY <1>2, <1>6 DEF MapType
  <2> QED BY <2>1, <2>2, <2>3, <2>4
<1>9. r \in MapType
  <2>1. r.node \in [Node -> NodeType] /\ r.pool \in PoolType /\ r.used_bucket_num \in Int
    BY <1>1, <1>5, <1>7, <1>8 DEF p
  <2>2. /\ o.bucket \in [Bucket -> Handlers(Node)] /\ o.free_list \in Handlers(Node)
        /\ o.add_head \in Handlers(Node) /\ o.add_tail \in Handlers(Node) /\ o.used_node_num \in Int
    BY <1>2 DEF MapType
  <2> HIDE DEF r
  <2> QED BY <1>8, <2>1, <2>2 DEF MapType
<1>10. \A x \in Node : r.node[x] = IF x = n THEN init_node ELSE o.node[x]
  BY <1>1, <1>5, <1>8
<1>11. /\ o.node[n].add_next = INVALID /\ o.node[n].add_prev = INVALID
       /\ \A x \in Node : /\ o.node[x].key = m.node[x].key /\ o.node[x].len = m.node[x].len
                          /\ o.node[x].chunk = m.node[x].chunk
  <2> SUFFICES ASSUME NEW x \in Node
               PROVE  /\ o.node[n].add_next = INVALID /\ o.node[n].add_prev = INVALID
                      /\ o.node[x].key = m.node[x].key /\ o.node[x].len = m.node[x].len
                      /\ o.node[x].chunk = m.node[x].chunk
    BY <1>1
  <2>1. /\ Field(o, "key")[x] = Field(m, "key")[x] /\ Field(o, "len")[x] = Field(m, "len")[x]
        /\ Field(o, "chunk")[x] = Field(m, "chunk")[x]
        /\ Field(o, "add_next")[n] = Field(m, "add_next")[n]
        /\ Field(o, "add_prev")[n] = Field(m, "add_prev")[n]
    BY <1>2 DEF Same, NodeFields, Links
  <2> QED BY <1>1, <2>1 DEF Field
<1>12. o.node[n].next = INVALID /\ o.node[n].prev = INVALID
  <2>1. Field(o, "next")[n] = INVALID /\ Field(o, "prev")[n] = INVALID
    BY <1>2
  <2> QED BY <1>1, <2>1 DEF Field
<1>13. \A f \in Links : Field(r, f) = Field(o, f)
  BY <1>10, <1>11, <1>12 DEF Field, Links, init_node
<1>14. r.bucket = o.bucket /\ r.used_node_num = o.used_node_num
       /\ r.free_list = o.free_list /\ r.add_head = o.add_head /\ r.add_tail = o.add_tail
  BY <1>8 DEF MapFields
<1>15. BucketShape(r, bl2)
  BY <1>2, <1>13, <1>14 DEF BucketShape, Links
<1>16. /\ \A f \in {"free_list", "add_head", "add_tail"} : r[f] = m[f]
       /\ \A f \in {"add_next", "add_prev"} : Field(r, f) = Field(m, f)
       /\ \A x \in Node \ Range(bl[b]) : Field(r, "next")[x] = Field(m, "next")[x]
  <2>1. \A f \in {"free_list", "add_head", "add_tail"} : o[f] = m[f] /\ r[f] = o[f]
    BY <1>2, <1>8 DEF Same, MapFields
  <2>2. \A f \in {"add_next", "add_prev"} : Field(o, f) = Field(m, f) /\ Field(r, f) = Field(o, f)
    BY <1>2, <1>13 DEF Same, NodeFields, Links
  <2>3. Field(r, "next") = Field(o, "next")
    BY <1>13 DEF Links
  <2> QED BY <1>2, <2>1, <2>2, <2>3
<1>17. \A x \in Node : /\ r.node[x].key = IF x = n THEN NoKey ELSE m.node[x].key
                       /\ r.node[x].len = IF x = n THEN 0 ELSE m.node[x].len
                       /\ r.node[x].chunk = IF x = n THEN INVALID ELSE m.node[x].chunk
  BY <1>10, <1>11 DEF init_node
<1>18. r.used_bucket_num = Cardinality(UsedBuckets(r))
  <2>1. /\ b \in UsedBuckets(m)
        /\ b \in UsedBuckets(r) <=> BucketList(o, b) # <<>>
    <3>1. bl[b] # <<>>
      <4>1. bl[b] = <<>> => Len(bl[b]) = 0
        BY EmptySeq
      <4> QED BY <4>1
    <3>2. BucketList(o, b) = bl2[b] /\ (bl2[b] = <<>> <=> o.bucket[b] = INVALID)
      BY <1>2, BucketListIs
    <3>3. bl[b] = <<>> <=> m.bucket[b] = INVALID
      BY BucketListIs
    <3> QED BY <1>14, <3>1, <3>2, <3>3 DEF UsedBuckets
  <2>2. \A x \in Bucket \ {b} : x \in UsedBuckets(m) <=> x \in UsedBuckets(r)
    BY <1>2, <1>14 DEF UsedBuckets
  <2>3. UsedBuckets(m) \subseteq Bucket /\ UsedBuckets(r) \subseteq Bucket
    BY DEF UsedBuckets
  <2>4. IsFiniteSet(Bucket)
    BY FS_Interval, HashAssumption DEF Bucket
  <2>5. IsFiniteSet(UsedBuckets(m))
    BY <2>3, <2>4, FS_Subset
  <2>6. CASE BucketList(o, b) = <<>>
    <3>1. UsedBuckets(r) = UsedBuckets(m) \ {b}
      BY <2>1, <2>2, <2>3, <2>6
    <3>2. Cardinality(UsedBuckets(m) \ {b}) = Cardinality(UsedBuckets(m)) - 1
      BY <2>1, <2>5, FS_RemoveElement
    <3> QED BY <1>4, <1>8, <2>6, <3>1, <3>2 DEF k
  <2>7. CASE BucketList(o, b) # <<>>
    <3>1. UsedBuckets(r) = UsedBuckets(m)
      <4>1. b \in UsedBuckets(m) /\ b \in UsedBuckets(r)
        BY <2>1, <2>7
      <4>2. \A x \in Bucket : x \in UsedBuckets(m) <=> x \in UsedBuckets(r)
        BY <2>2, <4>1
      <4> QED BY <2>3, <4>2
    <3> QED BY <1>4, <1>8, <2>7, <3>1 DEF k
  <2> QED BY <2>6, <2>7
<1>19. r.pool = free(m.pool, m.node[n].chunk) /\ r.used_node_num = m.used_node_num - 1
  BY <1>2, <1>8, <1>14 DEF p
<1> QED BY <1>9, <1>15, <1>16, <1>17, <1>18, <1>19 DEF r, bl2

-----------------------------------------------------------------------------
(* The chunks                                                              *)

\* A list in two parts.
LEMMA SplitList ==
    ASSUME NEW S, NEW q \in List(S), NEW n \in 0 .. Len(q)
    PROVE  LET a == SubSeq(q, 1, n)
               b == SubSeq(q, n + 1, Len(q))
           IN  /\ a \in List(S) /\ Len(a) = n /\ \A i \in 1 .. n : a[i] = q[i]
               /\ b \in List(S) /\ Len(b) = Len(q) - n /\ \A i \in 1 .. Len(q) - n : b[i] = q[n + i]
               /\ Range(a) \cup Range(b) = Range(q) /\ Range(a) \cap Range(b) = {}
<1> DEFINE a == SubSeq(q, 1, n)
           b == SubSeq(q, n + 1, Len(q))
<1>1. q \in Seq(S) /\ Len(q) \in Nat /\ \A i \in 1 .. Len(q) : q[i] \in S
  BY RangeOf DEF List
<1>2. /\ a \in Seq(S) /\ Len(a) = IF 1 <= n THEN n - 1 + 1 ELSE 0
      /\ \A i \in 1 .. n - 1 + 1 : a[i] = q[1 + i - 1]
  <2>1. \A i \in 1 .. n : q[i] \in S
    BY <1>1
  <2> QED BY <1>1, <2>1, SubSeqProperties
<1>3. /\ b \in Seq(S) /\ Len(b) = IF n + 1 <= Len(q) THEN Len(q) - (n + 1) + 1 ELSE 0
      /\ \A i \in 1 .. Len(q) - (n + 1) + 1 : b[i] = q[(n + 1) + i - 1]
  <2>1. \A i \in n + 1 .. Len(q) : q[i] \in S
    BY <1>1
  <2> QED BY <1>1, <2>1, SubSeqProperties
<1> HIDE DEF a, b
<1>4. Len(a) = n /\ \A i \in 1 .. n : a[i] = q[i]
  <2>1. \A i \in 1 .. n : i \in 1 .. n - 1 + 1 /\ 1 + i - 1 = i
    BY <1>1
  <2> QED BY <1>1, <1>2, <2>1
<1>5. Len(b) = Len(q) - n /\ \A i \in 1 .. Len(q) - n : b[i] = q[n + i]
  <2>1. \A i \in 1 .. Len(q) - n : i \in 1 .. Len(q) - (n + 1) + 1 /\ (n + 1) + i - 1 = n + i
    BY <1>1
  <2> QED BY <1>1, <1>3, <2>1
<1>6. \A i, j \in 1 .. Len(q) : q[i] = q[j] => i = j
  BY DEF List
<1>7. a \in List(S)
  <2>1. \A i, j \in 1 .. Len(a) : a[i] = a[j] => i = j
    BY <1>1, <1>4, <1>6
  <2> QED BY <1>2, <2>1 DEF List
<1>8. b \in List(S)
  <2>1. ASSUME NEW i \in 1 .. Len(b), NEW j \in 1 .. Len(b), b[i] = b[j] PROVE i = j
    <3>1. n + i \in 1 .. Len(q) /\ n + j \in 1 .. Len(q) /\ q[n + i] = q[n + j]
      BY <1>1, <1>5, <2>1
    <3>2. n + i = n + j
      BY <1>6, <3>1
    <3> QED BY <1>1, <3>2
  <2> QED BY <1>3, <2>1 DEF List
<1>9. /\ \A x \in Range(a) : \E i \in 1 .. n : q[i] = x
      /\ \A x \in Range(b) : \E i \in n + 1 .. Len(q) : q[i] = x
      /\ \A x \in Range(q) : \E i \in 1 .. Len(q) : q[i] = x
      /\ \A i \in 1 .. Len(q) : q[i] \in Range(q)
      /\ \A i \in 1 .. n : q[i] \in Range(a)
      /\ \A i \in n + 1 .. Len(q) : q[i] \in Range(b)
  <2>1. \A x \in Range(a) : \E i \in 1 .. n : q[i] = x
    BY <1>2, <1>4, RangeOf
  <2>2. ASSUME NEW x \in Range(b) PROVE \E i \in n + 1 .. Len(q) : q[i] = x
    <3>1. PICK i \in 1 .. Len(b) : b[i] = x
      BY <1>3, RangeOf
    <3>2. n + i \in n + 1 .. Len(q) /\ q[n + i] = x
      BY <1>1, <1>5, <3>1
    <3> QED BY <3>2
  <2>3. \A x \in Range(q) : \E i \in 1 .. Len(q) : q[i] = x
    BY <1>1, RangeOf
  <2>4. \A i \in 1 .. Len(q) : q[i] \in Range(q)
    BY <1>1, RangeOf
  <2>5. ASSUME NEW i \in 1 .. n PROVE q[i] \in Range(a)
    <3>1. i \in 1 .. Len(a) /\ a[i] = q[i]
      BY <1>4
    <3>2. a[i] \in Range(a)
      BY <1>2, <3>1, RangeOf
    <3> QED BY <3>1, <3>2
  <2>6. ASSUME NEW i \in n + 1 .. Len(q) PROVE q[i] \in Range(b)
    <3>1. i - n \in 1 .. Len(b) /\ n + (i - n) = i /\ i - n \in 1 .. Len(q) - n
      BY <1>1, <1>5
    <3>2. b[i - n] \in Range(b) /\ b[i - n] = q[i]
      BY <1>3, <1>5, <3>1, RangeOf
    <3> QED BY <3>2
  <2> QED BY <2>1, <2>2, <2>3, <2>4, <2>5, <2>6
<1>10. Range(a) \cup Range(b) = Range(q)
  <2>1. ASSUME NEW x \in Range(a) \cup Range(b) PROVE x \in Range(q)
    <3>1. \E i \in 1 .. Len(q) : q[i] = x
      BY <1>1, <1>9
    <3> QED BY <1>9, <3>1
  <2>2. ASSUME NEW x \in Range(q) PROVE x \in Range(a) \cup Range(b)
    <3>1. PICK i \in 1 .. Len(q) : q[i] = x
      BY <1>9
    <3>2. i \in 1 .. n \/ i \in n + 1 .. Len(q)
      BY <1>1
    <3> QED BY <1>9, <3>1, <3>2
  <2> QED BY <2>1, <2>2
<1>11. Range(a) \cap Range(b) = {}
  <2> SUFFICES ASSUME NEW x \in Range(a), x \in Range(b) PROVE FALSE
    OBVIOUS
  <2>1. PICK i \in 1 .. n : q[i] = x
    BY <1>9
  <2>2. PICK j \in n + 1 .. Len(q) : q[j] = x
    BY <1>9
  <2> QED BY <1>1, <1>6, <2>1, <2>2
<1> QED BY <1>4, <1>5, <1>7, <1>8, <1>10, <1>11 DEF a, b

\* A list backwards.
LEMMA ReverseList ==
    ASSUME NEW S, NEW q \in List(S)
    PROVE  /\ Reverse(q) \in List(S) /\ Len(Reverse(q)) = Len(q)
           /\ \A i \in 1 .. Len(q) : Reverse(q)[i] = q[(Len(q) - i) + 1]
           /\ Range(Reverse(q)) = Range(q)
<1> DEFINE r == Reverse(q)
<1>1. q \in Seq(S) /\ Len(q) \in Nat /\ \A i \in 1 .. Len(q) : q[i] \in S
  BY RangeOf DEF List
<1>2. r \in Seq(S) /\ Len(r) = Len(q) /\ \A i \in 1 .. Len(q) : r[i] = q[(Len(q) - i) + 1]
  <2>1. \A i \in 1 .. Len(q) : (Len(q) - i) + 1 \in 1 .. Len(q)
    BY <1>1
  <2> QED BY <1>1, <2>1 DEF Reverse
<1> HIDE DEF r
<1>3. r \in List(S)
  <2>1. ASSUME NEW i \in 1 .. Len(r), NEW j \in 1 .. Len(r), r[i] = r[j] PROVE i = j
    <3>1. (Len(q) - i) + 1 \in 1 .. Len(q) /\ (Len(q) - j) + 1 \in 1 .. Len(q)
      BY <1>1, <1>2
    <3>2. (Len(q) - i) + 1 = (Len(q) - j) + 1
      BY <1>2, <2>1, <3>1 DEF List
    <3> QED BY <1>1, <1>2, <3>2
  <2> QED BY <1>2, <2>1 DEF List
<1>4. Range(r) = Range(q)
  <2>1. ASSUME NEW x \in Range(r) PROVE x \in Range(q)
    <3>1. PICK i \in 1 .. Len(r) : r[i] = x
      BY <1>2, RangeOf
    <3>2. (Len(q) - i) + 1 \in 1 .. Len(q) /\ q[(Len(q) - i) + 1] = x
      BY <1>1, <1>2, <3>1
    <3> QED BY <1>1, <3>2, RangeOf
  <2>2. ASSUME NEW x \in Range(q) PROVE x \in Range(r)
    <3>1. PICK i \in 1 .. Len(q) : q[i] = x
      BY <1>1, RangeOf
    <3>2. (Len(q) - i) + 1 \in 1 .. Len(r) /\ (Len(q) - ((Len(q) - i) + 1)) + 1 = i
      BY <1>1, <1>2
    <3>3. r[(Len(q) - i) + 1] = x
      BY <1>2, <3>1, <3>2
    <3> QED BY <1>2, <3>2, <3>3, RangeOf
  <2> QED BY <2>1, <2>2
<1> QED BY <1>2, <1>3, <1>4 DEF r

\* Two lists without a common element, one after the other.
LEMMA JoinList ==
    ASSUME NEW S, NEW a \in List(S), NEW b \in List(S), Range(a) \cap Range(b) = {}
    PROVE  /\ a \o b \in List(S) /\ Len(a \o b) = Len(a) + Len(b)
           /\ \A i \in 1 .. Len(a) + Len(b) : (a \o b)[i] = IF i <= Len(a) THEN a[i] ELSE b[i - Len(a)]
           /\ Range(a \o b) = Range(a) \cup Range(b)
<1> DEFINE r == a \o b
<1>1. /\ a \in Seq(S) /\ Len(a) \in Nat /\ \A i \in 1 .. Len(a) : a[i] \in Range(a)
      /\ b \in Seq(S) /\ Len(b) \in Nat /\ \A i \in 1 .. Len(b) : b[i] \in Range(b)
  BY RangeOf DEF List
<1>2. /\ r \in Seq(S) /\ Len(r) = Len(a) + Len(b)
      /\ \A i \in 1 .. Len(a) + Len(b) : r[i] = IF i <= Len(a) THEN a[i] ELSE b[i - Len(a)]
  BY <1>1, ConcatProperties
<1>3. Range(r) = Range(a) \cup Range(b)
  BY <1>1, RangeConcatenation
<1> HIDE DEF r
<1>4. ASSUME NEW i \in 1 .. Len(r), NEW j \in 1 .. Len(r), r[i] = r[j] PROVE i = j
  <2>1. \A k \in 1 .. Len(r) : \/ k <= Len(a) /\ k \in 1 .. Len(a) /\ r[k] = a[k]
                               \/ ~(k <= Len(a)) /\ k - Len(a) \in 1 .. Len(b) /\ r[k] = b[k - Len(a)]
    BY <1>1, <1>2
  <2>2. CASE i <= Len(a) /\ j <= Len(a)
    BY <1>4, <2>1, <2>2 DEF List
  <2>3. CASE ~(i <= Len(a)) /\ ~(j <= Len(a))
    <3>1. i - Len(a) = j - Len(a)
      BY <1>4, <2>1, <2>3 DEF List
    <3> QED BY <1>1, <1>2, <3>1
  <2>4. CASE ~(i <= Len(a) <=> j <= Len(a))
    BY <1>1, <1>4, <2>1, <2>4
  <2> QED BY <2>2, <2>3, <2>4
<1>5. r \in List(S)
  BY <1>2, <1>4 DEF List
<1> QED BY <1>2, <1>3, <1>5 DEF r

\* The place of an element.
LEMMA IndexOf ==
    ASSUME NEW S, NEW q \in List(S), NEW i \in 1 .. Len(q)
    PROVE  (CHOOSE j \in 1 .. Len(q) : q[j] = q[i]) = i
BY DEF List

\* The elements of q are linked backwards, and to those of p.
LEMMA RelinkList ==
    ASSUME NEW S, NEW q \in List(S), NEW p \in List(S), Range(q) \cap Range(p) = {},
           NEW f, NEW h, Linked(f, h, p),
           \A i \in 1 .. Len(q) : f[q[i]] = IF i = 1 THEN h ELSE q[i - 1]
    PROVE  Linked(f, IF Len(q) = 0 THEN h ELSE q[Len(q)], Reverse(q) \o p)
<1> DEFINE a == Reverse(q)
           r == a \o p
           n == Len(q)
<1>1. a \in List(S) /\ Len(a) = n /\ (\A i \in 1 .. n : a[i] = q[(n - i) + 1]) /\ Range(a) = Range(q)
  BY ReverseList
<1>2. n \in Nat /\ Len(p) \in Nat
  BY LenProperties DEF List
<1>3. /\ Len(r) = n + Len(p)
      /\ \A i \in 1 .. n + Len(p) : r[i] = IF i <= n THEN a[i] ELSE p[i - n]
  <2> HIDE DEF a
  <2>1. Range(a) \cap Range(p) = {} /\ a \in List(S)
    BY <1>1
  <2>2. /\ Len(r) = Len(a) + Len(p)
        /\ \A i \in 1 .. Len(a) + Len(p) : r[i] = IF i <= Len(a) THEN a[i] ELSE p[i - Len(a)]
    BY <2>1, JoinList
  <2> QED BY <1>1, <2>2
<1>4. h = At(p, 1) /\ \A i \in 1 .. Len(p) : f[p[i]] = At(p, i + 1)
  BY DEF Linked
<1> HIDE DEF a, r
<1>5. \A i \in 1 .. Len(p) + 1 : At(r, n + i) = At(p, i)
  <2> SUFFICES ASSUME NEW i \in 1 .. Len(p) + 1 PROVE At(r, n + i) = At(p, i)
    OBVIOUS
  <2>1. (n + i \in 1 .. Len(r) <=> i \in 1 .. Len(p)) /\ ~(n + i <= n) /\ (n + i) - n = i
    BY <1>2, <1>3
  <2> QED BY <1>2, <1>3, <2>1 DEF At
<1>6. (IF n = 0 THEN h ELSE q[n]) = At(r, 1)
  <2>1. CASE n = 0
    BY <1>2, <1>4, <1>5, <2>1
  <2>2. CASE n # 0
    <3>1. 1 \in 1 .. n /\ 1 \in 1 .. Len(r) /\ (n - 1) + 1 = n /\ 1 \in 1 .. n + Len(p) /\ 1 <= n
      BY <1>2, <1>3, <2>2
    <3> HIDE DEF n
    <3>2. At(r, 1) = a[1] /\ a[1] = q[n]
      BY <1>1, <1>3, <3>1 DEF At
    <3> QED BY <2>2, <3>2
  <2> QED BY <2>1, <2>2
<1>7. ASSUME NEW i \in 1 .. Len(r) PROVE f[r[i]] = At(r, i + 1)
  <2>1. CASE i <= n
    <3> DEFINE k == (n - i) + 1
    <3>1. k \in 1 .. n /\ i \in 1 .. n /\ r[i] = q[k]
      BY <1>1, <1>2, <1>3, <2>1
    <3>2. f[r[i]] = IF k = 1 THEN h ELSE q[k - 1]
      BY <3>1
    <3>3. CASE k = 1
      <4>1. i = n
        BY <1>2, <2>1, <3>3
      <4>2. At(r, n + 1) = At(p, 1)
        BY <1>2, <1>5
      <4> QED BY <1>4, <3>2, <3>3, <4>1, <4>2
    <3>4. CASE k # 1
      <4>1. /\ i + 1 \in 1 .. n /\ i + 1 <= n /\ i + 1 \in 1 .. n + Len(p) /\ i + 1 \in 1 .. Len(r)
            /\ (n - (i + 1)) + 1 = k - 1
        BY <1>2, <1>3, <2>1, <3>1, <3>4
      <4>2. At(r, i + 1) = q[k - 1]
        BY <1>1, <1>3, <4>1 DEF At
      <4> HIDE DEF k
      <4> QED BY <3>2, <3>4, <4>2
    <3> QED BY <3>3, <3>4
  <2>2. CASE ~(i <= n)
    <3>1. i - n \in 1 .. Len(p) /\ n + ((i - n) + 1) = i + 1 /\ (i - n) + 1 \in 1 .. Len(p) + 1
      BY <1>2, <1>3, <2>2
    <3>2. r[i] = p[i - n] /\ f[p[i - n]] = At(p, (i - n) + 1)
      BY <1>3, <1>4, <2>2, <3>1
    <3>3. At(r, n + ((i - n) + 1)) = At(p, (i - n) + 1)
      BY <1>5, <3>1
    <3> QED BY <3>1, <3>2, <3>3
  <2> QED BY <2>1, <2>2
<1> QED BY <1>6, <1>7 DEF Linked, r, a

\* Follow gives a list of chunks from its head on.
LEMMA FollowChunks ==
    ASSUME NEW q \in List(Chunk), NEW next, NEW h, Linked(next, h, q)
    PROVE  Follow(next, h, ChunkTotal + 1) = q /\ Len(q) \in 0 .. ChunkTotal /\ q \in Seq(Chunk)
<1>1. Len(q) \in 0 .. ChunkTotal /\ q \in Seq(Chunk)
  BY ListBound, NodeHandlers DEF Chunk, List
<1>2. ChunkTotal + 1 \in Nat /\ ChunkTotal + 1 >= Len(q) /\ Chunk \subseteq Nat \ {0}
  BY <1>1, NodeHandlers
<1>3. Follow(next, h, ChunkTotal + 1) = q
  BY <1>1, <1>2, FollowList, ZenonT(60)
<1> QED BY <1>1, <1>3

\* A list whose elements are linked backwards, to one that is there.
LEMMA BackwardsList ==
    ASSUME NEW q \in List(Chunk), NEW p \in List(Chunk), Range(q) \cap Range(p) = {},
           NEW next \in [Chunk -> Handlers(Chunk)], NEW h \in Handlers(Chunk), Linked(next, h, p)
    PROVE  LET f == Backwards(next, q, h)
           IN  /\ f \in [Chunk -> Handlers(Chunk)]
               /\ Linked(f, IF Len(q) = 0 THEN h ELSE q[Len(q)], Reverse(q) \o p)
               /\ \A c \in Chunk \ Range(q) : f[c] = next[c]
<1> DEFINE f == Backwards(next, q, h)
<1>1. q \in Seq(Chunk) /\ Len(q) \in Nat /\ \A i \in 1 .. Len(q) : q[i] \in Chunk /\ q[i] \in Range(q)
  BY RangeOf DEF List
<1>2. ASSUME NEW i \in 1 .. Len(q) PROVE f[q[i]] = IF i = 1 THEN h ELSE q[i - 1]
  <2>1. (CHOOSE j \in 1 .. Len(q) : q[j] = q[i]) = i
    BY IndexOf
  <2>2. Contains(q, q[i])
    BY DEF Contains
  <2> QED BY <1>1, <2>1, <2>2 DEF Backwards
<1>3. \A c \in Chunk \ Range(q) : f[c] = next[c]
  <2>1. \A c \in Chunk \ Range(q) : ~Contains(q, c)
    BY <1>1 DEF Contains
  <2> QED BY <2>1 DEF Backwards
<1>4. f \in [Chunk -> Handlers(Chunk)]
  <2>1. ASSUME NEW c \in Chunk PROVE f[c] \in Handlers(Chunk)
    <3>1. CASE c \in Range(q)
      <4>1. PICK i \in 1 .. Len(q) : q[i] = c
        BY <1>1, <3>1, RangeOf
      <4>2. i # 1 => i - 1 \in 1 .. Len(q)
        BY <1>1
      <4>3. f[c] = IF i = 1 THEN h ELSE q[i - 1]
        BY <1>2, <4>1
      <4> QED BY <1>1, <4>2, <4>3 DEF Handlers
    <3>2. CASE c \notin Range(q)
      BY <1>3, <3>2
    <3> QED BY <3>1, <3>2
  <2>2. f = [c \in Chunk |-> f[c]]
    BY DEF Backwards
  <2> HIDE DEF f
  <2> QED BY <2>1, <2>2
<1> HIDE DEF f
<1>5. Linked(f, h, p)
  <2>1. \A c \in Range(p) : f[c] = next[c]
    <3>1. Range(p) \subseteq Chunk
      BY RangeOf DEF List
    <3> QED BY <1>3, <3>1
  <2>2. p \in Seq(Chunk)
    BY DEF List
  <2> QED BY <2>1, <2>2, SameLinks
<1>6. Linked(f, IF Len(q) = 0 THEN h ELSE q[Len(q)], Reverse(q) \o p)
  BY <1>2, <1>5, RelinkList
<1> QED BY <1>3, <1>4, <1>6 DEF f

\* What malloc leaves of the pool, and gives.
LEMMA Malloc ==
    ASSUME NEW p \in PoolType, NEW fc \in List(Chunk), Linked(p.next, p.free_list, fc),
           p.free_total = Len(fc), NEW n \in 1 .. Len(fc)
    PROVE  LET r == malloc(p, n)
               a == SubSeq(fc, 1, n)
               b == SubSeq(fc, n + 1, Len(fc))
           IN  /\ r.pool \in PoolType
               /\ Linked(r.pool.next, r.pool.free_list, b) /\ r.pool.free_total = Len(b)
               /\ Linked(r.pool.next, r.head, Reverse(a)) /\ r.head \in Chunk
               /\ \A c \in Chunk \ Range(a) : r.pool.next[c] = p.next[c]
               /\ r.pool.data = p.data
<1> DEFINE r == malloc(p, n)
           a == SubSeq(fc, 1, n)
           b == SubSeq(fc, n + 1, Len(fc))
           f == Backwards(p.next, a, INVALID)
<1>1. /\ fc \in Seq(Chunk) /\ Len(fc) \in Nat /\ n \in 0 .. Len(fc)
      /\ \A i \in 1 .. Len(fc) : fc[i] \in Chunk
  BY RangeOf DEF List
<1>2. /\ a \in List(Chunk) /\ Len(a) = n /\ \A i \in 1 .. n : a[i] = fc[i]
      /\ b \in List(Chunk) /\ Len(b) = Len(fc) - n /\ \A i \in 1 .. Len(fc) - n : b[i] = fc[n + i]
      /\ Range(a) \cup Range(b) = Range(fc) /\ Range(a) \cap Range(b) = {}
  BY <1>1, SplitList
<1>3. Follow(p.next, p.free_list, n) = a
  <2>1. n \in Nat /\ n <= Len(fc) /\ Chunk \subseteq Nat \ {0} /\ fc \in Seq(Chunk)
    BY <1>1, NodeHandlers
  <2> HIDE DEF b, f, r
  <2> QED BY <2>1, FollowList, ZenonT(60)
<1>4. /\ p.next \in [Chunk -> Handlers(Chunk)] /\ p.free_list \in Handlers(Chunk)
      /\ p.free_total \in Int /\ p.data \in [Chunk -> Seq(Octet)]
      /\ p = [next |-> p.next, data |-> p.data, free_list |-> p.free_list, free_total |-> p.free_total]
  BY DEF PoolType
<1>5. ~Refused(p, n)
  BY <1>1 DEF Refused
<1> HIDE DEF a, b
<1>5a. r = [pool |-> [p EXCEPT !.next = f, !.free_list = p.next[a[n]], !.free_total = p.free_total - n],
            head |-> a[n]]
  BY <1>3, <1>5 DEF malloc
<1> HIDE DEF f, r
<1>6. r = [pool |-> [next |-> f, data |-> p.data, free_list |-> p.next[a[n]],
                     free_total |-> p.free_total - n], head |-> a[n]]
  BY <1>4, <1>5a
<1> DEFINE z == <<>>
<1>7. z \in List(Chunk) /\ Len(z) = 0 /\ Range(z) = {} /\ Linked(p.next, INVALID, z)
  <2>1. z \in Seq(Chunk) /\ Len(z) = 0 /\ Range(z) = {}
    BY EmptySeq DEF Range
  <2> QED BY <2>1 DEF List, Linked, At
<1>8. /\ f \in [Chunk -> Handlers(Chunk)]
      /\ Linked(f, IF Len(a) = 0 THEN INVALID ELSE a[Len(a)], Reverse(a) \o z)
      /\ \A c \in Chunk \ Range(a) : f[c] = p.next[c]
  <2>1. Range(a) \cap Range(z) = {} /\ INVALID \in Handlers(Chunk)
    BY <1>7 DEF Handlers
  <2>2. a \in List(Chunk) /\ z \in List(Chunk) /\ Linked(p.next, INVALID, z)
        /\ p.next \in [Chunk -> Handlers(Chunk)]
    BY <1>2, <1>4, <1>7
  <2> HIDE DEF z
  <2> QED BY <2>1, <2>2, BackwardsList DEF f
<1>9. Reverse(a) \o z = Reverse(a)
  <2>1. Reverse(a) \in Seq(Chunk)
    BY <1>2, ReverseList DEF List
  <2> QED BY <2>1, ConcatEmptySeq
<1>10. Linked(f, a[n], Reverse(a)) /\ a[n] \in Chunk
  BY <1>1, <1>2, <1>8, <1>9
<1> HIDE DEF f
<1>11. Linked(f, p.next[a[n]], b)
  <2>1. fc[n] = a[n] /\ p.next[fc[n]] = At(fc, n + 1)
    BY <1>1, <1>2 DEF Linked
  <2>2. \A i \in 1 .. Len(fc) - n + 1 : At(b, i) = At(fc, n + i)
    <3> SUFFICES ASSUME NEW i \in 1 .. Len(fc) - n + 1 PROVE At(b, i) = At(fc, n + i)
      OBVIOUS
    <3>1. i \in 1 .. Len(b) <=> n + i \in 1 .. Len(fc)
      BY <1>1, <1>2
    <3>2. i \in 1 .. Len(b) => b[i] = fc[n + i]
      BY <1>2
    <3> QED BY <3>1, <3>2 DEF At
  <2>3. p.next[a[n]] = At(b, 1)
    BY <1>1, <2>1, <2>2
  <2>4. ASSUME NEW i \in 1 .. Len(b) PROVE f[b[i]] = At(b, i + 1)
    <3>1. b[i] \in Chunk /\ b[i] \notin Range(a) /\ b[i] = fc[n + i] /\ n + i \in 1 .. Len(fc)
      <4>1. b \in Seq(Chunk)
        BY <1>2 DEF List
      <4>2. b[i] \in Range(b) /\ b[i] \in Chunk
        BY <4>1, RangeOf
      <4> QED BY <1>1, <1>2, <4>2
    <3>2. f[b[i]] = At(fc, (n + i) + 1)
      BY <1>8, <3>1 DEF Linked
    <3>3. (n + i) + 1 = n + (i + 1) /\ i + 1 \in 1 .. Len(fc) - n + 1
      BY <1>1, <1>2
    <3> QED BY <2>2, <3>2, <3>3
  <2> QED BY <2>3, <2>4 DEF Linked
<1>12. p.next[a[n]] \in Handlers(Chunk) /\ p.free_total - n \in Int /\ p.free_total - n = Len(b)
  BY <1>1, <1>2, <1>4, <1>10
<1>13. r.pool \in PoolType
  BY <1>4, <1>6, <1>8, <1>12 DEF PoolType
<1> QED BY <1>6, <1>8, <1>10, <1>11, <1>12, <1>13, SMTT(30) DEF r, a, b

\* What free leaves of the pool.
LEMMA Free ==
    ASSUME NEW p \in PoolType, NEW fc \in List(Chunk), Linked(p.next, p.free_list, fc),
           p.free_total = Len(fc), NEW q \in List(Chunk), NEW h, Linked(p.next, h, q),
           Range(q) \cap Range(fc) = {}
    PROVE  LET r == free(p, h)
               b == Reverse(q) \o fc
           IN  /\ r \in PoolType
               /\ b \in List(Chunk) /\ Range(b) = Range(q) \cup Range(fc)
               /\ Linked(r.next, r.free_list, b) /\ r.free_total = Len(b)
               /\ Len(b) = Len(q) + Len(fc)
               /\ \A c \in Chunk \ Range(q) : r.next[c] = p.next[c] /\ r.data[c] = p.data[c]
<1> DEFINE r == free(p, h)
           b == Reverse(q) \o fc
           f == Backwards(p.next, q, p.free_list)
           d == [c \in Chunk |-> IF Contains(q, c) THEN <<>> ELSE p.data[c]]
<1>1. /\ q \in Seq(Chunk) /\ Len(q) \in Nat /\ Len(fc) \in Nat
      /\ \A i \in 1 .. Len(q) : q[i] \in Chunk /\ q[i] \in Range(q)
      /\ Follow(p.next, h, ChunkTotal + 1) = q
  BY FollowChunks, RangeOf, LenProperties DEF List
<1>2. /\ p.next \in [Chunk -> Handlers(Chunk)] /\ p.free_list \in Handlers(Chunk)
      /\ p.free_total \in Int /\ p.data \in [Chunk -> Seq(Octet)]
      /\ p = [next |-> p.next, data |-> p.data, free_list |-> p.free_list, free_total |-> p.free_total]
  BY DEF PoolType
<1>3. /\ Reverse(q) \in List(Chunk) /\ Len(Reverse(q)) = Len(q) /\ Range(Reverse(q)) = Range(q)
  BY ReverseList
<1>4. b \in List(Chunk) /\ Range(b) = Range(q) \cup Range(fc) /\ Len(b) = Len(q) + Len(fc)
  <2> DEFINE a == Reverse(q)
  <2>1. a \in List(Chunk) /\ Range(a) \cap Range(fc) = {} /\ Len(a) = Len(q) /\ Range(a) = Range(q)
    BY <1>3
  <2> HIDE DEF a, f, d, r
  <2> DEFINE c == a \o fc
  <2>2. \A x \in List(Chunk) : \A y \in List(Chunk) : Range(x) \cap Range(y) = {} =>
             /\ x \o y \in List(Chunk) /\ Len(x \o y) = Len(x) + Len(y)
             /\ Range(x \o y) = Range(x) \cup Range(y)
    BY JoinList
  <2>3. c \in List(Chunk) /\ Range(c) = Range(a) \cup Range(fc) /\ Len(c) = Len(a) + Len(fc)
    BY <2>1, <2>2
  <2> QED BY <2>1, <2>3 DEF a
<1>5. /\ f \in [Chunk -> Handlers(Chunk)]
      /\ Linked(f, IF Len(q) = 0 THEN p.free_list ELSE q[Len(q)], b)
      /\ \A c \in Chunk \ Range(q) : f[c] = p.next[c]
  <2>1. /\ p.next \in [Chunk -> Handlers(Chunk)] /\ p.free_list \in Handlers(Chunk)
        /\ Linked(p.next, p.free_list, fc) /\ Range(q) \cap Range(fc) = {}
    BY <1>2
  <2> HIDE DEF d, r
  <2> QED BY <2>1, BackwardsList
<1> HIDE DEF b
<1>6. CASE h = INVALID
  <2>1. Len(q) = 0
    <3>1. h = At(q, 1)
      BY DEF Linked
    <3> QED BY <1>1, <1>6, <3>1, NodeHandlers DEF At
  <2>2. r = p
    BY <1>6 DEF free
  <2>3. \A c \in Chunk : f[c] = p.next[c]
    <3>1. \A x \in Range(q) : \E i \in 1 .. Len(q) : q[i] = x
      BY <1>1, RangeOf
    <3>2. Range(q) = {}
      BY <2>1, <3>1
    <3> HIDE DEF f
    <3> QED BY <1>5, <3>2
  <2>4. Linked(p.next, p.free_list, b)
    <3>1. \A c \in Range(b) : p.next[c] = f[c]
      <4>1. Range(b) \subseteq Chunk
        BY <1>4, RangeOf DEF List
      <4> QED BY <2>3, <4>1
    <3>2. Linked(f, p.free_list, b) /\ b \in Seq(Chunk)
      BY <1>4, <1>5, <2>1 DEF List
    <3> HIDE DEF f
    <3> QED BY <3>1, <3>2, SameLinks
  <2> QED BY <1>1, <1>4, <2>1, <2>2, <2>4 DEF r, b
<1>7. CASE h # INVALID
  <2>1. Len(q) # 0
    BY <1>1, <1>7 DEF Linked, At
  <2>2. r = [next |-> f, data |-> d, free_list |-> q[Len(q)], free_total |-> p.free_total + Len(q)]
    <3>1. Chain(p, h) = q
      BY <1>1 DEF Chain
    <3>2. r = [p EXCEPT !.next = f, !.data = [c \in Chunk |-> IF Contains(q, c) THEN <<>> ELSE @[c]],
                        !.free_list = Last(q), !.free_total = @ + Len(q)]
      BY <1>7, <3>1 DEF free
    <3>3. r = [p EXCEPT !.next = f, !.data = d, !.free_list = q[Len(q)], !.free_total = p.free_total + Len(q)]
      BY <1>2, <3>2 DEF Last
    <3> HIDE DEF f, d, r
    <3> QED BY <1>2, <3>3
  <2>3. d \in [Chunk -> Seq(Octet)] /\ \A c \in Chunk \ Range(q) : d[c] = p.data[c]
    <3>1. <<>> \in Seq(Octet)
      BY EmptySeq
    <3>2. \A c \in Chunk \ Range(q) : ~Contains(q, c)
      BY <1>1 DEF Contains
    <3> QED BY <1>2, <3>1, <3>2
  <2>4. q[Len(q)] \in Chunk /\ p.free_total + Len(q) \in Int /\ p.free_total + Len(q) = Len(b)
    BY <1>1, <1>4, <2>1
  <2> HIDE DEF f, d, r
  <2>5. r \in PoolType
    BY <1>5, <2>2, <2>3, <2>4 DEF PoolType, Handlers
  <2>6. Linked(r.next, r.free_list, b)
    BY <1>5, <2>1, <2>2
  <2> QED BY <1>4, <1>5, <2>2, <2>3, <2>4, <2>5, <2>6 DEF r, b
<1> QED BY <1>6, <1>7

\* f with another value at n
With(f, n, v) == [f EXCEPT ![n] = v]

\* The chunks of the free list are fc, and those of each node n, from hd[n] on,
\* are ch[n]: every chunk is in one of these lists.
PoolLinks(p, hd, fc, ch) ==
    /\ p \in PoolType /\ hd \in [Node -> Handlers(Chunk)]
    /\ fc \in List(Chunk) /\ Linked(p.next, p.free_list, fc) /\ p.free_total = Len(fc)
    /\ ch \in [Node -> List(Chunk)]
    /\ \A n \in Node : Linked(p.next, hd[n], ch[n]) /\ Range(ch[n]) \cap Range(fc) = {}
    /\ \A n1, n2 \in Node : n1 # n2 => Range(ch[n1]) \cap Range(ch[n2]) = {}
    /\ \A c \in Chunk : c \in Range(fc) \/ \E n \in Node : c \in Range(ch[n])

\* the i-th part of a data
Part(data, i) == SubSeq(data, Extent(Len(data), i)[1], Extent(Len(data), i)[2])

\* The chunks q hold a data.
HoldsData(p, q, data) == /\ Len(q) = get_chunk_num(Len(data))
                         /\ \A i \in 1 .. Len(q) : p.data[q[i]] = Part(data, i)

\* The chunks of each node n hold D[n].
PoolData(p, ch, D) == /\ D \in [Node -> Seq(Octet)]
                      /\ \A n \in Node : HoldsData(p, ch[n], D[n])

\* A node has other chunks, from among those it had and those that were free.
LEMMA Reshape ==
    ASSUME NEW p, NEW hd, NEW fc, NEW ch, PoolLinks(p, hd, fc, ch), NEW n \in Node,
           NEW r \in PoolType, NEW fc2 \in List(Chunk), NEW q \in List(Chunk), NEW h \in Handlers(Chunk),
           Linked(r.next, r.free_list, fc2), r.free_total = Len(fc2), Linked(r.next, h, q),
           Range(q) \cap Range(fc2) = {}, Range(q) \cup Range(fc2) = Range(ch[n]) \cup Range(fc),
           \A c \in Chunk \ (Range(ch[n]) \cup Range(fc)) : r.next[c] = p.next[c]
    PROVE  PoolLinks(r, With(hd, n, h), fc2, With(ch, n, q))
<1> DEFINE hd2 == With(hd, n, h)
           ch2 == With(ch, n, q)
<1>1. /\ hd2 \in [Node -> Handlers(Chunk)]
      /\ \A x \in Node : hd2[x] = IF x = n THEN h ELSE hd[x]
  <2>1. hd \in [Node -> Handlers(Chunk)]
    BY DEF PoolLinks
  <2> QED BY <2>1 DEF With
<1>2. /\ ch2 \in [Node -> List(Chunk)]
      /\ \A x \in Node : ch2[x] = IF x = n THEN q ELSE ch[x]
  <2>1. ch \in [Node -> List(Chunk)]
    BY DEF PoolLinks
  <2> QED BY <2>1 DEF With
<1> HIDE DEF hd2, ch2
<1>3. \A x \in Node : ch[x] \in List(Chunk) /\ ch[x] \in Seq(Chunk) /\ Range(ch[x]) \subseteq Chunk
  <2>1. \A x \in Node : ch[x] \in List(Chunk)
    BY DEF PoolLinks
  <2> QED BY <2>1, RangeOf DEF List
<1>4. \A x \in Node \ {n} : Range(ch[x]) \cap (Range(ch[n]) \cup Range(fc)) = {}
  BY DEF PoolLinks
<1>5. ASSUME NEW x \in Node PROVE Linked(r.next, hd2[x], ch2[x]) /\ Range(ch2[x]) \cap Range(fc2) = {}
  <2>1. CASE x = n
    BY <1>1, <1>2, <2>1
  <2>2. CASE x # n
    <3>1. Linked(p.next, hd[x], ch[x])
      BY DEF PoolLinks
    <3>2. \A c \in Range(ch[x]) : r.next[c] = p.next[c]
      BY <1>3, <1>4, <2>2
    <3>3. ch[x] \in Seq(Chunk)
      BY <1>3
    <3>4. Linked(r.next, hd[x], ch[x])
      BY <3>1, <3>2, <3>3, SameLinks
    <3>5. Range(ch[x]) \cap Range(fc2) = {}
      BY <1>4, <2>2
    <3> QED BY <1>1, <1>2, <2>2, <3>4, <3>5
  <2> QED BY <2>1, <2>2
<1>6. ASSUME NEW n1 \in Node, NEW n2 \in Node, n1 # n2 PROVE Range(ch2[n1]) \cap Range(ch2[n2]) = {}
  <2>1. \A x \in Node \ {n} : Range(ch[x]) \cap Range(q) = {}
    BY <1>4
  <2>2. Range(ch[n1]) \cap Range(ch[n2]) = {}
    BY <1>6 DEF PoolLinks
  <2> QED BY <1>2, <1>6, <2>1, <2>2
<1>7. ASSUME NEW c \in Chunk PROVE c \in Range(fc2) \/ \E x \in Node : c \in Range(ch2[x])
  <2>1. CASE c \in Range(ch[n]) \cup Range(fc)
    <3>1. c \in Range(fc2) \/ c \in Range(ch2[n])
      BY <1>2, <2>1
    <3> QED BY <3>1
  <2>2. CASE c \notin Range(ch[n]) \cup Range(fc)
    <3>1. PICK x \in Node : c \in Range(ch[x])
      BY <2>2 DEF PoolLinks
    <3>2. ch2[x] = ch[x]
      BY <1>2, <2>2, <3>1
    <3> QED BY <3>1, <3>2
  <2> QED BY <2>1, <2>2
<1> QED BY <1>1, <1>2, <1>5, <1>6, <1>7 DEF PoolLinks, hd2, ch2

\* What a node has is written, or freed.
LEMMA Rewrite ==
    ASSUME NEW p, NEW hd, NEW fc, NEW ch, PoolLinks(p, hd, fc, ch), NEW D, PoolData(p, ch, D),
           NEW n \in Node, NEW r, NEW q \in List(Chunk), NEW data \in Seq(Octet), HoldsData(r, q, data),
           \A c \in Chunk \ (Range(ch[n]) \cup Range(fc)) : r.data[c] = p.data[c]
    PROVE  PoolData(r, With(ch, n, q), With(D, n, data))
<1> DEFINE D2  == With(D, n, data)
           ch2 == With(ch, n, q)
<1>1. D2 \in [Node -> Seq(Octet)] /\ \A x \in Node : D2[x] = IF x = n THEN data ELSE D[x]
  <2>1. D \in [Node -> Seq(Octet)]
    BY DEF PoolData
  <2> QED BY <2>1 DEF With
<1>2. \A x \in Node : ch2[x] = IF x = n THEN q ELSE ch[x]
  <2>1. ch \in [Node -> List(Chunk)]
    BY DEF PoolLinks
  <2> QED BY <2>1 DEF With
<1> HIDE DEF D2, ch2
<1>3. ASSUME NEW x \in Node PROVE HoldsData(r, ch2[x], D2[x])
  <2>1. CASE x = n
    BY <1>1, <1>2, <2>1
  <2>2. CASE x # n
    <3>1. Range(ch[x]) \cap (Range(ch[n]) \cup Range(fc)) = {} /\ ch[x] \in List(Chunk)
      BY <2>2 DEF PoolLinks
    <3>2. \A i \in 1 .. Len(ch[x]) : ch[x][i] \in Range(ch[x]) /\ ch[x][i] \in Chunk
      BY <3>1, RangeOf DEF List
    <3>3. HoldsData(p, ch[x], D[x])
      BY DEF PoolData
    <3>4. \A i \in 1 .. Len(ch[x]) : r.data[ch[x][i]] = p.data[ch[x][i]]
      BY <3>1, <3>2
    <3> QED BY <1>1, <1>2, <2>2, <3>3, <3>4 DEF HoldsData
  <2> QED BY <2>1, <2>2
<1> QED BY <1>1, <1>3 DEF PoolData, D2, ch2

\* A number in quotient and remainder.
LEMMA DivMod ==
    ASSUME NEW y \in Nat, NEW s \in Nat \ {0}
    PROVE  /\ y \div s \in Nat /\ y % s \in 0 .. s - 1 /\ s * (y \div s) \in Nat
           /\ y = s * (y \div s) + (y % s)
<1>1. y \div s \in Nat /\ y % s \in 0 .. s - 1
  OBVIOUS
<1>2. y = s * (y \div s) + (y % s)
  OBVIOUS
<1>3. s * (y \div s) \in Nat
  BY <1>1
<1> QED BY <1>1, <1>2, <1>3

\* The bytes of a data of len bytes lie in the chunks one after the other: the
\* x-th is the k-th of the i-th.
LEMMA ByteAt ==
    ASSUME NEW len \in Nat, NEW x \in 1 .. len
    PROVE  LET i == ((x - 1) \div ChunkSize) + 1
               k == ((x - 1) % ChunkSize) + 1
           IN  /\ i \in 1 .. get_chunk_num(len) /\ k \in 1 .. ChunkSize
               /\ (i - 1) * ChunkSize + k = x /\ (i - 1) * ChunkSize \in Nat
               /\ i * ChunkSize = (i - 1) * ChunkSize + ChunkSize
<1> DEFINE d == (x - 1) \div ChunkSize
           k == (x - 1) % ChunkSize
           g == get_chunk_num(len)
           s == ChunkSize
<1>1. ChunkSize \in Nat \ {0}
  BY ChunkAssumption
<1>2. s \in Nat \ {0} /\ x - 1 \in Nat /\ len + s - 1 \in Nat
  BY <1>1
<1> HIDE DEF s
<1>3. \A y \in Nat : /\ y \div s \in Nat /\ y % s \in 0 .. s - 1 /\ s * (y \div s) \in Nat
                     /\ y = s * (y \div s) + (y % s)
  BY <1>2, DivMod
<1>4. d \in Nat /\ k \in 0 .. s - 1 /\ s * d \in Nat /\ x - 1 = s * d + k
  BY <1>2, <1>3 DEF s
<1> DEFINE t == (len + s - 1) % s
<1>5. g \in Nat /\ t \in 0 .. s - 1 /\ s * g \in Nat /\ len + s - 1 = s * g + t
  BY <1>2, <1>3 DEF s, get_chunk_num
<1> HIDE DEF d, k, g, t
<1>6. d + 1 <= g
  <2> SUFFICES ASSUME g <= d PROVE FALSE
    BY <1>4, <1>5
  <2>1. s * g <= s * d
    BY <1>2, <1>4, <1>5
  <2> QED BY <1>2, <1>4, <1>5, <2>1
<1>7. s * d = d * s /\ (d + 1) * s = d * s + s
  BY <1>2, <1>4
<1>8. d + 1 \in 1 .. g /\ k + 1 \in 1 .. s /\ d * s + (k + 1) = x /\ d * s \in Nat
      /\ (d + 1) * s = d * s + s /\ (d + 1) - 1 = d
  BY <1>2, <1>4, <1>5, <1>6, <1>7
<1> QED BY <1>8 DEF d, k, g, s

\* The chunks that are counted are enough.
LEMMA ChunkRoom ==
    ASSUME NEW len \in Nat
    PROVE  /\ get_chunk_num(len) \in Nat /\ get_chunk_num(len) * ChunkSize \in Nat
           /\ len <= get_chunk_num(len) * ChunkSize
           /\ get_chunk_num(len) = 0 <=> len = 0
<1> DEFINE g == get_chunk_num(len)
           s == ChunkSize
<1>1. ChunkSize \in Nat \ {0}
  BY ChunkAssumption
<1>2. s \in Nat \ {0} /\ len + s - 1 \in Nat
  BY <1>1
<1> HIDE DEF s
<1>3. \A y \in Nat : /\ y \div s \in Nat /\ y % s \in 0 .. s - 1 /\ s * (y \div s) \in Nat
                     /\ y = s * (y \div s) + (y % s)
  BY <1>2, DivMod
<1> DEFINE t == (len + s - 1) % s
<1>4. g \in Nat /\ t \in 0 .. s - 1 /\ s * g \in Nat /\ len + s - 1 = s * g + t
  BY <1>2, <1>3 DEF s, get_chunk_num
<1> HIDE DEF g, t
<1>5. s * g = g * s
  BY <1>2, <1>4
<1>6. g \in Nat /\ g * s \in Nat /\ len <= g * s
  BY <1>2, <1>4, <1>5
<1>7. g = 0 <=> len = 0
  <2>1. CASE g = 0
    BY <1>2, <1>6, <2>1
  <2>2. CASE g # 0
    <3>1. s * g >= s
      BY <1>2, <1>4, <2>2
    <3> QED BY <1>2, <1>4, <2>2, <3>1
  <2> QED BY <2>1, <2>2
<1> QED BY <1>6, <1>7 DEF g, s

\* A part of a data.
LEMMA PartIs ==
    ASSUME NEW data \in Seq(Octet), NEW i \in 1 .. get_chunk_num(Len(data))
    PROVE  /\ Part(data, i) \in Seq(Octet)
           /\ \A k \in 1 .. ChunkSize : (i - 1) * ChunkSize + k <= Len(data) =>
                Part(data, i)[k] = data[(i - 1) * ChunkSize + k]
<1> DEFINE s == ChunkSize
           b == (i - 1) * s
           e == Least(i * s, Len(data))
<1>1. Len(data) \in Nat /\ get_chunk_num(Len(data)) \in Nat /\ \A x \in 1 .. Len(data) : data[x] \in Octet
  BY ChunkRoom, LenProperties
<1>2. s \in Nat \ {0} /\ i \in Nat \ {0}
  BY <1>1, ChunkAssumption
<1> HIDE DEF s
<1>3. b \in Nat /\ i * s = b + s
  BY <1>2
<1>4. Part(data, i) = SubSeq(data, b + 1, e)
  BY DEF Part, Extent, s
<1> HIDE DEF b
<1>5. e \in Nat /\ e <= Len(data) /\ e <= b + s /\ \A k \in 1 .. s : b + k <= Len(data) => b + k <= e
  BY <1>1, <1>2, <1>3 DEF Least
<1> HIDE DEF e
<1>6. \A x \in b + 1 .. e : data[x] \in Octet
  BY <1>1, <1>3, <1>5
<1>7. /\ SubSeq(data, b + 1, e) \in Seq(Octet)
      /\ \A x \in 1 .. e - (b + 1) + 1 : SubSeq(data, b + 1, e)[x] = data[(b + 1) + x - 1]
  BY <1>3, <1>5, <1>6, SubSeqProperties
<1>8. ASSUME NEW k \in 1 .. s, b + k <= Len(data)
      PROVE  SubSeq(data, b + 1, e)[k] = data[b + k]
  <2>1. k \in 1 .. e - (b + 1) + 1 /\ (b + 1) + k - 1 = b + k
    BY <1>2, <1>3, <1>5, <1>8
  <2> QED BY <1>7, <2>1
<1> QED BY <1>4, <1>7, <1>8 DEF s, b

\* What split leaves of the pool.
LEMMA SplitData ==
    ASSUME NEW p \in PoolType, NEW q \in List(Chunk), NEW h, Linked(p.next, h, q),
           NEW data \in Seq(Octet), Len(q) = get_chunk_num(Len(data))
    PROVE  LET r == split(p, h, data)
           IN  /\ r \in PoolType /\ HoldsData(r, q, data)
               /\ r.next = p.next /\ r.free_list = p.free_list /\ r.free_total = p.free_total
               /\ \A c \in Chunk \ Range(q) : r.data[c] = p.data[c]
<1> DEFINE r == split(p, h, data)
           d == Pieces(p.data, q, data)
<1>1. /\ q \in Seq(Chunk) /\ Len(q) \in Nat
      /\ \A i \in 1 .. Len(q) : q[i] \in Chunk /\ q[i] \in Range(q)
      /\ \A c \in Range(q) : \E i \in 1 .. Len(q) : q[i] = c
  BY RangeOf DEF List
<1>2. Chain(p, h) = q
  BY FollowChunks DEF Chain
<1>3. r = [p EXCEPT !.data = d]
  BY <1>2 DEF split
<1>4. ASSUME NEW i \in 1 .. Len(q) PROVE d[q[i]] = Part(data, i)
  <2>1. (CHOOSE j \in 1 .. Len(q) : q[j] = q[i]) = i
    BY IndexOf
  <2>2. Contains(q, q[i]) /\ q[i] \in Chunk
    BY <1>1 DEF Contains
  <2> QED BY <2>1, <2>2 DEF Pieces, Part
<1>5. \A c \in Chunk \ Range(q) : d[c] = p.data[c]
  <2>1. \A c \in Chunk \ Range(q) : ~Contains(q, c)
    BY <1>1 DEF Contains
  <2> QED BY <2>1 DEF Pieces
<1>6. d = [c \in Chunk |-> d[c]]
  BY DEF Pieces
<1>7. p = [next |-> p.next, data |-> p.data, free_list |-> p.free_list, free_total |-> p.free_total]
      /\ p.next \in [Chunk -> Handlers(Chunk)] /\ p.free_list \in Handlers(Chunk)
      /\ p.free_total \in Int /\ p.data \in [Chunk -> Seq(Octet)]
  BY DEF PoolType
<1> HIDE DEF d, r
<1>8. d \in [Chunk -> Seq(Octet)]
  <2>1. ASSUME NEW c \in Chunk PROVE d[c] \in Seq(Octet)
    <3>1. CASE c \in Range(q)
      <4>1. PICK i \in 1 .. Len(q) : q[i] = c
        BY <1>1, <3>1
      <4> QED BY <1>4, <4>1, PartIs
    <3>2. CASE c \notin Range(q)
      BY <1>5, <1>7, <3>2
    <3> QED BY <3>1, <3>2
  <2> QED BY <1>6, <2>1
<1>9. r = [next |-> p.next, data |-> d, free_list |-> p.free_list, free_total |-> p.free_total]
  BY <1>3, <1>7
<1>10. r \in PoolType /\ r.data = d
  BY <1>7, <1>8, <1>9 DEF PoolType
<1> QED BY <1>4, <1>5, <1>9, <1>10 DEF HoldsData, r

\* What is merged is what was split.
LEMMA MergeData ==
    ASSUME NEW p, NEW q \in List(Chunk), NEW h, Linked(p.next, h, q),
           NEW data \in Seq(Octet), HoldsData(p, q, data)
    PROVE  merge(p, h, Len(data)) = data
<1> DEFINE len == Len(data)
           r   == merge(p, h, len)
<1>1. len \in Nat /\ Len(q) = get_chunk_num(len) /\ Chain(p, h) = q /\ Len(q) \in Nat
  BY FollowChunks, LenProperties DEF Chain, HoldsData
<1>2. Least(len, Len(q) * ChunkSize) = len
  BY <1>1, ChunkRoom DEF Least
<1>3. r = [x \in 1 .. len |-> p.data[q[((x - 1) \div ChunkSize) + 1]][((x - 1) % ChunkSize) + 1]]
  BY <1>1, <1>2 DEF merge
<1>4. ASSUME NEW x \in 1 .. len PROVE r[x] = data[x]
  <2> DEFINE i == ((x - 1) \div ChunkSize) + 1
             k == ((x - 1) % ChunkSize) + 1
  <2>1. i \in 1 .. Len(q) /\ k \in 1 .. ChunkSize /\ (i - 1) * ChunkSize + k = x
    BY <1>1, ByteAt
  <2>2. r[x] = p.data[q[i]][k]
    BY <1>3
  <2> HIDE DEF i, k
  <2>3. p.data[q[i]] = Part(data, i)
    BY <2>1 DEF HoldsData
  <2>4. Part(data, i)[k] = data[(i - 1) * ChunkSize + k]
    BY <1>1, <2>1, PartIs
  <2> QED BY <2>1, <2>2, <2>3, <2>4
<1>5. data = [x \in 1 .. len |-> data[x]]
  BY LenProperties
<1> HIDE DEF r
<1> QED BY <1>3, <1>4, <1>5 DEF r

-----------------------------------------------------------------------------
(* The map                                                                 *)

\* A node lies where its key says.
Placed(m, fl, bl, al) ==
    \A n \in Node : /\ n \in Range(fl) <=> m.node[n].key = NoKey
                    /\ n \in Range(al) <=> m.node[n].key # NoKey
                    /\ \A b \in Bucket : n \in Range(bl[b]) <=> /\ m.node[n].key # NoKey
                                                                /\ get_bucket_id(m.node[n].key) = b

\* The counters are right.
Counted(m, fl) == /\ Len(fl) + m.used_node_num = NodeTotal
                  /\ m.used_bucket_num = Cardinality(UsedBuckets(m))

\* Each node n with a key holds the data D[n].
Filled(m, fc, ch, D) ==
    /\ PoolLinks(m.pool, Field(m, "chunk"), fc, ch)
    /\ PoolData(m.pool, ch, D)
    /\ \A n \in Node : /\ m.node[n].len = Len(D[n])
                       /\ D[n] \in Data \cup {<<>>}
                       /\ m.node[n].key = NoKey => D[n] = <<>>

\* What is true of the map whenever the semaphore can be taken: the lists are
\* fl, bl, al, fc and ch, and the data D.
Shape(m, fl, bl, al, fc, ch, D) ==
    /\ m \in MapType
    /\ FreeShape(m, fl) /\ BucketShape(m, bl) /\ AddShape(m, al)
    /\ Placed(m, fl, bl, al) /\ Counted(m, fl) /\ Filled(m, fc, ch, D)

\* A field that is the same in all nodes is that of each.
LEMMA SameNode ==
    ASSUME NEW m, NEW r, NEW f, Field(r, f) = Field(m, f), NEW n \in Node
    PROVE  r.node[n][f] = m.node[n][f]
<1>1. Field(r, f)[n] = r.node[n][f] /\ Field(m, f)[n] = m.node[n][f]
  BY DEF Field
<1> QED BY <1>1

\* No node is in the lists of two buckets.
LEMMA PlacedApart ==
    ASSUME NEW m, NEW fl, NEW bl, NEW al, Placed(m, fl, bl, al), BucketShape(m, bl)
    PROVE  Apart(bl) /\ \A b \in Bucket : bl[b] \in List(Node) /\ Range(bl[b]) \subseteq Node
<1>1. \A b \in Bucket : bl[b] \in List(Node)
  BY DEF BucketShape
<1>2. \A b \in Bucket : Range(bl[b]) \subseteq Node
  BY <1>1, RangeOf DEF List
<1> QED BY <1>1, <1>2 DEF Placed, Apart

\* What is the same when only the add list is changed.
LEMMA SameButAdd ==
    ASSUME NEW m, NEW r, Same(m, r, {"add_head", "add_tail"}, {"add_next", "add_prev"})
    PROVE  /\ r.bucket = m.bucket /\ r.free_list = m.free_list /\ r.pool = m.pool
           /\ r.used_node_num = m.used_node_num /\ r.used_bucket_num = m.used_bucket_num
           /\ Field(r, "key") = Field(m, "key") /\ Field(r, "len") = Field(m, "len")
           /\ Field(r, "chunk") = Field(m, "chunk")
           /\ Field(r, "next") = Field(m, "next") /\ Field(r, "prev") = Field(m, "prev")
           /\ \A n \in Node : /\ r.node[n].key = m.node[n].key /\ r.node[n].len = m.node[n].len
                              /\ r.node[n].chunk = m.node[n].chunk
<1>1. /\ r.bucket = m.bucket /\ r.free_list = m.free_list /\ r.pool = m.pool
      /\ r.used_node_num = m.used_node_num /\ r.used_bucket_num = m.used_bucket_num
      /\ Field(r, "key") = Field(m, "key") /\ Field(r, "len") = Field(m, "len")
      /\ Field(r, "chunk") = Field(m, "chunk")
      /\ Field(r, "next") = Field(m, "next") /\ Field(r, "prev") = Field(m, "prev")
  BY DEF Same, MapFields, NodeFields, Links
<1>2. \A n \in Node : /\ r.node[n].key = m.node[n].key /\ r.node[n].len = m.node[n].len
                      /\ r.node[n].chunk = m.node[n].chunk
  BY <1>1, SameNode
<1> QED BY <1>1, <1>2

\* The add list is put in another order.
LEMMA SameShape ==
    ASSUME NEW m, NEW fl, NEW bl, NEW al, NEW fc, NEW ch, NEW D, Shape(m, fl, bl, al, fc, ch, D),
           NEW r \in MapType, Same(m, r, {"add_head", "add_tail"}, {"add_next", "add_prev"}),
           NEW a, AddShape(r, a), Range(a) = Range(al)
    PROVE  Shape(r, fl, bl, a, fc, ch, D)
<1>1. /\ r.bucket = m.bucket /\ r.free_list = m.free_list /\ r.pool = m.pool
      /\ r.used_node_num = m.used_node_num /\ r.used_bucket_num = m.used_bucket_num
      /\ Field(r, "chunk") = Field(m, "chunk")
      /\ Field(r, "next") = Field(m, "next") /\ Field(r, "prev") = Field(m, "prev")
  BY SameButAdd
<1>2. \A n \in Node : r.node[n].key = m.node[n].key /\ r.node[n].len = m.node[n].len
  BY SameButAdd
<1>3. FreeShape(r, fl) /\ BucketShape(r, bl)
  BY <1>1 DEF Shape, FreeShape, BucketShape
<1>4. Placed(r, fl, bl, a)
  BY <1>2 DEF Shape, Placed
<1>5. Counted(r, fl)
  BY <1>1 DEF Shape, Counted, UsedBuckets
<1>6. Filled(r, fc, ch, D)
  BY <1>1, <1>2 DEF Shape, Filled
<1> QED BY <1>3, <1>4, <1>5, <1>6 DEF Shape

\* A node that is used becomes the head of the add list.
LEMMA ToFront ==
    ASSUME NEW m, NEW fl, NEW bl, NEW al, NEW fc, NEW ch, NEW D, Shape(m, fl, bl, al, fc, ch, D),
           NEW n \in Node, m.node[n].key # NoKey
    PROVE  LET r == insert_add_list_head(m, n)
           IN  /\ \E a : Shape(r, fl, bl, a, fc, ch, D)
               /\ Same(m, r, {"add_head", "add_tail"}, {"add_next", "add_prev"})
<1> DEFINE r  == insert_add_list_head(m, n)
           m0 == delete_from_add_list(m, n)
<1>1. m \in MapType /\ AddShape(m, al) /\ al \in List(Node) /\ n \in Range(al)
  BY DEF Shape, AddShape, Placed
<1>2. PICK j \in 1 .. Len(al) : al[j] = n
  BY <1>1, RangeOf DEF List
<1> DEFINE q == RemoveAt(al, j)
<1>3. q \in List(Node) /\ Range(q) = Range(al) \ {n}
  BY <1>1, <1>2, TakeList
<1>4. m0 \in MapType /\ AddShape(m0, q) /\ Same(m, m0, {"add_head", "add_tail"}, {"add_next", "add_prev"})
  BY <1>1, <1>2, AddTake
<1> HIDE DEF q
<1>5. r \in MapType /\ AddShape(r, <<n>> \o q) /\ Same(m, r, {"add_head", "add_tail"}, {"add_next", "add_prev"})
  <2>1. n \notin Range(q)
    BY <1>3
  <2> QED BY <1>1, <1>4, <2>1, AddPush
<1> DEFINE a == <<n>> \o q
<1>6. Range(a) = Range(al)
  <2>1. Range(a) = Range(q) \cup {n}
    BY <1>3, PushList
  <2> QED BY <1>1, <1>3, <2>1
<1> HIDE DEF r, a
<1>7. AddShape(r, a)
  BY <1>5 DEF a
<1>8. Shape(r, fl, bl, a, fc, ch, D)
  BY <1>5, <1>6, <1>7, SameShape
<1> QED BY <1>5, <1>8 DEF r

\* A node enters the free list.
LEMMA FreeListInsert ==
    ASSUME NEW m \in MapType, NEW n \in Node
    PROVE  LET r == free_list_insert(m, n)
           IN  /\ r \in MapType
               /\ Field(r, "next") = Put(Field(m, "next"), n, m.free_list)
               /\ r.free_list = n
               /\ Same(m, r, {"free_list"}, {"next"})
<1> DEFINE s == Set(m, n, "next", m.free_list)
           r == free_list_insert(m, n)
<1>1. m.free_list \in Handlers(Node) /\ n \in Handlers(Node) /\ "next" \in Links
  BY DEF MapType, Handlers, Links
<1>2. s \in MapType /\ Field(s, "next") = Put(Field(m, "next"), n, m.free_list) /\ Same(m, s, {}, {"next"})
  BY <1>1, SetField
<1>3. r = [s EXCEPT !.free_list = n]
  BY DEF free_list_insert
<1> HIDE DEF s, r
<1>4. r \in MapType /\ r.node = s.node /\ r.free_list = n /\ \A x \in MapFields \ {"free_list"} : r[x] = s[x]
  BY <1>1, <1>2, <1>3 DEF MapType, MapFields
<1>5. \A f \in NodeFields : Field(r, f) = Field(s, f)
  BY <1>4 DEF Field
<1>6. "next" \in NodeFields
  BY DEF NodeFields, Links
<1> QED BY <1>2, <1>4, <1>5, <1>6 DEF Same, r

\* The node at the head leaves it.
LEMMA FreeListRemove ==
    ASSUME NEW m \in MapType, m.free_list \in Node
    PROVE  LET r == free_list_remove(m)
               n == m.free_list
           IN  /\ r \in MapType
               /\ Field(r, "next") = Put(Field(m, "next"), n, INVALID)
               /\ r.free_list = Field(m, "next")[n]
               /\ Same(m, r, {"free_list"}, {"next"})
<1> DEFINE n == m.free_list
           v == m.node[n].next
           s == [m EXCEPT !.free_list = v]
           r == free_list_remove(m)
<1>1. n \in Node /\ n \in Handlers(Node) /\ INVALID \in Handlers(Node) /\ "next" \in Links /\ "next" \in NodeFields
  BY DEF Handlers, Links, NodeFields
<1>2. v = Field(m, "next")[n] /\ v \in Handlers(Node)
  BY <1>1, LinkType
<1>3. r = Set(s, n, "next", INVALID)
  BY DEF free_list_remove
<1>4. s = [m EXCEPT !.free_list = v]
  OBVIOUS
<1> HIDE DEF n, v, s, r
<1>5. s \in MapType /\ s.node = m.node /\ s.free_list = v /\ \A x \in MapFields \ {"free_list"} : s[x] = m[x]
  BY <1>2, <1>4 DEF MapType, MapFields
<1>6. \A f \in NodeFields : Field(s, f) = Field(m, f)
  BY <1>5 DEF Field
<1>7. r \in MapType /\ Field(r, "next") = Put(Field(s, "next"), n, INVALID) /\ Same(s, r, {}, {"next"})
  BY <1>1, <1>3, <1>5, SetField
<1>8. r.free_list = v
  BY <1>5, <1>7 DEF Same, MapFields
<1>9. Same(m, r, {"free_list"}, {"next"})
  BY <1>5, <1>6, <1>7 DEF Same
<1> QED BY <1>1, <1>2, <1>6, <1>7, <1>8, <1>9 DEF r, n

\* An empty list, and data.
LEMMA Nothing ==
    /\ \A S : <<>> \in List(S)
    /\ \A f : Linked(f, INVALID, <<>>)
    /\ Range(<<>>) = {} /\ Len(<<>>) = 0
    /\ \A p : HoldsData(p, <<>>, <<>>)
<1>1. Len(<<>>) = 0 /\ \A S : <<>> \in Seq(S)
  BY EmptySeq
<1>2. Range(<<>>) = {}
  BY DEF Range
<1>3. get_chunk_num(0) = 0
  BY ChunkRoom
<1>4. \A S : <<>> \in List(S)
  BY <1>1 DEF List
<1>5. \A f : Linked(f, INVALID, <<>>)
  BY <1>1 DEF Linked, At
<1>6. \A p : HoldsData(p, <<>>, <<>>)
  BY <1>1, <1>3 DEF HoldsData
<1> QED BY <1>1, <1>2, <1>4, <1>5, <1>6

\* The links of the chunks are all that their lists need.
LEMMA SamePool ==
    ASSUME NEW p, NEW hd, NEW fc, NEW ch, PoolLinks(p, hd, fc, ch), NEW r \in PoolType,
           r.next = p.next, r.free_list = p.free_list, r.free_total = p.free_total
    PROVE  PoolLinks(r, hd, fc, ch)
BY DEF PoolLinks

\* The chunks of a node.
LEMMA ChunksOf ==
    ASSUME NEW p, NEW hd, NEW fc, NEW ch, PoolLinks(p, hd, fc, ch), NEW n \in Node
    PROVE  /\ p \in PoolType /\ fc \in List(Chunk) /\ Linked(p.next, p.free_list, fc)
           /\ p.free_total = Len(fc)
           /\ ch[n] \in List(Chunk) /\ Linked(p.next, hd[n], ch[n])
           /\ Range(ch[n]) \cap Range(fc) = {} /\ hd[n] \in Handlers(Chunk)
BY DEF PoolLinks

\* The chunks of a node are freed.
LEMMA FreeChunks ==
    ASSUME NEW p, NEW hd, NEW fc, NEW ch, NEW D, PoolLinks(p, hd, fc, ch), PoolData(p, ch, D),
           NEW n \in Node
    PROVE  LET r == free(p, hd[n])
           IN  /\ r \in PoolType
               /\ \E f : /\ PoolLinks(r, With(hd, n, INVALID), f, With(ch, n, <<>>))
                         /\ Len(f) = Len(ch[n]) + Len(fc)
               /\ PoolData(r, With(ch, n, <<>>), With(D, n, <<>>))
<1> DEFINE r == free(p, hd[n])
           q == ch[n]
           f == Reverse(q) \o fc
<1>1. /\ p \in PoolType /\ fc \in List(Chunk) /\ Linked(p.next, p.free_list, fc)
      /\ p.free_total = Len(fc)
      /\ q \in List(Chunk) /\ Linked(p.next, hd[n], q) /\ Range(q) \cap Range(fc) = {}
  BY ChunksOf
<1>2. /\ r \in PoolType
      /\ f \in List(Chunk) /\ Range(f) = Range(q) \cup Range(fc)
      /\ Linked(r.next, r.free_list, f) /\ r.free_total = Len(f)
      /\ Len(f) = Len(q) + Len(fc)
      /\ \A c \in Chunk \ Range(q) : r.next[c] = p.next[c] /\ r.data[c] = p.data[c]
  <2> HIDE DEF q
  <2> QED BY <1>1, Free
<1> HIDE DEF r, f
<1> DEFINE z == <<>>
<1>3. z \in List(Chunk) /\ Linked(r.next, INVALID, z) /\ Range(z) = {} /\ HoldsData(r, z, z)
      /\ INVALID \in Handlers(Chunk) /\ z \in Seq(Octet)
  BY Nothing, EmptySeq DEF Handlers
<1> HIDE DEF z
<1>4. PoolLinks(r, With(hd, n, INVALID), f, With(ch, n, z))
  <2>1. Range(z) \cap Range(f) = {} /\ Range(z) \cup Range(f) = Range(ch[n]) \cup Range(fc)
    BY <1>2, <1>3
  <2>2. \A c \in Chunk \ (Range(ch[n]) \cup Range(fc)) : r.next[c] = p.next[c]
    BY <1>2
  <2> HIDE DEF q
  <2> QED BY <1>2, <1>3, <2>1, <2>2, Reshape
<1>5. PoolData(r, With(ch, n, z), With(D, n, z))
  <2>1. \A c \in Chunk \ (Range(ch[n]) \cup Range(fc)) : r.data[c] = p.data[c]
    BY <1>2
  <2> QED BY <1>3, <2>1, Rewrite
<1> QED BY <1>2, <1>4, <1>5 DEF r, z

\* A node without chunks takes those of a data.
LEMMA TakeChunks ==
    ASSUME NEW p, NEW hd, NEW fc, NEW ch, NEW D, PoolLinks(p, hd, fc, ch), PoolData(p, ch, D),
           NEW n \in Node, ch[n] = <<>>, NEW data \in Seq(Octet),
           NEW k, k = get_chunk_num(Len(data)), k \in 1 .. Len(fc)
    PROVE  LET got == malloc(p, k)
               r   == split(got.pool, got.head, data)
           IN  /\ got.head \in Chunk
               /\ \E f, q : /\ PoolLinks(r, With(hd, n, got.head), f, With(ch, n, q))
                            /\ PoolData(r, With(ch, n, q), With(D, n, data))
<1> DEFINE got == malloc(p, k)
           g   == got.pool
           h   == got.head
           r   == split(g, h, data)
           a   == SubSeq(fc, 1, k)
           b   == SubSeq(fc, k + 1, Len(fc))
           q   == Reverse(a)
<1>1. /\ p \in PoolType /\ fc \in List(Chunk) /\ Linked(p.next, p.free_list, fc)
      /\ p.free_total = Len(fc)
  BY ChunksOf
<1>2. /\ g \in PoolType
      /\ Linked(g.next, g.free_list, b) /\ g.free_total = Len(b)
      /\ Linked(g.next, h, q) /\ h \in Chunk
      /\ \A c \in Chunk \ Range(a) : g.next[c] = p.next[c]
      /\ g.data = p.data
  <2> HIDE DEF r
  <2> QED BY <1>1, Malloc
<1>3. /\ a \in List(Chunk) /\ Len(a) = k
      /\ b \in List(Chunk)
      /\ Range(a) \cup Range(b) = Range(fc) /\ Range(a) \cap Range(b) = {}
  <2>1. k \in 0 .. Len(fc)
    BY <1>1
  <2> HIDE DEF got, g, h, r
  <2> QED BY <1>1, <2>1, SplitList
<1> HIDE DEF g, h, got, a, b
<1>4. q \in List(Chunk) /\ Len(q) = k /\ Range(q) = Range(a)
  BY <1>3, ReverseList
<1> HIDE DEF q
<1>5. Range(ch[n]) = {} /\ h \in Handlers(Chunk)
  BY <1>2, Nothing DEF Handlers
<1>6. PoolLinks(g, With(hd, n, h), b, With(ch, n, q))
  <2>1. Range(q) \cap Range(b) = {} /\ Range(q) \cup Range(b) = Range(ch[n]) \cup Range(fc)
    BY <1>3, <1>4, <1>5
  <2>2. \A c \in Chunk \ (Range(ch[n]) \cup Range(fc)) : g.next[c] = p.next[c]
    BY <1>2, <1>3
  <2> HIDE DEF r
  <2> QED BY <1>2, <1>3, <1>4, <1>5, <2>1, <2>2, Reshape
<1>7. /\ r \in PoolType /\ HoldsData(r, q, data)
      /\ r.next = g.next /\ r.free_list = g.free_list /\ r.free_total = g.free_total
      /\ \A c \in Chunk \ Range(q) : r.data[c] = g.data[c]
  <2>1. Len(q) = get_chunk_num(Len(data))
    BY <1>4
  <2>2. g \in PoolType /\ Linked(g.next, h, q) /\ q \in List(Chunk)
    BY <1>2, <1>4
  <2> QED BY <2>1, <2>2, SplitData
<1> HIDE DEF r
<1>8. PoolLinks(r, With(hd, n, h), b, With(ch, n, q))
  BY <1>6, <1>7, SamePool
<1>9. PoolData(r, With(ch, n, q), With(D, n, data))
  <2>1. \A c \in Chunk \ (Range(ch[n]) \cup Range(fc)) : r.data[c] = p.data[c]
    BY <1>2, <1>3, <1>4, <1>7
  <2>2. q \in List(Chunk) /\ HoldsData(r, q, data)
    BY <1>4, <1>7
  <2> QED BY <2>1, <2>2, Rewrite
<1> QED BY <1>2, <1>8, <1>9 DEF r, g, h, got

\* A node writes other data in its chunks.
LEMMA WriteChunks ==
    ASSUME NEW p, NEW hd, NEW fc, NEW ch, NEW D, PoolLinks(p, hd, fc, ch), PoolData(p, ch, D),
           NEW n \in Node, NEW data \in Seq(Octet), Len(ch[n]) = get_chunk_num(Len(data))
    PROVE  LET r == split(p, hd[n], data)
           IN  PoolLinks(r, hd, fc, ch) /\ PoolData(r, ch, With(D, n, data))
<1> DEFINE r == split(p, hd[n], data)
           q == ch[n]
<1>1. p \in PoolType /\ q \in List(Chunk) /\ Linked(p.next, hd[n], q)
  BY ChunksOf
<1> HIDE DEF q
<1>2. /\ r \in PoolType /\ HoldsData(r, q, data)
      /\ r.next = p.next /\ r.free_list = p.free_list /\ r.free_total = p.free_total
      /\ \A c \in Chunk \ Range(q) : r.data[c] = p.data[c]
  <2>1. Len(q) = get_chunk_num(Len(data))
    BY DEF q
  <2> QED BY <1>1, <2>1, SplitData
<1> HIDE DEF r
<1>3. PoolLinks(r, hd, fc, ch)
  BY <1>2, SamePool
<1>4. PoolData(r, With(ch, n, q), With(D, n, data))
  <2>1. \A c \in Chunk \ (Range(ch[n]) \cup Range(fc)) : r.data[c] = p.data[c]
    BY <1>2 DEF q
  <2> QED BY <1>1, <1>2, <2>1, Rewrite
<1>5. With(ch, n, q) = ch
  <2>1. ch \in [Node -> List(Chunk)]
    BY DEF PoolLinks
  <2> QED BY <2>1 DEF With, q
<1> QED BY <1>3, <1>4, <1>5 DEF r

\* The lists of the buckets, with a node less.
LEMMA TakeFromIs ==
    ASSUME NEW bl \in [Bucket -> List(Node)], NEW b \in Bucket, NEW j \in 1 .. Len(bl[b])
    PROVE  \A x \in Bucket : Range(TakeFrom(bl, b, j)[x]) = IF x = b THEN Range(bl[b]) \ {bl[b][j]}
                                                                     ELSE Range(bl[x])
<1>1. TakeFrom(bl, b, j)[b] = RemoveAt(bl[b], j) /\ \A x \in Bucket \ {b} : TakeFrom(bl, b, j)[x] = bl[x]
  BY DEF TakeFrom
<1>2. bl[b] \in List(Node)
  OBVIOUS
<1>3. Range(RemoveAt(bl[b], j)) = Range(bl[b]) \ {bl[b][j]}
  BY <1>2, TakeList
<1> QED BY <1>1, <1>3

\* The lists of the buckets, with a node more.
LEMMA PushToIs ==
    ASSUME NEW bl \in [Bucket -> List(Node)], NEW b \in Bucket, NEW n \in Node, n \notin Range(bl[b])
    PROVE  \A x \in Bucket : Range(PushTo(bl, b, n)[x]) = IF x = b THEN Range(bl[b]) \cup {n}
                                                                   ELSE Range(bl[x])
<1>1. PushTo(bl, b, n)[b] = <<n>> \o bl[b] /\ \A x \in Bucket \ {b} : PushTo(bl, b, n)[x] = bl[x]
  BY DEF PushTo
<1>2. bl[b] \in List(Node)
  OBVIOUS
<1>3. Range(<<n>> \o bl[b]) = Range(bl[b]) \cup {n}
  BY <1>2, PushList
<1> QED BY <1>1, <1>3

\* A node that is not in the lists of the buckets changes without them.
LEMMA SameBuckets ==
    ASSUME NEW m, NEW bl, BucketShape(m, bl), NEW r, r.bucket = m.bucket,
           \A b \in Bucket : \A x \in Range(bl[b]) : /\ Field(r, "next")[x] = Field(m, "next")[x]
                                                     /\ Field(r, "prev")[x] = Field(m, "prev")[x]
    PROVE  BucketShape(r, bl)
<1>1. ASSUME NEW b \in Bucket
      PROVE  DLinked(Field(r, "next"), Field(r, "prev"), r.bucket[b], bl[b])
  <2> DEFINE q == bl[b]
             f == Field(m, "next")
             g == Field(m, "prev")
             f2 == Field(r, "next")
             g2 == Field(r, "prev")
  <2>1. q \in Seq(Node) /\ DLinked(f, g, m.bucket[b], q)
    BY DEF BucketShape, List
  <2>2. \A x \in Range(q) : f2[x] = f[x] /\ g2[x] = g[x]
    OBVIOUS
  <2> HIDE DEF q, f, g, f2, g2
  <2>3. DLinked(f2, g2, m.bucket[b], q)
    BY <2>1, <2>2, SameDLinks
  <2> QED BY <2>3 DEF q, f2, g2
<1> QED BY <1>1 DEF BucketShape

\* A node is deleted, and goes to the free list with its chunks.
LEMMA Discard ==
    ASSUME NEW m, NEW fl, NEW bl, NEW al, NEW fc, NEW ch, NEW D, Shape(m, fl, bl, al, fc, ch, D),
           NEW b \in Bucket, NEW j \in 1 .. Len(bl[b]), NEW n, n = bl[b][j]
    PROVE  LET r == delete_node(m, n)
           IN  /\ \E a, f : Shape(r, <<n>> \o fl, TakeFrom(bl, b, j), a, f, With(ch, n, <<>>),
                                  With(D, n, <<>>))
               /\ \A x \in Node : r.node[x].key = IF x = n THEN NoKey ELSE m.node[x].key
<1> DEFINE m1  == delete_from_add_list(m, n)
           m2  == free_node(m1, n)
           r   == delete_node(m, n)
           bl2 == TakeFrom(bl, b, j)
           fl2 == <<n>> \o fl
           ch2 == With(ch, n, <<>>)
           D2  == With(D, n, <<>>)
<1>1. /\ m \in MapType /\ FreeShape(m, fl) /\ BucketShape(m, bl) /\ AddShape(m, al)
      /\ Placed(m, fl, bl, al) /\ Counted(m, fl) /\ Filled(m, fc, ch, D)
  BY DEF Shape
<1>2. /\ bl \in [Bucket -> List(Node)] /\ fl \in List(Node) /\ al \in List(Node)
      /\ bl[b] \in List(Node) /\ Range(bl[b]) \subseteq Node /\ Apart(bl)
  BY <1>1, PlacedApart DEF BucketShape, FreeShape, AddShape
<1>3. n \in Node /\ n \in Range(bl[b])
  <2>1. bl[b] \in Seq(Node)
    BY <1>2 DEF List
  <2> QED BY <2>1, RangeOf
<1>4. m.node[n].key # NoKey /\ get_bucket_id(m.node[n].key) = b /\ n \in Range(al) /\ n \notin Range(fl)
  BY <1>1, <1>3 DEF Placed
\* the add list
<1>5. PICK i \in 1 .. Len(al) : al[i] = n
  <2>1. al \in Seq(Node)
    BY <1>2 DEF List
  <2> QED BY <1>4, <2>1, RangeOf
<1> DEFINE a == RemoveAt(al, i)
<1> HIDE DEF bl2, fl2, ch2, D2, r, m2, m1
<1>6. a \in List(Node) /\ Range(a) = Range(al) \ {n}
  <2>1. al \in List(Node)
    BY <1>2
  <2>2. RemoveAt(al, i) \in List(Node) /\ Range(RemoveAt(al, i)) = Range(al) \ {al[i]}
    BY <2>1, TakeList
  <2> QED BY <1>5, <2>2
<1>7. m1 \in MapType /\ AddShape(m1, a) /\ Same(m, m1, {"add_head", "add_tail"}, {"add_next", "add_prev"})
  BY <1>1, <1>5, AddTake DEF m1
<1> HIDE DEF a
<1>8. /\ m1.bucket = m.bucket /\ m1.free_list = m.free_list /\ m1.pool = m.pool
      /\ m1.used_node_num = m.used_node_num /\ m1.used_bucket_num = m.used_bucket_num
      /\ Field(m1, "chunk") = Field(m, "chunk")
      /\ Field(m1, "next") = Field(m, "next") /\ Field(m1, "prev") = Field(m, "prev")
  BY <1>7, SameButAdd
<1>9. \A x \in Node : /\ m1.node[x].key = m.node[x].key /\ m1.node[x].len = m.node[x].len
                      /\ m1.node[x].chunk = m.node[x].chunk
  BY <1>7, SameButAdd
\* the chunks
<1> DEFINE p  == m.pool
           hd == Field(m, "chunk")
           pl2 == free(p, hd[n])
<1>10. PoolLinks(p, hd, fc, ch) /\ PoolData(p, ch, D)
  BY <1>1 DEF Filled
<1>11. hd[n] = m1.node[n].chunk
  BY <1>3, <1>9 DEF Field
<1> HIDE DEF p, hd
<1>12. pl2 \in PoolType /\ PoolData(pl2, ch2, D2)
       /\ \E f : PoolLinks(pl2, With(hd, n, INVALID), f, ch2)
  BY <1>3, <1>10, FreeChunks DEF ch2, D2
<1> HIDE DEF pl2
\* the bucket
<1>13. /\ m2 \in MapType
       /\ BucketShape(m2, bl2)
       /\ \A f \in {"free_list", "add_head", "add_tail"} : m2[f] = m1[f]
       /\ \A f \in {"add_next", "add_prev"} : Field(m2, f) = Field(m1, f)
       /\ m2.pool = pl2
       /\ m2.used_node_num = m1.used_node_num - 1
       /\ m2.used_bucket_num = Cardinality(UsedBuckets(m2))
       /\ \A x \in Node \ Range(bl[b]) : Field(m2, "next")[x] = Field(m1, "next")[x]
       /\ \A x \in Node : /\ m2.node[x].key = IF x = n THEN NoKey ELSE m1.node[x].key
                          /\ m2.node[x].len = IF x = n THEN 0 ELSE m1.node[x].len
                          /\ m2.node[x].chunk = IF x = n THEN INVALID ELSE m1.node[x].chunk
  <2>1. BucketShape(m1, bl)
    BY <1>1, <1>8 DEF BucketShape
  <2>2. m1.used_bucket_num = Cardinality(UsedBuckets(m1))
    BY <1>1, <1>8 DEF Counted, UsedBuckets
  <2>3. m1.node[n].add_next = INVALID /\ m1.node[n].add_prev = INVALID
    <3>1. Field(m1, "add_next")[n] = INVALID /\ Field(m1, "add_prev")[n] = INVALID
      BY <1>3, <1>6, <1>7 DEF AddShape
    <3> QED BY <1>3, <3>1 DEF Field
  <2>4. free(m1.pool, m1.node[n].chunk) = pl2
    BY <1>8, <1>11 DEF pl2, p
  <2>5. free(m1.pool, m1.node[n].chunk) \in PoolType
    BY <1>12, <2>4
  <2>6. get_bucket_id(m1.node[n].key) = b
    BY <1>3, <1>4, <1>9
  <2>7. /\ m2 \in MapType
        /\ BucketShape(m2, bl2)
        /\ \A f \in {"free_list", "add_head", "add_tail"} : m2[f] = m1[f]
        /\ \A f \in {"add_next", "add_prev"} : Field(m2, f) = Field(m1, f)
        /\ m2.pool = free(m1.pool, m1.node[n].chunk)
        /\ m2.used_node_num = m1.used_node_num - 1
        /\ m2.used_bucket_num = Cardinality(UsedBuckets(m2))
        /\ \A x \in Node \ Range(bl[b]) : Field(m2, "next")[x] = Field(m1, "next")[x]
        /\ \A x \in Node : /\ m2.node[x].key = IF x = n THEN NoKey ELSE m1.node[x].key
                           /\ m2.node[x].len = IF x = n THEN 0 ELSE m1.node[x].len
                           /\ m2.node[x].chunk = IF x = n THEN INVALID ELSE m1.node[x].chunk
    <3>1. m1 \in MapType /\ Apart(bl)
      BY <1>2, <1>7
    <3> HIDE DEF pl2
    <3> QED BY <2>1, <2>2, <2>3, <2>5, <2>6, <3>1, FreeNode DEF m2, bl2
  <2> QED BY <2>4, <2>7
\* the free list
<1>14. /\ r \in MapType
       /\ Field(r, "next") = Put(Field(m2, "next"), n, m2.free_list)
       /\ r.free_list = n
       /\ Same(m2, r, {"free_list"}, {"next"})
  <2>1. r = free_list_insert(m2, n)
    BY DEF r, delete_node, m2, m1
  <2> QED BY <1>3, <1>13, <2>1, FreeListInsert
<1>15. /\ r.bucket = m2.bucket /\ r.pool = m2.pool /\ r.add_head = m2.add_head /\ r.add_tail = m2.add_tail
       /\ r.used_node_num = m2.used_node_num /\ r.used_bucket_num = m2.used_bucket_num
       /\ Field(r, "key") = Field(m2, "key") /\ Field(r, "len") = Field(m2, "len")
       /\ Field(r, "chunk") = Field(m2, "chunk") /\ Field(r, "prev") = Field(m2, "prev")
       /\ Field(r, "add_next") = Field(m2, "add_next") /\ Field(r, "add_prev") = Field(m2, "add_prev")
  BY <1>14 DEF Same, MapFields, NodeFields, Links
<1>16. \A x \in Node : /\ r.node[x].key = IF x = n THEN NoKey ELSE m.node[x].key
                       /\ r.node[x].len = IF x = n THEN 0 ELSE m.node[x].len
                       /\ r.node[x].chunk = IF x = n THEN INVALID ELSE m.node[x].chunk
  <2>1. \A x \in Node : /\ r.node[x].key = m2.node[x].key /\ r.node[x].len = m2.node[x].len
                        /\ r.node[x].chunk = m2.node[x].chunk
    BY <1>15, SameNode
  <2> QED BY <1>9, <1>13, <2>1
<1>17. Range(fl) \subseteq Node /\ \A x \in Range(fl) : x \notin Range(bl[b])
  <2>1. Range(fl) \subseteq Node
    BY <1>2, RangeOf DEF List
  <2> QED BY <1>1, <2>1 DEF Placed
<1>18. FreeShape(r, fl2)
  <2> DEFINE f  == Field(m, "next")
             f2 == Field(m2, "next")
  <2>1. Linked(f, m.free_list, fl) /\ fl \in Seq(Node)
    BY <1>1 DEF FreeShape, List
  <2>2. \A x \in Range(fl) : f2[x] = f[x]
    BY <1>8, <1>13, <1>17
  <2>3. f2 \in [Node -> Handlers(Node)]
    BY <1>13, LinkType DEF Links
  <2>4. Field(r, "next") = Put(f2, n, m.free_list)
    BY <1>8, <1>13, <1>14
  <2>5. INVALID \notin Node
    BY NodeHandlers
  <2> HIDE DEF f, f2
  <2>6. Linked(f2, m.free_list, fl)
    BY <2>1, <2>2, SameLinks
  <2>7. Linked(Put(f2, n, m.free_list), n, fl2)
    BY <1>2, <1>3, <1>4, <2>3, <2>5, <2>6, PushLinks DEF fl2
  <2>8. fl2 \in List(Node)
    BY <1>2, <1>3, <1>4, PushList DEF fl2
  <2> QED BY <1>14, <2>4, <2>7, <2>8 DEF FreeShape
<1>19. \A x \in Bucket : Range(bl2[x]) = Range(bl[x]) \ {n}
  <2>1. \A x \in Bucket : Range(bl2[x]) = IF x = b THEN Range(bl[b]) \ {bl[b][j]} ELSE Range(bl[x])
    BY <1>2, TakeFromIs DEF bl2
  <2>2. \A x \in Bucket : x # b => n \notin Range(bl[x])
    BY <1>1, <1>3, <1>4 DEF Placed
  <2> QED BY <2>1, <2>2
<1>20. BucketShape(r, bl2)
  <2>1. ASSUME NEW x \in Bucket, NEW y \in Range(bl2[x])
        PROVE  Field(r, "next")[y] = Field(m2, "next")[y] /\ Field(r, "prev")[y] = Field(m2, "prev")[y]
    <3>1. y # n /\ y \in Node
      BY <1>1, <1>19, PlacedApart
    <3>2. Field(m2, "next") \in [Node -> Handlers(Node)]
      BY <1>13, LinkType DEF Links
    <3> QED BY <1>14, <1>15, <3>1, <3>2 DEF Put
  <2> QED BY <1>13, <1>15, <2>1, SameBuckets
<1>21. AddShape(r, a)
  <2>1. /\ r.add_head = m1.add_head /\ r.add_tail = m1.add_tail
        /\ Field(r, "add_next") = Field(m1, "add_next") /\ Field(r, "add_prev") = Field(m1, "add_prev")
    BY <1>13, <1>15
  <2> QED BY <1>7, <2>1 DEF AddShape
<1>22. Len(fl2) = Len(fl) + 1 /\ Range(fl2) = Range(fl) \cup {n}
  BY <1>2, <1>3, <1>4, PushList DEF fl2
<1>23. Placed(r, fl2, bl2, a)
  <2> SUFFICES ASSUME NEW x \in Node
               PROVE  /\ x \in Range(fl2) <=> r.node[x].key = NoKey
                      /\ x \in Range(a) <=> r.node[x].key # NoKey
                      /\ \A y \in Bucket : x \in Range(bl2[y]) <=> /\ r.node[x].key # NoKey
                                                                    /\ get_bucket_id(r.node[x].key) = y
    BY DEF Placed
  <2>1. /\ x \in Range(fl) <=> m.node[x].key = NoKey
        /\ x \in Range(al) <=> m.node[x].key # NoKey
        /\ \A y \in Bucket : x \in Range(bl[y]) <=> /\ m.node[x].key # NoKey
                                                     /\ get_bucket_id(m.node[x].key) = y
    BY <1>1 DEF Placed
  <2>2. r.node[x].key = IF x = n THEN NoKey ELSE m.node[x].key
    BY <1>16
  <2>3. CASE x = n
    BY <1>6, <1>19, <1>22, <2>2, <2>3
  <2>4. CASE x # n
    BY <1>6, <1>19, <1>22, <2>1, <2>2, <2>4
  <2> QED BY <2>3, <2>4
<1>24. Counted(r, fl2)
  <2>1. UsedBuckets(r) = UsedBuckets(m2)
    BY <1>15 DEF UsedBuckets
  <2>2. Len(fl) \in Nat /\ m.used_node_num \in Int /\ NodeTotal \in Nat
    BY <1>1, <1>2, FreeListIs, NodeHandlers DEF MapType
  <2> QED BY <1>1, <1>8, <1>13, <1>15, <1>22, <2>1, <2>2 DEF Counted
<1>25. PICK f : PoolLinks(pl2, With(hd, n, INVALID), f, ch2)
  BY <1>12
<1>26. Filled(r, f, ch2, D2)
  <2>1. Field(r, "chunk") = With(hd, n, INVALID)
    BY <1>3, <1>16 DEF hd, With, Field
  <2>2. r.pool = pl2
    BY <1>13, <1>15
  <2>3. \A x \in Node : D2[x] = IF x = n THEN <<>> ELSE D[x]
    BY <1>10 DEF PoolData, With, D2
  <2>4. Len(<<>>) = 0
    BY Nothing
  <2>5. \A x \in Node : /\ r.node[x].len = Len(D2[x]) /\ D2[x] \in Data \cup {<<>>}
                        /\ r.node[x].key = NoKey => D2[x] = <<>>
    BY <1>1, <1>16, <2>3, <2>4 DEF Filled
  <2> QED BY <1>12, <1>25, <2>1, <2>2, <2>5 DEF Filled
<1>27. Shape(r, fl2, bl2, a, f, ch2, D2)
  BY <1>14, <1>18, <1>20, <1>21, <1>23, <1>24, <1>26 DEF Shape
<1> QED BY <1>16, <1>27 DEF r, fl2, bl2, ch2, D2

\* A map is what its fields and those of its nodes are.
LEMMA SameMap ==
    ASSUME NEW m \in MapType, NEW r \in MapType, Same(m, r, {}, {})
    PROVE  r = m
<1>1. ASSUME NEW n \in Node PROVE r.node[n] = m.node[n]
  <2>1. r.node[n] \in NodeType /\ m.node[n] \in NodeType
    BY DEF MapType
  <2>2. \A f \in NodeFields : r.node[n][f] = m.node[n][f]
    <3>1. \A f \in NodeFields : Field(r, f) = Field(m, f)
      BY DEF Same
    <3> QED BY <3>1, SameNode
  <2>3. /\ r.node[n].key = m.node[n].key /\ r.node[n].len = m.node[n].len
        /\ r.node[n].chunk = m.node[n].chunk
        /\ r.node[n].next = m.node[n].next /\ r.node[n].prev = m.node[n].prev
        /\ r.node[n].add_next = m.node[n].add_next /\ r.node[n].add_prev = m.node[n].add_prev
    BY <2>2 DEF NodeFields, Links
  <2> QED BY <2>1, <2>3 DEF NodeType
<1>2. r.node = m.node
  BY <1>1 DEF MapType
<1>3. /\ r.bucket = m.bucket /\ r.free_list = m.free_list /\ r.pool = m.pool
      /\ r.add_head = m.add_head /\ r.add_tail = m.add_tail
      /\ r.used_node_num = m.used_node_num /\ r.used_bucket_num = m.used_bucket_num
  BY DEF Same, MapFields
<1> QED BY <1>2, <1>3 DEF MapType

\* A map with another pool.
LEMMA SetPool ==
    ASSUME NEW m \in MapType, NEW p \in PoolType
    PROVE  LET r == [m EXCEPT !.pool = p]
           IN  r \in MapType /\ r.pool = p /\ Same(m, r, {"pool"}, {})
<1> DEFINE r == [m EXCEPT !.pool = p]
<1>1. r \in MapType /\ r.node = m.node /\ r.pool = p /\ \A x \in MapFields \ {"pool"} : r[x] = m[x]
  BY DEF MapType, MapFields
<1> HIDE DEF r
<1>2. \A f \in NodeFields : Field(r, f) = Field(m, f)
  BY <1>1 DEF Field
<1> QED BY <1>1, <1>2 DEF Same, r

\* A node that leaves the free list and goes back has not been away.
LEMMA GivenBack ==
    ASSUME NEW m \in MapType, m.free_list \in Node
    PROVE  free_list_insert(free_list_remove(m), m.free_list) = m
<1> DEFINE n == m.free_list
           f == Field(m, "next")
           o == free_list_remove(m)
           r == free_list_insert(o, n)
<1>1. /\ o \in MapType /\ Field(o, "next") = Put(f, n, INVALID) /\ o.free_list = f[n]
      /\ Same(m, o, {"free_list"}, {"next"})
  BY FreeListRemove
<1>2. f \in [Node -> Handlers(Node)]
  BY LinkType DEF Links
<1> HIDE DEF o, r
<1>3. /\ r \in MapType /\ Field(r, "next") = Put(Field(o, "next"), n, o.free_list)
      /\ r.free_list = n /\ Same(o, r, {"free_list"}, {"next"})
  BY <1>1, FreeListInsert DEF r
<1> HIDE DEF f
<1>4. Field(r, "next") = f
  BY <1>1, <1>2, <1>3 DEF Put
<1>5. Same(m, r, {}, {})
  BY <1>1, <1>3, <1>4 DEF Same, f
<1>6. r = m
  BY <1>3, <1>5, SameMap
<1> QED BY <1>6 DEF r, o

\* malloc gives no chunk when there are none, or none are asked for.
LEMMA MallocHead ==
    ASSUME NEW p \in PoolType, NEW k \in Nat, malloc(p, k).head # INVALID
    PROVE  k # 0 /\ k <= p.free_total
<1>1. p.free_total \in Int
  BY DEF PoolType
<1>2. ~Refused(p, k)
  BY DEF malloc
<1> QED BY <1>1, <1>2 DEF Refused

\* A node leaves the free list for the list of its bucket, with its data.
LEMMA Enter ==
    ASSUME NEW m, NEW fl, NEW bl, NEW al, NEW fc, NEW ch, NEW D, Shape(m, fl, bl, al, fc, ch, D),
           NEW key \in Key, NEW data \in Data, NEW n, n = m.free_list, n # INVALID,
           NEW head, head = malloc(m.pool, get_chunk_num(Len(data))).head, head # INVALID
    PROVE  LET r == insert_node(m, key, data)
           IN  /\ n \in Node /\ m.node[n].key = NoKey
               /\ \E l, a, f, c : Shape(r, l, PushTo(bl, get_bucket_id(key), n), a, f, c,
                                        With(D, n, data))
               /\ \A x \in Node : r.node[x].key = IF x = n THEN key ELSE m.node[x].key
<1> DEFINE b   == get_bucket_id(key)
           k   == get_chunk_num(Len(data))
           got == malloc(m.pool, k)
           pl2  == split(got.pool, head, data)
           out == free_list_remove(m)
           put == [out EXCEPT !.pool = pl2]
           u   == use_node(put, n, key, Len(data), head)
           r   == insert_add_list_head(u, n)
           fl2 == RemoveAt(fl, 1)
           bl2 == PushTo(bl, b, n)
           D2  == With(D, n, data)
<1>1. /\ m \in MapType /\ FreeShape(m, fl) /\ BucketShape(m, bl) /\ AddShape(m, al)
      /\ Placed(m, fl, bl, al) /\ Counted(m, fl) /\ Filled(m, fc, ch, D)
  BY DEF Shape
<1>2. /\ bl \in [Bucket -> List(Node)] /\ fl \in List(Node) /\ al \in List(Node) /\ Apart(bl)
  BY <1>1, PlacedApart DEF BucketShape, FreeShape, AddShape
<1>3. b \in Bucket /\ key # NoKey
  BY BucketOf
<1>4. data \in Seq(Octet) /\ Len(data) \in Nat /\ k \in Nat
  BY DataAssumption, LenProperties, ChunkRoom
<1>5. r = insert_node(m, key, data)
  <2>1. got.head = head
    OBVIOUS
  <2>2. got.head # INVALID
    BY <2>1
  <2> HIDE DEF got
  <2> QED BY <2>1, <2>2 DEF insert_node, got
\* the free list
<1>6. /\ n \in Node /\ n \in Range(fl) /\ fl2 \in List(Node) /\ Len(fl2) = Len(fl) - 1
      /\ Range(fl2) = Range(fl) \ {n}
      /\ Linked(Put(Field(m, "next"), n, INVALID), Field(m, "next")[n], fl2)
  <2> DEFINE f == Field(m, "next")
  <2>1. Linked(f, n, fl) /\ fl \in List(Node)
    BY <1>1 DEF FreeShape
  <2>2. 1 \in 1 .. Len(fl)
    BY <2>1 DEF Linked, At
  <2>3. f \in [Node -> Handlers(Node)] /\ INVALID \notin Node
    BY <1>1, LinkType, NodeHandlers DEF Links
  <2> HIDE DEF f, b, k, got, pl2, out, put, u, r
  <2>4. n = fl[1] /\ n \in Node /\ Linked(Put(f, n, INVALID), f[n], fl2)
    BY <2>1, <2>2, <2>3, PopLinks
  <2>5. fl2 \in List(Node) /\ Len(fl2) = Len(fl) - 1 /\ Range(fl2) = Range(fl) \ {fl[1]}
    BY <2>1, <2>2, TakeList
  <2>6. fl[1] \in Range(fl)
    BY <2>1, <2>2, RangeOf DEF List
  <2> QED BY <2>4, <2>5, <2>6 DEF f
<1> HIDE DEF b, k, got, pl2, fl2, bl2, D2, r, u, out
<1>7. m.node[n].key = NoKey /\ n \notin Range(al) /\ \A x \in Bucket : n \notin Range(bl[x])
  BY <1>1, <1>6 DEF Placed
<1>8. /\ out \in MapType
      /\ Field(out, "next") = Put(Field(m, "next"), n, INVALID)
      /\ out.free_list = Field(m, "next")[n]
      /\ Same(m, out, {"free_list"}, {"next"})
  BY <1>1, <1>6, FreeListRemove DEF out
\* the chunks
<1> DEFINE p  == m.pool
           hd == Field(m, "chunk")
<1>9. PoolLinks(p, hd, fc, ch) /\ PoolData(p, ch, D) /\ p \in PoolType /\ p.free_total = Len(fc)
  BY <1>1 DEF Filled, PoolLinks
<1>10. ch[n] = <<>>
  <2>1. D[n] = <<>> /\ ch[n] \in Seq(Chunk)
    BY <1>1, <1>6, <1>7, <1>9, ChunksOf DEF Filled, List
  <2>2. Len(ch[n]) = get_chunk_num(Len(D[n]))
    BY <1>6, <1>9 DEF PoolData, HoldsData
  <2>3. Len(ch[n]) = 0
    BY <2>1, <2>2, ChunkRoom, Nothing
  <2> QED BY <2>1, <2>3, EmptySeq
<1>11. k \in 1 .. Len(fc)
  <2>1. k # 0 /\ k <= p.free_total
    BY <1>4, <1>9, MallocHead DEF k
  <2>2. Len(fc) \in Nat
    BY <1>9, ChunksOf, <1>6, LenProperties DEF List
  <2> QED BY <1>4, <1>9, <2>1, <2>2
<1>12. /\ head \in Chunk
       /\ \E f, q : /\ PoolLinks(pl2, With(hd, n, head), f, With(ch, n, q))
                    /\ PoolData(pl2, With(ch, n, q), D2)
  <2>1. head = malloc(p, k).head /\ pl2 = split(malloc(p, k).pool, malloc(p, k).head, data)
    BY DEF pl2, got, k
  <2>2. /\ malloc(p, k).head \in Chunk
        /\ \E f, q : /\ PoolLinks(split(malloc(p, k).pool, malloc(p, k).head, data),
                                  With(hd, n, malloc(p, k).head), f, With(ch, n, q))
                     /\ PoolData(split(malloc(p, k).pool, malloc(p, k).head, data), With(ch, n, q),
                                 With(D, n, data))
    <3>1. k = get_chunk_num(Len(data))
      BY DEF k
    <3> HIDE DEF p, hd
    <3> QED BY <1>4, <1>6, <1>9, <1>10, <1>11, <3>1, TakeChunks
  <2> QED BY <2>1, <2>2 DEF D2
<1>13. PICK f, q : /\ PoolLinks(pl2, With(hd, n, head), f, With(ch, n, q))
                   /\ PoolData(pl2, With(ch, n, q), D2)
  BY <1>12
<1>14. pl2 \in PoolType /\ head \in Handlers(Chunk)
  BY <1>12, <1>13 DEF PoolLinks, Handlers
<1> HIDE DEF p, hd
<1>15. put \in MapType /\ put.pool = pl2 /\ Same(out, put, {"pool"}, {})
  BY <1>8, <1>14, SetPool
<1> HIDE DEF put
<1>16. /\ put.bucket = m.bucket /\ put.free_list = out.free_list
       /\ put.add_head = m.add_head /\ put.add_tail = m.add_tail
       /\ put.used_node_num = m.used_node_num /\ put.used_bucket_num = m.used_bucket_num
       /\ Field(put, "next") = Field(out, "next") /\ Field(put, "prev") = Field(m, "prev")
       /\ Field(put, "add_next") = Field(m, "add_next") /\ Field(put, "add_prev") = Field(m, "add_prev")
       /\ Field(put, "key") = Field(m, "key") /\ Field(put, "len") = Field(m, "len")
       /\ Field(put, "chunk") = Field(m, "chunk")
  BY <1>8, <1>15 DEF Same, MapFields, NodeFields, Links
<1>17. \A x \in Node : /\ put.node[x].key = m.node[x].key /\ put.node[x].len = m.node[x].len
                       /\ put.node[x].chunk = m.node[x].chunk
  BY <1>16, SameNode
<1>18. \A x \in Node \ {n} : Field(put, "next")[x] = Field(m, "next")[x]
  <2>1. Field(m, "next") \in [Node -> Handlers(Node)]
    BY <1>1, LinkType DEF Links
  <2> QED BY <1>8, <1>16, <2>1 DEF Put
\* the bucket
<1>19. BucketShape(put, bl)
  <2>1. ASSUME NEW x \in Bucket, NEW y \in Range(bl[x])
        PROVE  Field(put, "next")[y] = Field(m, "next")[y] /\ Field(put, "prev")[y] = Field(m, "prev")[y]
    <3>1. y # n /\ y \in Node
      BY <1>1, <1>7, PlacedApart
    <3> QED BY <1>16, <1>18, <3>1
  <2> QED BY <1>1, <1>16, <2>1, SameBuckets
<1>20. /\ u \in MapType
       /\ BucketShape(u, bl2)
       /\ Same(put, u, {"bucket", "used_node_num", "used_bucket_num"},
                       {"next", "prev", "key", "len", "chunk"})
       /\ u.used_node_num = put.used_node_num + 1
       /\ u.used_bucket_num = Cardinality(UsedBuckets(u))
       /\ \A x \in Node \ {n} : Field(u, "next")[x] = Field(put, "next")[x]
       /\ \A x \in Node : /\ u.node[x].key = IF x = n THEN key ELSE put.node[x].key
                          /\ u.node[x].len = IF x = n THEN Len(data) ELSE put.node[x].len
                          /\ u.node[x].chunk = IF x = n THEN head ELSE put.node[x].chunk
  <2>1. put.used_bucket_num = Cardinality(UsedBuckets(put))
    BY <1>1, <1>16 DEF Counted, UsedBuckets
  <2>2. put \in MapType
    BY <1>15
  <2> QED BY <1>2, <1>4, <1>6, <1>7, <1>14, <1>19, <2>1, <2>2, UseNode DEF u, bl2, b
\* the add list
<1>21. /\ u.free_list = put.free_list /\ u.add_head = put.add_head /\ u.add_tail = put.add_tail
       /\ u.pool = put.pool
       /\ Field(u, "add_next") = Field(put, "add_next") /\ Field(u, "add_prev") = Field(put, "add_prev")
  BY <1>20 DEF Same, MapFields, NodeFields, Links
<1>22. AddShape(u, al)
  BY <1>1, <1>16, <1>21 DEF AddShape
<1> DEFINE m0 == delete_from_add_list(u, n)
<1>23. m0 \in MapType /\ AddShape(m0, al) /\ Same(u, m0, {"add_head", "add_tail"}, {"add_next", "add_prev"})
  BY <1>6, <1>7, <1>20, <1>22, AddAbsent
<1> DEFINE a == <<n>> \o al
<1>24. r \in MapType /\ AddShape(r, a) /\ Same(u, r, {"add_head", "add_tail"}, {"add_next", "add_prev"})
  <2>1. u \in MapType
    BY <1>20
  <2> QED BY <1>6, <1>7, <1>23, <2>1, AddPush DEF r
<1>25. Range(a) = Range(al) \cup {n}
  BY <1>2, <1>6, <1>7, PushList
<1> HIDE DEF a, m0
<1>26. /\ r.bucket = u.bucket /\ r.free_list = u.free_list /\ r.pool = u.pool
       /\ r.used_node_num = u.used_node_num /\ r.used_bucket_num = u.used_bucket_num
       /\ Field(r, "key") = Field(u, "key") /\ Field(r, "len") = Field(u, "len")
       /\ Field(r, "chunk") = Field(u, "chunk")
       /\ Field(r, "next") = Field(u, "next") /\ Field(r, "prev") = Field(u, "prev")
  BY <1>24, SameButAdd
<1>27. \A x \in Node : /\ r.node[x].key = IF x = n THEN key ELSE m.node[x].key
                       /\ r.node[x].len = IF x = n THEN Len(data) ELSE m.node[x].len
                       /\ r.node[x].chunk = IF x = n THEN head ELSE m.node[x].chunk
  <2>1. \A x \in Node : /\ r.node[x].key = u.node[x].key /\ r.node[x].len = u.node[x].len
                        /\ r.node[x].chunk = u.node[x].chunk
    BY <1>24, SameButAdd
  <2> QED BY <1>17, <1>20, <2>1
\* all of it
<1>28. FreeShape(r, fl2)
  <2>1. Range(fl2) \subseteq Node \ {n} /\ fl2 \in Seq(Node)
    BY <1>6, RangeOf DEF List
  <2> DEFINE g  == Field(put, "next")
             g2 == Field(r, "next")
  <2>2. Linked(g, r.free_list, fl2)
    BY <1>6, <1>8, <1>16, <1>21, <1>26
  <2>3. \A x \in Range(fl2) : g2[x] = g[x]
    BY <1>20, <1>26, <2>1
  <2> HIDE DEF g, g2
  <2>4. Linked(g2, r.free_list, fl2)
    BY <2>1, <2>2, <2>3, SameLinks
  <2> QED BY <1>6, <2>4 DEF FreeShape, g2
<1>29. BucketShape(r, bl2)
  BY <1>20, <1>26 DEF BucketShape
<1>30. \A x \in Bucket : Range(bl2[x]) = IF x = b THEN Range(bl[x]) \cup {n} ELSE Range(bl[x])
  <2>1. bl \in [Bucket -> List(Node)] /\ b \in Bucket /\ n \in Node /\ n \notin Range(bl[b])
    BY <1>2, <1>3, <1>6, <1>7
  <2>2. \A x \in Bucket : Range(PushTo(bl, b, n)[x]) = IF x = b THEN Range(bl[b]) \cup {n}
                                                                ELSE Range(bl[x])
    BY <2>1, PushToIs
  <2> QED BY <2>2 DEF bl2
<1>31. Placed(r, fl2, bl2, a)
  <2> SUFFICES ASSUME NEW x \in Node
               PROVE  /\ x \in Range(fl2) <=> r.node[x].key = NoKey
                      /\ x \in Range(a) <=> r.node[x].key # NoKey
                      /\ \A y \in Bucket : x \in Range(bl2[y]) <=> /\ r.node[x].key # NoKey
                                                                    /\ get_bucket_id(r.node[x].key) = y
    BY DEF Placed
  <2>1. /\ x \in Range(fl) <=> m.node[x].key = NoKey
        /\ x \in Range(al) <=> m.node[x].key # NoKey
        /\ \A y \in Bucket : x \in Range(bl[y]) <=> /\ m.node[x].key # NoKey
                                                     /\ get_bucket_id(m.node[x].key) = y
    BY <1>1 DEF Placed
  <2>2. r.node[x].key = IF x = n THEN key ELSE m.node[x].key
    BY <1>27
  <2>3. CASE x = n
    BY <1>3, <1>6, <1>7, <1>25, <1>30, <2>2, <2>3 DEF b
  <2>4. CASE x # n
    BY <1>6, <1>25, <1>30, <2>1, <2>2, <2>4
  <2> QED BY <2>3, <2>4
<1>32. Counted(r, fl2)
  <2>1. UsedBuckets(r) = UsedBuckets(u)
    BY <1>26 DEF UsedBuckets
  <2>2. Len(fl) \in Nat /\ m.used_node_num \in Int /\ NodeTotal \in Nat
    BY <1>1, <1>2, FreeListIs, NodeHandlers DEF MapType
  <2> QED BY <1>1, <1>6, <1>16, <1>20, <1>26, <2>1, <2>2 DEF Counted
<1>33. Filled(r, f, With(ch, n, q), D2)
  <2>1. Field(r, "chunk") = With(hd, n, head)
    BY <1>6, <1>27 DEF hd, With, Field
  <2>2. r.pool = pl2
    BY <1>15, <1>21, <1>26
  <2>3. \A x \in Node : D2[x] = IF x = n THEN data ELSE D[x]
    BY <1>9 DEF PoolData, With, D2
  <2>4. \A x \in Node : /\ r.node[x].len = Len(D2[x]) /\ D2[x] \in Data \cup {<<>>}
                        /\ r.node[x].key = NoKey => D2[x] = <<>>
    BY <1>1, <1>3, <1>27, <2>3 DEF Filled
  <2> QED BY <1>13, <2>1, <2>2, <2>4 DEF Filled
<1>34. Shape(r, fl2, bl2, a, f, With(ch, n, q), D2)
  BY <1>24, <1>28, <1>29, <1>31, <1>32, <1>33 DEF Shape
<1> QED BY <1>5, <1>6, <1>7, <1>27, <1>34 DEF bl2, D2, b

\* the map with other data in a node
SetData(m, n, p, len, head) == [m EXCEPT !.pool = p, !.node[n] = [@ EXCEPT !.len = len, !.chunk = head]]

\* What this leaves of the map.
LEMMA SetDataIs ==
    ASSUME NEW m \in MapType, NEW n \in Node, NEW p \in PoolType, NEW len \in Nat,
           NEW head \in Handlers(Chunk)
    PROVE  LET r == SetData(m, n, p, len, head)
           IN  /\ r \in MapType /\ r.pool = p
               /\ Same(m, r, {"pool"}, {"len", "chunk"})
               /\ \A x \in Node : /\ r.node[x].len = IF x = n THEN len ELSE m.node[x].len
                                  /\ r.node[x].chunk = IF x = n THEN head ELSE m.node[x].chunk
<1> DEFINE w == [m.node[n] EXCEPT !.len = len, !.chunk = head]
           r == SetData(m, n, p, len, head)
<1>1. m.node \in [Node -> NodeType] /\ m.node[n] \in NodeType
  BY DEF MapType
<1>2. w \in NodeType /\ w.len = len /\ w.chunk = head /\ \A f \in NodeFields \ {"len", "chunk"} : w[f] = m.node[n][f]
  BY <1>1 DEF NodeType, NodeFields, Links
<1>3. r = [m EXCEPT !.pool = p, !.node[n] = w]
  BY DEF SetData
<1> HIDE DEF w, r
<1>4. r.node = [m.node EXCEPT ![n] = w]
  BY <1>3 DEF MapType
<1>5. r.pool = p /\ \A x \in MapFields \ {"pool"} : r[x] = m[x]
  BY <1>3 DEF MapType, MapFields
<1>6. r = [node |-> r.node, bucket |-> m.bucket, free_list |-> m.free_list,
           add_head |-> m.add_head, add_tail |-> m.add_tail,
           used_node_num |-> m.used_node_num, used_bucket_num |-> m.used_bucket_num, pool |-> p]
  BY <1>3 DEF MapType
<1>7. r.node \in [Node -> NodeType]
  BY <1>1, <1>2, <1>4
<1>8. r \in MapType
  BY <1>6, <1>7 DEF MapType
<1>9. \A x \in Node : r.node[x] = IF x = n THEN w ELSE m.node[x]
  BY <1>1, <1>4
<1>10. \A f \in NodeFields \ {"len", "chunk"} : Field(r, f) = Field(m, f)
  BY <1>2, <1>9 DEF Field
<1>11. Same(m, r, {"pool"}, {"len", "chunk"})
  BY <1>5, <1>10 DEF Same
<1>12. \A x \in Node : /\ r.node[x].len = IF x = n THEN len ELSE m.node[x].len
                       /\ r.node[x].chunk = IF x = n THEN head ELSE m.node[x].chunk
  BY <1>2, <1>9
<1> QED BY <1>5, <1>8, <1>11, <1>12 DEF r

\* A node has other data, and perhaps other chunks.
LEMMA FilledAnew ==
    ASSUME NEW m, NEW fl, NEW bl, NEW al, NEW fc, NEW ch, NEW D, Shape(m, fl, bl, al, fc, ch, D),
           NEW n \in Node, m.node[n].key # NoKey, NEW data \in Data, NEW p, NEW head, NEW f, NEW c,
           PoolLinks(p, With(Field(m, "chunk"), n, head), f, c), PoolData(p, c, With(D, n, data)),
           head \in Handlers(Chunk)
    PROVE  LET r == SetData(m, n, p, Len(data), head)
           IN  /\ Shape(r, fl, bl, al, f, c, With(D, n, data))
               /\ Same(m, r, {"pool"}, {"len", "chunk"})
<1> DEFINE r  == SetData(m, n, p, Len(data), head)
           D2 == With(D, n, data)
<1>1. /\ m \in MapType /\ FreeShape(m, fl) /\ BucketShape(m, bl) /\ AddShape(m, al)
      /\ Placed(m, fl, bl, al) /\ Counted(m, fl) /\ Filled(m, fc, ch, D)
  BY DEF Shape
<1>2. data \in Seq(Octet) /\ Len(data) \in Nat
  BY DataAssumption, LenProperties
<1>3. p \in PoolType
  BY DEF PoolLinks
<1>4. /\ r \in MapType /\ r.pool = p
      /\ Same(m, r, {"pool"}, {"len", "chunk"})
      /\ \A x \in Node : /\ r.node[x].len = IF x = n THEN Len(data) ELSE m.node[x].len
                         /\ r.node[x].chunk = IF x = n THEN head ELSE m.node[x].chunk
  BY <1>1, <1>2, <1>3, SetDataIs
<1> HIDE DEF r
<1>5. /\ r.bucket = m.bucket /\ r.free_list = m.free_list
      /\ r.add_head = m.add_head /\ r.add_tail = m.add_tail
      /\ r.used_node_num = m.used_node_num /\ r.used_bucket_num = m.used_bucket_num
      /\ Field(r, "key") = Field(m, "key")
      /\ Field(r, "next") = Field(m, "next") /\ Field(r, "prev") = Field(m, "prev")
      /\ Field(r, "add_next") = Field(m, "add_next") /\ Field(r, "add_prev") = Field(m, "add_prev")
  BY <1>4 DEF Same, MapFields, NodeFields, Links
<1>6. \A x \in Node : r.node[x].key = m.node[x].key
  BY <1>5, SameNode
<1>7. FreeShape(r, fl) /\ BucketShape(r, bl) /\ AddShape(r, al)
  BY <1>1, <1>5 DEF FreeShape, BucketShape, AddShape
<1>8. Placed(r, fl, bl, al)
  BY <1>1, <1>6 DEF Placed
<1>9. Counted(r, fl)
  BY <1>1, <1>5 DEF Counted, UsedBuckets
<1>10. Filled(r, f, c, D2)
  <2>1. Field(r, "chunk") = With(Field(m, "chunk"), n, head)
    BY <1>4 DEF Field, With
  <2>2. D \in [Node -> Seq(Octet)]
    BY <1>1 DEF Filled, PoolData
  <2>3. \A x \in Node : D2[x] = IF x = n THEN data ELSE D[x]
    BY <2>2 DEF With
  <2>4. \A x \in Node : /\ r.node[x].len = Len(D2[x]) /\ D2[x] \in Data \cup {<<>>}
                        /\ r.node[x].key = NoKey => D2[x] = <<>>
    BY <1>1, <1>4, <1>6, <2>3 DEF Filled
  <2> QED BY <1>4, <2>1, <2>4 DEF Filled
<1> QED BY <1>4, <1>7, <1>8, <1>9, <1>10 DEF Shape, r

\* The data of a node is replaced, unless there is no room for the other.
LEMMA Replace ==
    ASSUME NEW m, NEW fl, NEW bl, NEW al, NEW fc, NEW ch, NEW D, Shape(m, fl, bl, al, fc, ch, D),
           NEW n \in Node, m.node[n].key # NoKey, NEW data \in Data
    PROVE  LET r == update_node(m, n, data)
           IN  \/ r = m
               \/ /\ \E f, c : Shape(r, fl, bl, al, f, c, With(D, n, data))
                  /\ Same(m, r, {"pool"}, {"len", "chunk"})
<1> DEFINE old   == get_chunk_num(m.node[n].len)
           num   == get_chunk_num(Len(data))
           p     == m.pool
           hd    == Field(m, "chunk")
           freed == free(p, m.node[n].chunk)
           got   == IF num = old THEN [pool |-> p, head |-> m.node[n].chunk] ELSE malloc(freed, num)
           q     == split(got.pool, got.head, data)
           r     == update_node(m, n, data)
<1>1. m \in MapType /\ Filled(m, fc, ch, D) /\ PoolLinks(p, hd, fc, ch) /\ PoolData(p, ch, D)
  BY DEF Shape, Filled
<1>2. data \in Seq(Octet) /\ Len(data) \in Nat /\ num \in Nat /\ (num = 0 <=> Len(data) = 0)
  BY DataAssumption, LenProperties, ChunkRoom
<1>3. hd[n] = m.node[n].chunk
  BY DEF Field
<1>4. Len(ch[n]) = old /\ D[n] \in Seq(Octet) /\ old \in Nat
  <2>1. m.node[n].len = Len(D[n]) /\ D[n] \in Seq(Octet) /\ Len(ch[n]) = get_chunk_num(Len(D[n]))
    BY <1>1 DEF Filled, PoolData, HoldsData
  <2> QED BY <2>1, ChunkRoom, LenProperties
<1> HIDE DEF old
<1>5. p.free_total = Len(fc) /\ Len(fc) \in Nat /\ hd \in [Node -> Handlers(Chunk)]
      /\ ch \in [Node -> List(Chunk)] /\ D \in [Node -> Seq(Octet)]
  <2>1. p.free_total = Len(fc) /\ fc \in List(Chunk) /\ hd \in [Node -> Handlers(Chunk)]
        /\ ch \in [Node -> List(Chunk)] /\ D \in [Node -> Seq(Octet)]
    BY <1>1 DEF PoolLinks, PoolData
  <2> QED BY <2>1, LenProperties DEF List
<1>6. CASE num > old /\ p.free_total < num - old
  BY <1>6 DEF update_node, old
<1>7. CASE ~(num > old /\ p.free_total < num - old)
  <2>1. r = SetData(m, n, q, Len(data), got.head)
    BY <1>7 DEF update_node, SetData, old
  <2>2. SUFFICES /\ got.head \in Handlers(Chunk)
                 /\ \E f, c : /\ PoolLinks(q, With(hd, n, got.head), f, c)
                              /\ PoolData(q, c, With(D, n, data))
    <3>1. PICK f, c : PoolLinks(q, With(hd, n, got.head), f, c) /\ PoolData(q, c, With(D, n, data))
      BY <2>2
    <3> HIDE DEF q, got, r
    <3>2. /\ Shape(r, fl, bl, al, f, c, With(D, n, data))
          /\ Same(m, r, {"pool"}, {"len", "chunk"})
      BY <2>1, <2>2, <3>1, FilledAnew
    <3> QED BY <3>2 DEF r
  <2>3. CASE num = old
    <3>1. got.head = hd[n] /\ got.pool = p /\ q = split(p, hd[n], data)
      BY <1>3, <2>3
    <3> HIDE DEF q, got, hd, p, num
    <3>2. Len(ch[n]) = get_chunk_num(Len(data))
      BY <1>4, <2>3 DEF num
    <3>3. PoolLinks(q, hd, fc, ch) /\ PoolData(q, ch, With(D, n, data))
      BY <1>1, <1>2, <3>1, <3>2, WriteChunks
    <3>4. With(hd, n, hd[n]) = hd /\ hd[n] \in Handlers(Chunk)
      BY <1>5 DEF With
    <3> QED BY <3>1, <3>3, <3>4
  <2>4. CASE num # old
    <3> DEFINE hd1 == With(hd, n, INVALID)
               ch1 == With(ch, n, <<>>)
               D1  == With(D, n, <<>>)
    <3>1. got = malloc(freed, num) /\ freed = free(p, hd[n])
      BY <1>3, <2>4
    <3> HIDE DEF got, freed, hd, p, num
    <3>2. /\ freed \in PoolType /\ PoolData(freed, ch1, D1)
          /\ \E f : PoolLinks(freed, hd1, f, ch1) /\ Len(f) = Len(ch[n]) + Len(fc)
      BY <1>1, <3>1, FreeChunks
    <3>3. PICK f : PoolLinks(freed, hd1, f, ch1) /\ Len(f) = Len(ch[n]) + Len(fc)
      BY <3>2
    <3>4. ch1[n] = <<>> /\ hd1[n] = INVALID
      BY <1>5 DEF With
    <3>5. /\ \A h : With(hd1, n, h) = With(hd, n, h)
          /\ With(D1, n, data) = With(D, n, data)
      BY <1>5 DEF With
    <3> HIDE DEF hd1, ch1, D1
    <3>6. CASE num = 0
      <4>1. got = [pool |-> freed, head |-> INVALID]
        BY <3>1, <3>6 DEF malloc, Refused
      <4>2. got.head = INVALID /\ q = split(freed, hd1[n], data)
        BY <3>4, <4>1
      <4>3. Len(ch1[n]) = get_chunk_num(Len(data))
        BY <3>4, <3>6, Nothing DEF num
      <4> HIDE DEF q
      <4>4. PoolLinks(q, hd1, f, ch1) /\ PoolData(q, ch1, With(D1, n, data))
        BY <1>2, <3>2, <3>3, <4>2, <4>3, WriteChunks
      <4>5. INVALID \in Handlers(Chunk)
        BY DEF Handlers
      <4> QED BY <3>5, <4>2, <4>4, <4>5 DEF hd1
    <3>7. CASE num # 0
      <4>1. num \in 1 .. Len(f)
        BY <1>2, <1>4, <1>5, <1>7, <3>3, <3>7
      <4>2. /\ got.head \in Chunk
            /\ \E g, l : /\ PoolLinks(q, With(hd1, n, got.head), g, With(ch1, n, l))
                         /\ PoolData(q, With(ch1, n, l), With(D1, n, data))
        <5>1. num = get_chunk_num(Len(data))
          BY DEF num
        <5> QED BY <1>2, <3>1, <3>2, <3>3, <3>4, <4>1, <5>1, TakeChunks
      <4> HIDE DEF q
      <4>3. got.head \in Handlers(Chunk)
        BY <4>2 DEF Handlers
      <4> QED BY <3>5, <4>2, <4>3
    <3> QED BY <3>6, <3>7
  <2> QED BY <2>3, <2>4
<1> QED BY <1>6, <1>7

\* The list of the numbers down to 1.
LEMMA CountDown ==
    ASSUME NEW n \in Nat \ {0}
    PROVE  LET q == [i \in 1 .. n |-> (n + 1) - i]
           IN  /\ q \in List(1 .. n) /\ Len(q) = n /\ Range(q) = 1 .. n
               /\ \A f : (\A x \in 1 .. n : f[x] = x - 1) => Linked(f, n, q)
<1> DEFINE q == [i \in 1 .. n |-> (n + 1) - i]
<1>1. \A i \in 1 .. n : q[i] = (n + 1) - i /\ q[i] \in 1 .. n
  OBVIOUS
<1>2. q \in Seq(1 .. n) /\ Len(q) = n
  BY <1>1
<1> HIDE DEF q
<1>3. q \in List(1 .. n)
  <2>1. \A i, j \in 1 .. Len(q) : q[i] = q[j] => i = j
    BY <1>1, <1>2
  <2> QED BY <1>2, <2>1 DEF List
<1>4. Range(q) = 1 .. n
  <2>1. Range(q) \subseteq 1 .. n
    BY <1>2, RangeOf
  <2>2. ASSUME NEW x \in 1 .. n PROVE x \in Range(q)
    <3>1. (n + 1) - x \in 1 .. Len(q) /\ q[(n + 1) - x] = x
      BY <1>1, <1>2
    <3>2. q[(n + 1) - x] \in Range(q)
      BY <1>2, <3>1, RangeOf, SMTT(30)
    <3> QED BY <3>1, <3>2
  <2> QED BY <2>1, <2>2
<1>5. ASSUME NEW f, \A x \in 1 .. n : f[x] = x - 1 PROVE Linked(f, n, q)
  <2>1. n = At(q, 1)
    <3>1. 1 \in 1 .. n /\ (n + 1) - 1 = n
      OBVIOUS
    <3> QED BY <1>1, <1>2, <3>1 DEF At
  <2>2. ASSUME NEW i \in 1 .. n PROVE f[q[i]] = At(q, i + 1)
    <3>1. f[q[i]] = q[i] - 1 /\ q[i] - 1 = n - i
      BY <1>1, <1>5
    <3>2. CASE i + 1 \in 1 .. n
      <4>1. At(q, i + 1) = (n + 1) - (i + 1)
        BY <1>1, <1>2, <3>2 DEF At
      <4> QED BY <3>1, <4>1
    <3>3. CASE i + 1 \notin 1 .. n
      <4>1. n - i = 0 /\ At(q, i + 1) = INVALID
        BY <1>2, <3>3 DEF At
      <4> QED BY <3>1, <4>1 DEF INVALID
    <3> QED BY <3>2, <3>3
  <2> QED BY <1>2, <2>1, <2>2 DEF Linked
<1> QED BY <1>2, <1>3, <1>4, <1>5 DEF q

\* A new map is empty.
LEMMA FreshShape ==
    /\ \E fl, al, fc, ch, D : Shape(FreshMap, fl, [b \in Bucket |-> <<>>], al, fc, ch, D)
    /\ \A n \in Node : FreshMap.node[n].key = NoKey
<1> DEFINE m  == FreshMap
           fl == [i \in 1 .. NodeTotal |-> (NodeTotal + 1) - i]
           fc == [i \in 1 .. ChunkTotal |-> (ChunkTotal + 1) - i]
           bl == [b \in Bucket |-> <<>>]
           ch == [n \in Node |-> <<>>]
           D  == [n \in Node |-> <<>>]
           z  == <<>>
<1>1. NodeTotal \in Nat \ {0} /\ ChunkTotal \in Nat \ {0}
  BY HashAssumption, ChunkAssumption
<1>2. /\ fl \in List(Node) /\ Len(fl) = NodeTotal /\ Range(fl) = Node
      /\ \A f : (\A x \in Node : f[x] = x - 1) => Linked(f, NodeTotal, fl)
  BY <1>1, CountDown DEF Node
<1>3. /\ fc \in List(Chunk) /\ Len(fc) = ChunkTotal /\ Range(fc) = Chunk
      /\ \A f : (\A x \in Chunk : f[x] = x - 1) => Linked(f, ChunkTotal, fc)
  BY <1>1, CountDown DEF Chunk
<1>4. /\ \A S : z \in List(S) /\ z \in Seq(S)
      /\ \A f : Linked(f, INVALID, z)
      /\ Range(z) = {} /\ Len(z) = 0
      /\ \A p : HoldsData(p, z, z)
  BY Nothing DEF List
<1>5. /\ \A n \in Node : bl = bl /\ ch[n] = z /\ D[n] = z
      /\ \A b \in Bucket : bl[b] = z
      /\ ch \in [Node -> List(Chunk)] /\ D \in [Node -> Seq(Octet)] /\ bl \in [Bucket -> List(Node)]
  BY <1>4
<1> HIDE DEF fl, fc, ch, D, z
<1>6. \A n \in Node : n - 1 \in Handlers(Node)
  BY <1>1 DEF Node, Handlers, INVALID
<1>7. \A c \in Chunk : c - 1 \in Handlers(Chunk)
  BY <1>1 DEF Chunk, Handlers, INVALID
<1>8. INVALID \in Handlers(Node) /\ INVALID \in Handlers(Chunk) /\ NodeTotal \in Handlers(Node)
      /\ ChunkTotal \in Handlers(Chunk)
  BY <1>1 DEF Handlers, Node, Chunk
<1>9. m.pool = FreshPool /\ FreshPool \in PoolType
  <2>1. <<>> \in Seq(Octet)
    BY <1>4 DEF z
  <2> QED BY <1>1, <1>7, <1>8, <2>1 DEF FreshMap, FreshPool, PoolType
<1>10. \A n \in Node : m.node[n] = [init_node EXCEPT !.next = n - 1]
  BY DEF FreshMap
<1>11. ASSUME NEW n \in Node
       PROVE  /\ m.node[n] \in NodeType
              /\ m.node[n].key = NoKey /\ m.node[n].len = 0 /\ m.node[n].chunk = INVALID
              /\ m.node[n].next = n - 1 /\ m.node[n].prev = INVALID
              /\ m.node[n].add_next = INVALID /\ m.node[n].add_prev = INVALID
  <2> DEFINE w == m.node[n]
             v == n - 1
  <2>1. w = [init_node EXCEPT !.next = v] /\ v \in Handlers(Node)
    BY <1>6, <1>10
  <2> HIDE DEF w, v
  <2>2. w = [key |-> NoKey, len |-> 0, chunk |-> INVALID, next |-> v, prev |-> INVALID,
             add_next |-> INVALID, add_prev |-> INVALID]
    BY <2>1 DEF init_node
  <2>3. w.key = NoKey /\ w.len = 0 /\ w.chunk = INVALID
        /\ w.next = v /\ w.prev = INVALID /\ w.add_next = INVALID /\ w.add_prev = INVALID
    BY <2>2
  <2>4. /\ NoKey \in Key \cup {NoKey} /\ 0 \in Nat /\ INVALID \in Handlers(Chunk)
        /\ v \in Handlers(Node) /\ INVALID \in Handlers(Node)
    BY <1>8, <2>1
  <2>5. w \in NodeType
    BY <2>2, <2>4 DEF NodeType
  <2> QED BY <2>3, <2>5 DEF w, v
<1>12. m \in MapType
  <2>1. \A n \in Node : m.node[n] \in NodeType
    BY <1>11
  <2>2. m.node \in [Node -> NodeType]
    BY <2>1 DEF FreshMap
  <2>3. /\ m.bucket = [b \in Bucket |-> INVALID] /\ m.free_list = NodeTotal
        /\ m.add_head = INVALID /\ m.add_tail = INVALID
        /\ m.used_node_num = 0 /\ m.used_bucket_num = 0
        /\ m = [node |-> m.node, bucket |-> m.bucket, free_list |-> m.free_list,
                add_head |-> m.add_head, add_tail |-> m.add_tail,
                used_node_num |-> m.used_node_num, used_bucket_num |-> m.used_bucket_num,
                pool |-> m.pool]
    BY DEF FreshMap
  <2> QED BY <1>8, <1>9, <2>2, <2>3 DEF MapType
<1>13. FreeShape(m, fl)
  <2>1. \A n \in Node : Field(m, "next")[n] = n - 1
    BY <1>11 DEF Field
  <2>2. m.free_list = NodeTotal
    BY DEF FreshMap
  <2> QED BY <1>2, <2>1, <2>2 DEF FreeShape
<1>14. BucketShape(m, bl)
  <2>1. \A b \in Bucket : m.bucket[b] = INVALID
    BY DEF FreshMap
  <2>2. \A f, g : DLinked(f, g, INVALID, z)
    BY <1>4 DEF DLinked
  <2> QED BY <1>5, <2>1, <2>2 DEF BucketShape
<1>15. AddShape(m, z)
  <2>1. \A f, g : DLinked(f, g, INVALID, z)
    BY <1>4 DEF DLinked
  <2>2. m.add_head = INVALID /\ m.add_tail = INVALID
    BY DEF FreshMap
  <2>3. At(z, Len(z)) = INVALID
    BY <1>4 DEF At
  <2>4. \A n \in Node : Field(m, "add_next")[n] = INVALID /\ Field(m, "add_prev")[n] = INVALID
    BY <1>11 DEF Field
  <2> QED BY <1>4, <2>1, <2>2, <2>3, <2>4 DEF AddShape
<1>16. \A n \in Node : m.node[n].key = NoKey
  BY <1>11
<1>17. Placed(m, fl, bl, z)
  BY <1>2, <1>4, <1>5, <1>16 DEF Placed
<1>18. Counted(m, fl)
  <2>1. UsedBuckets(m) = {}
    BY DEF UsedBuckets, FreshMap
  <2>2. Cardinality(UsedBuckets(m)) = 0
    BY <2>1, FS_EmptySet
  <2>3. m.used_node_num = 0 /\ m.used_bucket_num = 0
    BY DEF FreshMap
  <2> QED BY <1>1, <1>2, <2>2, <2>3 DEF Counted
<1>19. Filled(m, fc, ch, D)
  <2> DEFINE hd == Field(m, "chunk")
  <2>1. hd \in [Node -> Handlers(Chunk)] /\ \A n \in Node : hd[n] = INVALID
    BY <1>8, <1>11 DEF Field
  <2>2. Linked(FreshPool.next, FreshPool.free_list, fc) /\ FreshPool.free_total = Len(fc)
    <3>1. /\ \A x \in Chunk : FreshPool.next[x] = x - 1
          /\ FreshPool.free_list = ChunkTotal /\ FreshPool.free_total = ChunkTotal
      BY DEF FreshPool
    <3> QED BY <1>3, <3>1
  <2> HIDE DEF hd
  <2>3. PoolLinks(FreshPool, hd, fc, ch)
    BY <1>3, <1>4, <1>5, <1>9, <2>1, <2>2 DEF PoolLinks
  <2>4. PoolData(FreshPool, ch, D)
    BY <1>4, <1>5 DEF PoolData
  <2>5. \A n \in Node : m.node[n].len = Len(D[n]) /\ D[n] \in Data \cup {z} /\ D[n] = z
    BY <1>4, <1>5, <1>11
  <2> QED BY <1>9, <2>3, <2>4, <2>5 DEF Filled, hd, z
<1>20. Shape(m, fl, bl, z, fc, ch, D)
  BY <1>12, <1>13, <1>14, <1>15, <1>17, <1>18, <1>19 DEF Shape
<1> QED BY <1>16, <1>20

-----------------------------------------------------------------------------
(* The nodes with a key                                                    *)

\* What Select has put together so far, as the equation it is defined by.
IsSelect(some, q, S) ==
    some = [i \in 0 .. Len(q) |->
              IF i = 0 THEN <<>>
              ELSE IF q[i] \in S THEN Append(some[i - 1], q[i]) ELSE some[i - 1]]

\* The elements selected one by one.
Selects(g, q, S, T) ==
    /\ g \in [0 .. Len(q) -> Seq(T)] /\ g[0] = <<>>
    /\ \A i \in 1 .. Len(q) : g[i] = IF q[i] \in S THEN Append(g[i - 1], q[i]) ELSE g[i - 1]

\* There is what Select is defined by.
LEMMA SelectExists ==
    ASSUME NEW T, NEW q \in Seq(T), NEW S
    PROVE  \E f : IsSelect(f, q, S)
<1> DEFINE sel(x, i) == IF q[i] \in S THEN Append(x, q[i]) ELSE x
           UpTo(f, n) == f = [i \in 0 .. n |-> IF i = 0 THEN <<>> ELSE sel(f[i - 1], i)]
           Done == {n \in Nat : \E f : UpTo(f, n)}
<1>1. Len(q) \in Nat
  BY LenProperties
<1>2. 0 \in Done
  <2>1. UpTo([i \in 0 .. 0 |-> <<>>], 0)
    OBVIOUS
  <2> QED BY <2>1
<1>3. ASSUME NEW n \in 0 .. Len(q) - 1, n \in Done PROVE n + 1 \in Done
  <2>1. n \in Nat /\ n + 1 \in Nat
    BY <1>1
  <2>2. PICK f : UpTo(f, n)
    BY <1>3
  <2> DEFINE g == [i \in 0 .. n + 1 |-> IF i = n + 1 THEN sel(f[n], n + 1) ELSE f[i]]
  <2> HIDE DEF sel
  <2>3. \A i \in 0 .. n : f[i] = IF i = 0 THEN <<>> ELSE sel(f[i - 1], i)
    BY <2>2
  <2>4. \A i \in 0 .. n : g[i] = f[i]
    BY <2>1
  <2>5. g[n + 1] = sel(f[n], n + 1)
    BY <2>1
  <2>6. g = [i \in 0 .. n + 1 |-> g[i]]
    OBVIOUS
  <2> HIDE DEF g
  <2>7. \A i \in 0 .. n + 1 : g[i] = IF i = 0 THEN <<>> ELSE sel(g[i - 1], i)
    BY <2>1, <2>3, <2>4, <2>5
  <2>8. UpTo(g, n + 1)
    BY <2>6, <2>7
  <2> QED BY <2>1, <2>8
<1> HIDE DEF Done
<1>4. 0 .. Len(q) \subseteq Done
  BY <1>1, <1>2, <1>3, CountUp
<1>5. Len(q) \in Done
  BY <1>1, <1>4
<1>6. \E f : UpTo(f, Len(q))
  BY <1>5 DEF Done
<1> QED BY <1>6 DEF IsSelect

\* What is selected, element by element.
LEMMA SelectSteps ==
    ASSUME NEW T, NEW q \in Seq(T), NEW S
    PROVE  \E g : Selects(g, q, S, T) /\ Select(q, S) = g[Len(q)]
<1> DEFINE g == CHOOSE f : IsSelect(f, q, S)
<1>1. Len(q) \in Nat /\ \A i \in 1 .. Len(q) : q[i] \in T
  BY RangeOf
<1>2. Select(q, S) = g[Len(q)]
  BY DEF Select, IsSelect
<1>3. IsSelect(g, q, S)
  BY SelectExists
<1> HIDE DEF g
<1>4. /\ g[0] = <<>>
      /\ \A i \in 1 .. Len(q) : g[i] = IF q[i] \in S THEN Append(g[i - 1], q[i]) ELSE g[i - 1]
  <2> DEFINE E(i) == IF i = 0 THEN <<>>
                     ELSE IF q[i] \in S THEN Append(g[i - 1], q[i]) ELSE g[i - 1]
  <2>1. g = [i \in 0 .. Len(q) |-> E(i)]
    BY <1>3 DEF IsSelect
  <2> HIDE DEF E
  <2>2. \A i \in 0 .. Len(q) : g[i] = E(i)
    BY <2>1
  <2>3. 0 \in 0 .. Len(q) /\ \A i \in 1 .. Len(q) : i \in 0 .. Len(q) /\ i # 0
    BY <1>1
  <2> QED BY <2>2, <2>3 DEF E
<1> DEFINE Fine == {i \in 0 .. Len(q) : g[i] \in Seq(T)}
<1>5. 0 \in Fine
  <2>1. <<>> \in Seq(T)
    BY EmptySeq
  <2>2. g[0] \in Seq(T) /\ 0 \in 0 .. Len(q)
    <3>1. g[0] = <<>> /\ Len(q) \in Nat
      BY <1>1, <1>4
    <3> QED BY <2>1, <3>1
  <2> QED BY <2>2
<1>6. ASSUME NEW i \in 0 .. Len(q) - 1, i \in Fine PROVE i + 1 \in Fine
  <2>1. i + 1 \in 1 .. Len(q) /\ (i + 1) - 1 = i /\ i + 1 \in 0 .. Len(q)
    BY <1>1
  <2>2. g[i] \in Seq(T) /\ q[i + 1] \in T
    BY <1>1, <1>6, <2>1
  <2>3. Append(g[i], q[i + 1]) \in Seq(T)
    BY <2>2, AppendProperties
  <2>4. g[i + 1] = IF q[i + 1] \in S THEN Append(g[i], q[i + 1]) ELSE g[i]
    BY <1>4, <2>1
  <2> QED BY <2>1, <2>2, <2>3, <2>4
<1> HIDE DEF Fine
<1>7. 0 .. Len(q) \subseteq Fine
  BY <1>1, <1>5, <1>6, CountUp
<1>8. g \in [0 .. Len(q) -> Seq(T)]
  <2>1. \A i \in 0 .. Len(q) : g[i] \in Seq(T)
    BY <1>7 DEF Fine
  <2>2. DOMAIN g = 0 .. Len(q) /\ g = [i \in 0 .. Len(q) |-> g[i]]
    BY <1>3 DEF IsSelect
  <2> QED BY <2>1, <2>2
<1> QED BY <1>2, <1>4, <1>8 DEF Selects

\* Nothing else is.
LEMMA SelectIs ==
    ASSUME NEW T, NEW q \in Seq(T), NEW S, NEW g, Selects(g, q, S, T)
    PROVE  Select(q, S) = g[Len(q)]
<1>1. Len(q) \in Nat
  BY LenProperties
<1>2. PICK f : Selects(f, q, S, T) /\ Select(q, S) = f[Len(q)]
  BY SelectSteps
<1> DEFINE Alike == {i \in 0 .. Len(q) : f[i] = g[i]}
<1>3. 0 \in Alike
  BY <1>1, <1>2 DEF Selects
<1>4. ASSUME NEW i \in 0 .. Len(q) - 1, i \in Alike PROVE i + 1 \in Alike
  <2>1. i + 1 \in 1 .. Len(q) /\ (i + 1) - 1 = i /\ i + 1 \in 0 .. Len(q)
    BY <1>1
  <2>2. f[i + 1] = IF q[i + 1] \in S THEN Append(f[i], q[i + 1]) ELSE f[i]
    BY <1>2, <2>1 DEF Selects
  <2>3. g[i + 1] = IF q[i + 1] \in S THEN Append(g[i], q[i + 1]) ELSE g[i]
    BY <2>1 DEF Selects
  <2> QED BY <1>4, <2>1, <2>2, <2>3
<1> HIDE DEF Alike
<1>5. 0 .. Len(q) \subseteq Alike
  BY <1>1, <1>3, <1>4, CountUp
<1>6. Len(q) \in Alike
  BY <1>1, <1>5
<1> QED BY <1>2, <1>6 DEF Alike

\* What is selected of a list is a list.
LEMMA SelectList ==
    ASSUME NEW T, NEW q \in List(T), NEW S
    PROVE  Select(q, S) \in List(T) /\ Range(Select(q, S)) = Range(q) \cap S
<1>1. /\ q \in Seq(T) /\ Len(q) \in Nat /\ \A i \in 1 .. Len(q) : q[i] \in T
      /\ \A i, j \in 1 .. Len(q) : q[i] = q[j] => i = j
  BY RangeOf DEF List
<1>2. PICK g : Selects(g, q, S, T) /\ Select(q, S) = g[Len(q)]
  BY <1>1, SelectSteps
<1> DEFINE Upto(i) == {q[k] : k \in 1 .. i}
           Fine == {i \in 0 .. Len(q) : g[i] \in List(T) /\ Range(g[i]) = Upto(i) \cap S}
<1>3. 0 \in Fine
  <2>1. <<>> \in List(T) /\ Range(<<>>) = {}
    <3>1. <<>> \in Seq(T) /\ Len(<<>>) = 0
      BY EmptySeq
    <3>2. Range(<<>>) = {}
      BY DEF Range
    <3>3. \A i, j \in 1 .. Len(<<>>) : FALSE
      BY <3>1
    <3> QED BY <3>1, <3>2, <3>3 DEF List
  <2>2. Upto(0) = {}
    OBVIOUS
  <2>3. g[0] = <<>>
    BY <1>2 DEF Selects
  <2> QED BY <1>1, <2>1, <2>2, <2>3
<1>4. ASSUME NEW i \in 0 .. Len(q) - 1, i \in Fine PROVE i + 1 \in Fine
  <2>1. i + 1 \in 1 .. Len(q) /\ (i + 1) - 1 = i /\ i + 1 \in 0 .. Len(q)
    BY <1>1
  <2>2. g[i + 1] = IF q[i + 1] \in S THEN Append(g[i], q[i + 1]) ELSE g[i]
    BY <1>2, <2>1 DEF Selects
  <2>3. g[i] \in List(T) /\ Range(g[i]) = Upto(i) \cap S /\ q[i + 1] \in T
    BY <1>1, <1>4, <2>1
  <2>4. Upto(i + 1) = Upto(i) \cup {q[i + 1]}
    <3>1. \A k \in 1 .. i + 1 : k \in 1 .. i \/ k = i + 1
      BY <1>1
    <3>2. \A k \in 1 .. i : k \in 1 .. i + 1
      BY <1>1
    <3> QED BY <2>1, <3>1, <3>2
  <2>5. q[i + 1] \notin Range(g[i])
    <3>1. \A k \in 1 .. i : k \in 1 .. Len(q) /\ k # i + 1
      BY <1>1
    <3> QED BY <1>1, <2>1, <2>3, <3>1
  <2> HIDE DEF Upto
  <2>6. CASE q[i + 1] \in S
    <3> DEFINE x == q[i + 1]
               y == g[i]
    <3>1. x \in T /\ y \in List(T) /\ y \in Seq(T) /\ x \notin Range(y)
      BY <2>3, <2>5 DEF List
    <3> HIDE DEF x, y
    <3>2. Append(y, x) \in List(T)
      <4>1. /\ Append(y, x) \in Seq(T) /\ Len(Append(y, x)) = Len(y) + 1
            /\ \A k \in 1 .. Len(y) : Append(y, x)[k] = y[k]
            /\ Append(y, x)[Len(y) + 1] = x
        BY <3>1, AppendProperties
      <4>2. Len(y) \in Nat /\ \A k \in 1 .. Len(y) : y[k] # x
        BY <3>1, RangeOf
      <4>3. \A j, k \in 1 .. Len(y) : y[j] = y[k] => j = k
        BY <3>1 DEF List
      <4>4. \A k \in 1 .. Len(y) + 1 : k \in 1 .. Len(y) \/ k = Len(y) + 1
        BY <4>2
      <4> QED BY <4>1, <4>2, <4>3, <4>4 DEF List
    <3>3. Range(Append(y, x)) = Range(y) \cup {x}
      <4>1. Append(y, x) = y \o <<x>>
        BY <3>1, AppendIsConcat
      <4>2. <<x>> \in Seq(T) /\ Range(<<x>>) = {x}
        BY <3>1 DEF Range
      <4>3. Range(y \o <<x>>) = Range(y) \cup Range(<<x>>)
        BY <3>1, <4>2, RangeConcatenation, ZenonT(60)
      <4> QED BY <4>1, <4>2, <4>3
    <3>4. Range(Append(y, x)) = Upto(i + 1) \cap S
      BY <2>3, <2>4, <2>6, <3>3 DEF x, y
    <3> QED BY <2>1, <2>2, <2>6, <3>2, <3>4 DEF x, y
  <2>7. CASE q[i + 1] \notin S
    BY <2>1, <2>2, <2>3, <2>4, <2>7
  <2> QED BY <2>6, <2>7
<1>5. Upto(Len(q)) = Range(q)
  BY <1>1, RangeEquality
<1> HIDE DEF Fine
<1>6. 0 .. Len(q) \subseteq Fine
  BY <1>1, <1>3, <1>4, CountUp
<1>7. Len(q) \in Fine
  BY <1>1, <1>6
<1> QED BY <1>2, <1>5, <1>7 DEF Fine

\* Only the elements of the sequence matter.
LEMMA SelectSame ==
    ASSUME NEW T, NEW q \in Seq(T), NEW S, NEW S2, Range(q) \cap S = Range(q) \cap S2
    PROVE  Select(q, S) = Select(q, S2)
<1>1. Len(q) \in Nat /\ \A i \in 1 .. Len(q) : q[i] \in Range(q)
  BY RangeOf
<1>2. PICK g : Selects(g, q, S, T) /\ Select(q, S) = g[Len(q)]
  BY SelectSteps
<1>3. \A i \in 1 .. Len(q) : q[i] \in S <=> q[i] \in S2
  BY <1>1
<1>4. Selects(g, q, S2, T)
  BY <1>2, <1>3 DEF Selects
<1>5. Select(q, S2) = g[Len(q)]
  BY <1>4, SelectIs
<1> QED BY <1>2, <1>5

\* one sequence after the other
Joined(a, b) == a \o b

\* two sequences around an element
Between(a, x, b) == a \o (<<x>> \o b)

\* Of two sequences one after the other.
LEMMA SelectJoin ==
    ASSUME NEW T, NEW a \in Seq(T), NEW b \in Seq(T), NEW S
    PROVE  /\ Select(a, S) \in Seq(T) /\ Select(b, S) \in Seq(T)
           /\ Select(Joined(a, b), S) = Joined(Select(a, S), Select(b, S))
<1> DEFINE k == Len(a)
           q == a \o b
<1>1. PICK f : Selects(f, a, S, T) /\ Select(a, S) = f[Len(a)]
  BY SelectSteps
<1>2. PICK g : Selects(g, b, S, T) /\ Select(b, S) = g[Len(b)]
  BY SelectSteps
<1>3. /\ k \in Nat /\ Len(b) \in Nat
      /\ q \in Seq(T) /\ Len(q) = k + Len(b)
      /\ \A i \in 1 .. k + Len(b) : q[i] = IF i <= k THEN a[i] ELSE b[i - k]
  BY LenProperties, ConcatProperties
<1> HIDE DEF q
<1>4. /\ \A i \in 0 .. k : f[i] \in Seq(T)
      /\ f[0] = <<>>
      /\ \A i \in 1 .. k : f[i] = IF a[i] \in S THEN Append(f[i - 1], a[i]) ELSE f[i - 1]
  BY <1>1, <1>3 DEF Selects
<1>5. /\ \A i \in 0 .. Len(b) : g[i] \in Seq(T)
      /\ g[0] = <<>>
      /\ \A i \in 1 .. Len(b) : g[i] = IF b[i] \in S THEN Append(g[i - 1], b[i]) ELSE g[i - 1]
  BY <1>2, <1>3 DEF Selects
<1> HIDE DEF k
<1> DEFINE h == [i \in 0 .. k + Len(b) |-> IF i <= k THEN f[i] ELSE f[k] \o g[i - k]]
<1>6. f[k] \in Seq(T) /\ g[Len(b)] \in Seq(T)
  BY <1>3, <1>4, <1>5
<1>7. f[k] \o g[0] = f[k]
  BY <1>5, <1>6, ConcatEmptySeq
<1>8. \A i \in 0 .. k : h[i] = f[i]
  BY <1>3
<1>9. ASSUME NEW i \in k .. k + Len(b) PROVE h[i] = f[k] \o g[i - k]
  <2>1. i \in 0 .. k + Len(b) /\ (i <= k => i = k /\ i - k = 0)
    BY <1>3
  <2>2. h[i] = IF i <= k THEN f[i] ELSE f[k] \o g[i - k]
    BY <2>1
  <2> HIDE DEF h
  <2> QED BY <1>7, <2>1, <2>2
<1>10. h = [i \in 0 .. k + Len(b) |-> h[i]]
  OBVIOUS
<1> HIDE DEF h
<1>11. h \in [0 .. k + Len(b) -> Seq(T)]
  <2>1. ASSUME NEW i \in 0 .. k + Len(b) PROVE h[i] \in Seq(T)
    <3>1. CASE i <= k
      BY <1>3, <1>4, <1>8, <3>1
    <3>2. CASE ~(i <= k)
      <4>1. i \in k .. k + Len(b) /\ i - k \in 0 .. Len(b)
        BY <1>3, <3>2
      <4>2. g[i - k] \in Seq(T)
        BY <1>5, <4>1
      <4>3. f[k] \o g[i - k] \in Seq(T)
        BY <1>6, <4>2, ConcatProperties
      <4> QED BY <1>9, <4>1, <4>3
    <3> QED BY <3>1, <3>2
  <2> QED BY <1>10, <2>1
<1>12. ASSUME NEW i \in 1 .. k + Len(b)
       PROVE  h[i] = IF q[i] \in S THEN Append(h[i - 1], q[i]) ELSE h[i - 1]
  <2>1. CASE i <= k
    <3>1. i \in 1 .. k /\ i \in 0 .. k /\ i - 1 \in 0 .. k
      BY <1>3, <2>1
    <3> QED BY <1>3, <1>4, <1>8, <2>1, <3>1
  <2>2. CASE ~(i <= k)
    <3> DEFINE x == i - k
    <3>1. /\ i \in k .. k + Len(b) /\ i - 1 \in k .. k + Len(b)
          /\ x \in 1 .. Len(b) /\ (i - 1) - k = x - 1 /\ x - 1 \in 0 .. Len(b)
      BY <1>3, <2>2
    <3>2. q[i] = b[x] /\ b[x] \in T
      BY <1>3, <2>2, <3>1, RangeOf
    <3>3. h[i] = f[k] \o g[x] /\ h[i - 1] = f[k] \o g[x - 1]
      BY <1>9, <3>1
    <3> HIDE DEF x
    <3>4. g[x] = IF b[x] \in S THEN Append(g[x - 1], b[x]) ELSE g[x - 1]
      BY <1>5, <3>1
    <3>5. g[x - 1] \in Seq(T)
      BY <1>5, <3>1
    <3>6. f[k] \o Append(g[x - 1], b[x]) = Append(f[k] \o g[x - 1], b[x])
      <4> DEFINE u == f[k]
                 v == g[x - 1]
                 w == b[x]
      <4>1. u \in Seq(T) /\ v \in Seq(T) /\ w \in T
        BY <1>6, <3>2, <3>5
      <4> HIDE DEF u, v, w
      <4>2. <<w>> \in Seq(T) /\ u \o v \in Seq(T)
        BY <4>1, ConcatProperties
      <4>3. Append(v, w) = v \o <<w>> /\ Append(u \o v, w) = (u \o v) \o <<w>>
        BY <4>1, <4>2, AppendIsConcat
      <4>4. (u \o v) \o <<w>> = u \o (v \o <<w>>)
        BY <4>1, <4>2, ConcatAssociative, SMTT(30)
      <4>5. u \o Append(v, w) = Append(u \o v, w)
        BY <4>3, <4>4
      <4> QED BY <4>5 DEF u, v, w
    <3>7. CASE b[x] \in S
      BY <3>2, <3>3, <3>4, <3>6, <3>7
    <3>8. CASE b[x] \notin S
      BY <3>2, <3>3, <3>4, <3>8
    <3> QED BY <3>7, <3>8
  <2> QED BY <2>1, <2>2
<1>13. Selects(h, q, S, T)
  BY <1>3, <1>4, <1>8, <1>11, <1>12 DEF Selects
<1>14. Select(q, S) = h[Len(q)]
  BY <1>3, <1>13, SelectIs
<1>15. h[Len(q)] = f[k] \o g[Len(b)]
  <2>1. Len(q) \in k .. k + Len(b) /\ Len(q) - k = Len(b)
    BY <1>3
  <2> QED BY <1>9, <2>1
<1> QED BY <1>1, <1>2, <1>6, <1>14, <1>15 DEF k, q, Joined

\* With one more element in front.
LEMMA SelectPush ==
    ASSUME NEW T, NEW q \in Seq(T), NEW n \in T, NEW S
    PROVE  /\ Select(<<n>>, S) = IF n \in S THEN <<n>> ELSE <<>>
           /\ Select(<<n>> \o q, S) = IF n \in S THEN <<n>> \o Select(q, S) ELSE Select(q, S)
<1> DEFINE a == <<n>>
           x == IF n \in S THEN <<n>> ELSE <<>>
           g == [i \in 0 .. 1 |-> IF i = 0 THEN <<>> ELSE x]
<1>1. a \in Seq(T) /\ Len(a) = 1 /\ a[1] = n /\ <<>> \in Seq(T)
  BY EmptySeq
<1>2. x \in Seq(T) /\ Append(<<>>, n) = <<n>>
  BY <1>1
<1>3. g[0] = <<>> /\ g[1] = x
  OBVIOUS
<1>4. g \in [0 .. 1 -> Seq(T)]
  BY <1>1, <1>2
<1> HIDE DEF a, g
<1>5. ASSUME NEW i \in 1 .. Len(a)
      PROVE  g[i] = IF a[i] \in S THEN Append(g[i - 1], a[i]) ELSE g[i - 1]
  <2>1. i = 1 /\ i - 1 = 0
    BY <1>1
  <2> QED BY <1>1, <1>2, <1>3, <2>1
<1> HIDE DEF x
<1>6. Selects(g, a, S, T)
  BY <1>1, <1>3, <1>4, <1>5 DEF Selects
<1>7. Select(a, S) = x
  BY <1>1, <1>3, <1>6, SelectIs
<1>8. Select(a \o q, S) = x \o Select(q, S) /\ Select(q, S) \in Seq(T)
  <2>1. /\ Select(a, S) \in Seq(T) /\ Select(q, S) \in Seq(T)
        /\ Select(Joined(a, q), S) = Joined(Select(a, S), Select(q, S))
    BY <1>1, SelectJoin
  <2> QED BY <1>7, <2>1 DEF Joined
<1>9. <<>> \o Select(q, S) = Select(q, S)
  BY <1>8, ConcatEmptySeq
<1> QED BY <1>7, <1>8, <1>9 DEF a, x

\* A sequence around one of its elements.
LEMMA Around ==
    ASSUME NEW T, NEW q \in Seq(T), NEW j \in 1 .. Len(q)
    PROVE  \E a, b \in Seq(T) : /\ q = Between(a, q[j], b)
                                 /\ RemoveAt(q, j) = Joined(a, b)
<1> DEFINE a == SubSeq(q, 1, j - 1)
           b == SubSeq(q, j + 1, Len(q))
<1>1. Len(q) \in Nat /\ \A i \in 1 .. Len(q) : q[i] \in T
  BY RangeOf
<1>2. a \in Seq(T)
  <2>1. \A i \in 1 .. j - 1 : q[i] \in T
    BY <1>1
  <2> QED BY <2>1, SubSeqProperties
<1>3. b \in Seq(T)
  <2>1. \A i \in j + 1 .. Len(q) : q[i] \in T
    BY <1>1
  <2>2. j + 1 \in Int /\ Len(q) \in Int
    BY <1>1
  <2> QED BY <2>1, <2>2, SubSeqProperties
<1>4. SubSeq(q, j, Len(q)) = <<q[j]>> \o b
  <2>1. Len(q) \in j .. Len(q)
    BY <1>1
  <2> QED BY <2>1, SubSeqRecursiveFirst
<1>5. a \o SubSeq(q, j, Len(q)) = SubSeq(q, 1, Len(q))
  <2> DEFINE k == j - 1
  <2>1. k \in 1 - 1 .. Len(q) /\ 1 \in 1 .. Len(q) + 1 /\ Len(q) \in k .. Len(q) /\ k + 1 = j
    BY <1>1
  <2> HIDE DEF k
  <2>2. SubSeq(q, 1, k) \o SubSeq(q, k + 1, Len(q)) = SubSeq(q, 1, Len(q))
    BY <2>1, ConcatAdjacentSubSeq
  <2> QED BY <2>1, <2>2 DEF k
<1>6. SubSeq(q, 1, Len(q)) = q
  BY SubSeqFull
<1>7. RemoveAt(q, j) = a \o b
  BY DEF RemoveAt
<1>8. q = a \o (<<q[j]>> \o b)
  BY <1>4, <1>5, <1>6
<1> HIDE DEF a, b
<1>9. q = Between(a, q[j], b) /\ RemoveAt(q, j) = Joined(a, b)
  BY <1>7, <1>8 DEF Joined, Between
<1> QED BY <1>2, <1>3, <1>9

\* An element taken out of the middle.
LEMMA TakeMiddle ==
    ASSUME NEW T, NEW u \in Seq(T), NEW v \in Seq(T), NEW x \in T
    PROVE  LET s == Between(u, x, v)
           IN  /\ Len(u) + 1 \in 1 .. Len(s) /\ s[Len(u) + 1] = x
               /\ RemoveAt(s, Len(u) + 1) = Joined(u, v)
<1> DEFINE w == <<x>> \o v
           s == u \o w
           j == Len(u) + 1
           r == RemoveAt(s, j)
<1>1. <<x>> \in Seq(T) /\ Len(<<x>>) = 1 /\ <<x>>[1] = x
  OBVIOUS
<1>2. Len(u) \in Nat /\ Len(v) \in Nat
  BY LenProperties
<1>3. /\ w \in Seq(T) /\ Len(w) = 1 + Len(v)
      /\ \A i \in 1 .. 1 + Len(v) : w[i] = IF i <= 1 THEN <<x>>[i] ELSE v[i - 1]
  BY <1>1, ConcatProperties
<1> HIDE DEF w
<1>4. /\ s \in Seq(T) /\ Len(s) = Len(u) + Len(w)
      /\ \A i \in 1 .. Len(u) + Len(w) : s[i] = IF i <= Len(u) THEN u[i] ELSE w[i - Len(u)]
  BY <1>3, ConcatProperties
<1> HIDE DEF s
<1>5. j \in 1 .. Len(s)
  BY <1>2, <1>3, <1>4
<1>6. s[j] = x
  <2>1. s[j] = w[j - Len(u)] /\ j - Len(u) = 1
    BY <1>2, <1>3, <1>4, SMTT(30)
  <2>2. w[1] = x
    BY <1>1, <1>2, <1>3
  <2> QED BY <2>1, <2>2
<1>7. /\ r \in Seq(T) /\ Len(r) = Len(s) - 1
      /\ \A i \in 1 .. Len(s) - 1 : r[i] = IF i < j THEN s[i] ELSE s[i + 1]
  BY <1>4, <1>5, TakeSeq
<1>8. /\ u \o v \in Seq(T) /\ Len(u \o v) = Len(u) + Len(v)
      /\ \A i \in 1 .. Len(u) + Len(v) : (u \o v)[i] = IF i <= Len(u) THEN u[i] ELSE v[i - Len(u)]
  BY ConcatProperties
<1> HIDE DEF r
<1>9. ASSUME NEW i \in 1 .. Len(r) PROVE r[i] = (u \o v)[i]
  <2>0. i \in 1 .. Len(s) - 1 /\ i \in 1 .. Len(u) + Len(v) /\ Len(s) - 1 = Len(u) + Len(v)
    BY <1>2, <1>3, <1>4, <1>7
  <2>1. CASE i < j
    <3>1. i <= Len(u) /\ i \in 1 .. Len(u) + Len(w)
      BY <1>2, <1>3, <2>0, <2>1
    <3> QED BY <1>4, <1>7, <1>8, <2>0, <2>1, <3>1
  <2>2. CASE ~(i < j)
    <3>1. /\ ~(i <= Len(u)) /\ i + 1 \in 1 .. Len(u) + Len(w) /\ ~(i + 1 <= Len(u))
          /\ (i + 1) - Len(u) \in 1 .. 1 + Len(v) /\ ~((i + 1) - Len(u) <= 1)
          /\ ((i + 1) - Len(u)) - 1 = i - Len(u)
      BY <1>2, <1>3, <2>0, <2>2
    <3>2. r[i] = s[i + 1]
      BY <1>7, <2>0, <2>2
    <3>3. s[i + 1] = w[(i + 1) - Len(u)]
      BY <1>4, <3>1
    <3>4. w[(i + 1) - Len(u)] = v[i - Len(u)]
      BY <1>3, <3>1
    <3>5. (u \o v)[i] = v[i - Len(u)]
      BY <1>8, <2>0, <3>1
    <3> QED BY <3>2, <3>3, <3>4, <3>5
  <2> QED BY <2>1, <2>2
<1>10. Len(r) = Len(u \o v)
  BY <1>2, <1>3, <1>4, <1>7, <1>8
<1>11. r = u \o v
  BY <1>7, <1>8, <1>9, <1>10, SeqEqual
<1> QED BY <1>5, <1>6, <1>11 DEF s, w, r, Joined, Between

\* Without one of its elements.
LEMMA SelectTake ==
    ASSUME NEW T, NEW q \in List(T), NEW j \in 1 .. Len(q), NEW S
    PROVE  LET s == Select(q, S)
               r == Select(RemoveAt(q, j), S)
           IN  /\ q[j] \notin S => r = s
               /\ \A i \in 1 .. Len(s) : s[i] = q[j] => r = RemoveAt(s, i)
<1> DEFINE x == q[j]
           s == Select(q, S)
           r == Select(RemoveAt(q, j), S)
<1>1. q \in Seq(T) /\ x \in T
  BY RangeOf DEF List
<1>2. PICK a \in Seq(T), b \in Seq(T) : q = a \o (<<x>> \o b) /\ RemoveAt(q, j) = a \o b
  <2>1. \E a, b \in Seq(T) : /\ q = Between(a, q[j], b)
                              /\ RemoveAt(q, j) = Joined(a, b)
    BY <1>1, Around
  <2> QED BY <2>1 DEF Joined, Between
<1>3. s \in List(T) /\ Range(s) = Range(q) \cap S
  BY SelectList
<1> DEFINE u == Select(a, S)
           v == Select(b, S)
           w == Select(<<x>> \o b, S)
<1> HIDE DEF x
<1>4. u \in Seq(T) /\ v \in Seq(T) /\ r = u \o v
  <2>1. /\ Select(a, S) \in Seq(T) /\ Select(b, S) \in Seq(T)
        /\ Select(Joined(a, b), S) = Joined(Select(a, S), Select(b, S))
    BY SelectJoin
  <2> QED BY <1>2, <2>1 DEF Joined, Between
<1>5. <<x>> \o b \in Seq(T)
  <2>1. <<x>> \in Seq(T)
    BY <1>1
  <2> QED BY <2>1, ConcatProperties
<1>6. s = u \o w
  <2> DEFINE c == <<x>> \o b
  <2>1. c \in Seq(T)
    BY <1>5
  <2> HIDE DEF c
  <2>2. Select(Joined(a, c), S) = Joined(Select(a, S), Select(c, S))
    BY <2>1, SelectJoin
  <2> QED BY <1>2, <2>2 DEF c, Joined
<1>7. w = IF x \in S THEN <<x>> \o v ELSE v
  BY <1>1, SelectPush, SMTT(30)
<1> HIDE DEF u, v, w, r, s
<1>8. x \notin S => r = s
  BY <1>4, <1>6, <1>7
<1>9. ASSUME NEW i \in 1 .. Len(s), s[i] = x PROVE r = RemoveAt(s, i)
  <2>1. s \in Seq(T) /\ s[i] \in Range(s)
    BY <1>3, RangeOf DEF List
  <2>2. x \in S
    BY <1>3, <1>9, <2>1
  <2>3. s = u \o (<<x>> \o v)
    BY <1>6, <1>7, <2>2
  <2>4. /\ Len(u) + 1 \in 1 .. Len(s) /\ s[Len(u) + 1] = x
        /\ RemoveAt(s, Len(u) + 1) = u \o v
    <3>1. LET y == Between(u, x, v)
          IN  /\ Len(u) + 1 \in 1 .. Len(y) /\ y[Len(u) + 1] = x
              /\ RemoveAt(y, Len(u) + 1) = Joined(u, v)
      BY <1>1, <1>4, TakeMiddle
    <3> QED BY <2>3, <3>1 DEF Joined, Between
  <2>5. i = Len(u) + 1
    BY <1>3, <1>9, <2>4 DEF List
  <2> QED BY <1>4, <2>4, <2>5
<1> QED BY <1>8, <1>9 DEF r, s, x

\* A list has as many elements as it is long.
LEMMA ListSize ==
    ASSUME NEW S, NEW q \in List(S)
    PROVE  IsFiniteSet(Range(q)) /\ Cardinality(Range(q)) = Len(q)
<1>1. /\ q \in Seq(S) /\ Len(q) \in Nat /\ \A i \in 1 .. Len(q) : q[i] \in Range(q)
      /\ \A x \in Range(q) : \E i \in 1 .. Len(q) : q[i] = x
      /\ \A i, j \in 1 .. Len(q) : q[i] = q[j] => i = j
  BY RangeOf DEF List
<1>2. q \in [1 .. Len(q) -> Range(q)]
  <2>1. DOMAIN q = 1 .. Len(q) /\ q \in [1 .. Len(q) -> S]
    BY <1>1, LenProperties
  <2> QED BY <1>1, <2>1
<1>3. q \in Bijection(1 .. Len(q), Range(q))
  BY <1>1, <1>2 DEF Bijection, Injection, Surjection, IsInjective
<1>4. IsFiniteSet(1 .. Len(q)) /\ Cardinality(1 .. Len(q)) = Len(q)
  BY <1>1, UpToN
<1>5. ExistsBijection(1 .. Len(q), Range(q))
  BY <1>3 DEF ExistsBijection
<1> QED BY <1>4, <1>5, FS_Bijection

\* The nodes with a key.
HasKey(m, key) == {n \in Node : m.node[n].key = key}

\* The nodes that hold data.
Used(m) == {n \in Node : m.node[n].key # NoKey}

\* The nodes with a key are selected from the list of its bucket, all of them.
LEMMA NodesIs ==
    ASSUME NEW m, NEW fl, NEW bl, NEW al, NEW fc, NEW ch, NEW D, Shape(m, fl, bl, al, fc, ch, D),
           NEW key \in Key
    PROVE  /\ Nodes(m, key) = Select(bl[get_bucket_id(key)], HasKey(m, key))
           /\ Nodes(m, key) \in List(Node) /\ Range(Nodes(m, key)) = HasKey(m, key)
<1> DEFINE b == get_bucket_id(key)
           S == HasKey(m, key)
<1>1. BucketShape(m, bl) /\ Placed(m, fl, bl, al)
  BY DEF Shape
<1>2. b \in Bucket /\ key # NoKey
  BY BucketOf
<1>3. BucketList(m, b) = bl[b]
  BY <1>1, <1>2, BucketListIs
<1>4. bl[b] \in List(Node)
  BY <1>1, <1>2 DEF BucketShape
<1>5. Nodes(m, key) = Select(bl[b], S)
  BY <1>3 DEF Nodes, HasKey
<1>6. Range(bl[b]) \cap S = S
  <2>1. \A n \in S : n \in Node /\ m.node[n].key = key
    BY DEF HasKey
  <2>2. \A n \in S : n \in Range(bl[b])
    BY <1>1, <1>2, <2>1 DEF Placed
  <2> QED BY <2>2
<1> HIDE DEF b, S
<1>7. Select(bl[b], S) \in List(Node) /\ Range(Select(bl[b], S)) = Range(bl[b]) \cap S
  BY <1>4, SelectList
<1>8. Nodes(m, key) \in List(Node) /\ Range(Nodes(m, key)) = S
  BY <1>5, <1>6, <1>7
<1> QED BY <1>5, <1>8 DEF b, S

\* Every node that holds data has a key.
LEMMA AllNodes ==
    ASSUME NEW m, NEW fl, NEW bl, NEW al, NEW fc, NEW ch, NEW D, Shape(m, fl, bl, al, fc, ch, D)
    PROVE  UNION {Range(Nodes(m, key)) : key \in Key} = Used(m)
<1>1. \A key \in Key : Range(Nodes(m, key)) = HasKey(m, key)
  BY NodesIs
<1>2. \A n \in Node : m.node[n].key \in Key \cup {NoKey}
  <2>1. m.node \in [Node -> NodeType]
    BY DEF Shape, MapType
  <2> QED BY <2>1 DEF NodeType
<1>3. \A key \in Key : key # NoKey
  BY BucketOf
<1>4. UNION {Range(Nodes(m, key)) : key \in Key} = UNION {HasKey(m, key) : key \in Key}
  BY <1>1
<1>5. UNION {HasKey(m, key) : key \in Key} = Used(m)
  BY <1>2, <1>3 DEF HasKey, Used
<1> QED BY <1>4, <1>5

\* What is merged for a node is its data.
LEMMA DataOf ==
    ASSUME NEW m, NEW fl, NEW bl, NEW al, NEW fc, NEW ch, NEW D, Shape(m, fl, bl, al, fc, ch, D),
           NEW n \in Node
    PROVE  merge_node_data(m, n) = D[n] /\ D[n] \in Seq(Octet)
<1>1. /\ PoolLinks(m.pool, Field(m, "chunk"), fc, ch) /\ PoolData(m.pool, ch, D)
      /\ m.node[n].len = Len(D[n])
  BY DEF Shape, Filled
<1>2. ch[n] \in List(Chunk) /\ Linked(m.pool.next, Field(m, "chunk")[n], ch[n])
  BY <1>1, ChunksOf
<1>3. Field(m, "chunk")[n] = m.node[n].chunk
  BY DEF Field
<1>4. D[n] \in Seq(Octet) /\ HoldsData(m.pool, ch[n], D[n])
  BY <1>1 DEF PoolData
<1>5. merge(m.pool, m.node[n].chunk, Len(D[n])) = D[n]
  BY <1>2, <1>3, <1>4, MergeData
<1> QED BY <1>1, <1>4, <1>5 DEF merge_node_data

\* The walks over the add list of a map in shape.
LEMMA WalksAll ==
    ASSUME NEW fl, NEW bl, NEW al, NEW fc, NEW ch, NEW D, Shape(map, fl, bl, al, fc, ch, D)
    PROVE  VisitsAll
<1> DEFINE forth == AddList(map)
           back  == Along(map, "add_prev", map.add_tail)
           nodes == UNION {Range(Nodes(map, key)) : key \in Key}
<1>1. forth = al /\ back = Reverse(al)
  BY AddListIs DEF Shape
<1>2. nodes = Used(map)
  BY AllNodes
<1>3. al \in List(Node) /\ al \in Seq(Node) /\ Range(al) \subseteq Node /\ Len(al) \in Nat
  BY RangeOf DEF Shape, AddShape, List
<1>4. Range(al) = Used(map)
  BY <1>3 DEF Shape, Placed, Used
<1>5. Cardinality(Range(al)) = Len(al)
  BY <1>3, ListSize
<1>6. Reverse(Reverse(al)) = al
  <2> DEFINE r == Reverse(al)
             n == Len(al)
  <2>1. r = [i \in 1 .. n |-> al[(n - i) + 1]]
    BY DEF Reverse
  <2>2. \A i \in 1 .. n : al[i] \in Node /\ (n - i) + 1 \in 1 .. n /\ (n - ((n - i) + 1)) + 1 = i
    BY <1>3, RangeOf
  <2>3. r \in Seq(Node) /\ Len(r) = n
    BY <1>3, <2>1, <2>2
  <2> HIDE DEF r
  <2>4. Reverse(r) = [i \in 1 .. n |-> r[(n - i) + 1]]
    BY <2>3 DEF Reverse
  <2>5. \A i \in 1 .. n : r[(n - i) + 1] = al[i]
    BY <2>1, <2>2
  <2>6. al = [i \in 1 .. n |-> al[i]]
    BY <1>3
  <2>7. Reverse(r) = al
    BY <2>4, <2>5, <2>6
  <2> QED BY <2>7 DEF r
<1> HIDE DEF forth, back, nodes
<1>7. Reverse(back) = forth /\ Range(forth) = nodes /\ Len(forth) = Cardinality(nodes)
  BY <1>1, <1>2, <1>4, <1>5, <1>6
<1> QED BY <1>7 DEF VisitsAll, forth, back, nodes

\* Where the nodes and chunks of a map in shape are.
LEMMA KeepsAll ==
    ASSUME NEW fl, NEW bl, NEW al, NEW fc, NEW ch, NEW D, Shape(map, fl, bl, al, fc, ch, D)
    PROVE  NothingLost
<1> DEFINE used == UNION {Range(Nodes(map, key)) : key \in Key}
           chunks(n) == Range(Chain(map.pool, map.node[n].chunk))
<1>1. used = Used(map)
  BY AllNodes
<1>2. /\ FreeShape(map, fl) /\ Placed(map, fl, bl, al) /\ Counted(map, fl)
      /\ PoolLinks(map.pool, Field(map, "chunk"), fc, ch) /\ PoolData(map.pool, ch, D)
      /\ \A n \in Node : map.node[n].key = NoKey => D[n] = <<>>
      /\ map \in MapType
  BY DEF Shape, Filled
<1>3. FreeList(map) = fl /\ Len(fl) \in 0 .. NodeTotal
  BY <1>2, FreeListIs
<1>4. Chain(map.pool, map.pool.free_list) = fc /\ map.pool.free_total = Len(fc)
  <2>1. fc \in List(Chunk) /\ Linked(map.pool.next, map.pool.free_list, fc)
        /\ map.pool.free_total = Len(fc)
    BY <1>2 DEF PoolLinks
  <2>2. Follow(map.pool.next, map.pool.free_list, ChunkTotal + 1) = fc
    BY <2>1, FollowChunks
  <2> QED BY <2>1, <2>2 DEF Chain
<1>5. ASSUME NEW n \in Node PROVE chunks(n) = Range(ch[n])
  <2>1. ch[n] \in List(Chunk) /\ Linked(map.pool.next, Field(map, "chunk")[n], ch[n])
    BY <1>2, ChunksOf
  <2>2. Field(map, "chunk")[n] = map.node[n].chunk
    BY DEF Field
  <2>3. Follow(map.pool.next, map.node[n].chunk, ChunkTotal + 1) = ch[n]
    BY <2>1, <2>2, FollowChunks
  <2> QED BY <2>3 DEF Chain
<1>6. Verified(map)
  <2>1. map.used_node_num \in Int
    BY <1>2 DEF MapType
  <2>2. map.used_node_num + Len(FreeList(map)) = NodeTotal
    BY <1>2, <1>3, <2>1 DEF Counted
  <2>3. Cardinality({b \in Bucket : map.bucket[b] # INVALID}) = map.used_bucket_num
    BY <1>2 DEF Counted, UsedBuckets
  <2> QED BY <1>4, <2>2, <2>3 DEF Verified, PoolVerified
<1>7. Range(FreeList(map)) = Node \ used
  <2>1. Range(fl) \subseteq Node
    BY <1>2, RangeOf DEF FreeShape, List
  <2> QED BY <1>1, <1>2, <1>3, <2>1 DEF Placed, Used
<1>8. ASSUME NEW n \in Node, n \notin used PROVE Range(ch[n]) = {}
  <2>1. D[n] = <<>>
    BY <1>1, <1>2, <1>8 DEF Used
  <2>2. Len(ch[n]) = get_chunk_num(Len(D[n])) /\ ch[n] \in List(Chunk)
    BY <1>2 DEF PoolData, HoldsData, PoolLinks
  <2>3. get_chunk_num(0) = 0
    BY ChunkRoom
  <2>4. Len(D[n]) = 0
    BY <2>1
  <2>5. Len(ch[n]) = 0
    BY <2>2, <2>3, <2>4
  <2> QED BY <2>2, <2>5, RangeOf DEF List
<1> HIDE DEF used
<1>9. Range(fc) = Chunk \ UNION {Range(ch[n]) : n \in used}
  <2>1. Range(fc) \subseteq Chunk
    BY <1>2, RangeOf DEF PoolLinks, List
  <2>2. \A n \in Node : Range(ch[n]) \cap Range(fc) = {}
    BY <1>2 DEF PoolLinks
  <2>3. \A c \in Chunk : c \in Range(fc) \/ \E n \in Node : c \in Range(ch[n])
    BY <1>2 DEF PoolLinks
  <2>4. used \subseteq Node
    BY <1>1 DEF Used
  <2>5. \A c \in Chunk : c \in Range(fc) \/ \E n \in used : c \in Range(ch[n])
    BY <1>8, <2>3
  <2> QED BY <2>1, <2>2, <2>4, <2>5
<1>10. \A n1, n2 \in used : n1 # n2 => Range(ch[n1]) \cap Range(ch[n2]) = {}
  BY <1>1, <1>2 DEF Used, PoolLinks
<1>11. \A n \in used : chunks(n) = Range(ch[n])
  BY <1>1, <1>5 DEF Used
<1> HIDE DEF chunks
<1>12. UNION {chunks(n) : n \in used} = UNION {Range(ch[n]) : n \in used}
  BY <1>11
<1>13. /\ Range(Chain(map.pool, map.pool.free_list)) = Chunk \ UNION {chunks(n) : n \in used}
       /\ \A n1, n2 \in used : n1 # n2 => chunks(n1) \cap chunks(n2) = {}
  BY <1>4, <1>9, <1>10, <1>11, <1>12
<1> QED BY <1>6, <1>7, <1>13 DEF NothingLost, used, chunks

-----------------------------------------------------------------------------
(* The stacks                                                              *)

\* an element in front of a sequence
Leading(n, q) == <<n>> \o q

\* the data of the nodes of a list
StackOf(q, D) == [i \in 1 .. Len(q) |-> D[q[i]]]

\* A node enters the map: it comes first among those with its key.
LEMMA NodesPush ==
    ASSUME NEW m, NEW fl, NEW bl, NEW al, NEW fc, NEW ch, NEW D, Shape(m, fl, bl, al, fc, ch, D),
           NEW key \in Key, NEW n \in Node, m.node[n].key = NoKey,
           NEW r, NEW l, NEW a, NEW f, NEW c, NEW D2,
           Shape(r, l, PushTo(bl, get_bucket_id(key), n), a, f, c, D2),
           \A x \in Node : r.node[x].key = IF x = n THEN key ELSE m.node[x].key,
           NEW k \in Key
    PROVE  Nodes(r, k) = IF k = key THEN Leading(n, Nodes(m, k)) ELSE Nodes(m, k)
<1> DEFINE b  == get_bucket_id(key)
           d  == get_bucket_id(k)
           S  == HasKey(m, k)
           S2 == HasKey(r, k)
           q  == bl[d]
           bl2 == PushTo(bl, b, n)
<1>1. Nodes(m, k) = Select(q, S)
  BY NodesIs
<1>2. Nodes(r, k) = Select(bl2[d], S2)
  BY NodesIs
<1>3. b \in Bucket /\ d \in Bucket /\ k # NoKey
  BY BucketOf
<1>4. bl \in [Bucket -> List(Node)] /\ q \in Seq(Node)
  <2>1. bl \in [Bucket -> List(Node)]
    BY DEF Shape, BucketShape
  <2> QED BY <1>3, <2>1 DEF List
<1>5. bl2[d] = IF d = b THEN Leading(n, q) ELSE q
  BY <1>3, <1>4 DEF PushTo, Leading
<1>6. n \notin Range(q)
  BY <1>3 DEF Shape, Placed
<1>7. n \in S2 <=> k = key
  BY DEF HasKey
<1>8. Range(q) \cap S = Range(q) \cap S2
  BY <1>6 DEF HasKey
<1>9. k = key => d = b
  OBVIOUS
<1> HIDE DEF b, d, q, S, S2, bl2
<1>10. Select(q, S2) = Select(q, S)
  BY <1>4, <1>8, SelectSame
<1>11. Select(<<n>> \o q, S2) = IF n \in S2 THEN <<n>> \o Select(q, S2) ELSE Select(q, S2)
  BY <1>4, SelectPush
<1>12. CASE d = b
  BY <1>1, <1>2, <1>5, <1>7, <1>10, <1>11, <1>12 DEF Leading
<1>13. CASE d # b
  BY <1>1, <1>2, <1>5, <1>9, <1>10, <1>13
<1> QED BY <1>12, <1>13

\* A node leaves the map: it is taken out from among those with its key.
LEMMA NodesTake ==
    ASSUME NEW m, NEW fl, NEW bl, NEW al, NEW fc, NEW ch, NEW D, Shape(m, fl, bl, al, fc, ch, D),
           NEW b \in Bucket, NEW j \in 1 .. Len(bl[b]), NEW n, n = bl[b][j],
           NEW r, NEW l, NEW a, NEW f, NEW c, NEW D2,
           Shape(r, l, TakeFrom(bl, b, j), a, f, c, D2),
           \A x \in Node : r.node[x].key = IF x = n THEN NoKey ELSE m.node[x].key,
           NEW k \in Key
    PROVE  /\ m.node[n].key # k => Nodes(r, k) = Nodes(m, k)
           /\ \A i \in 1 .. Len(Nodes(m, k)) :
                Nodes(m, k)[i] = n => Nodes(r, k) = RemoveAt(Nodes(m, k), i)
<1> DEFINE d  == get_bucket_id(k)
           S  == HasKey(m, k)
           S2 == HasKey(r, k)
           bl2 == TakeFrom(bl, b, j)
<1>1. Nodes(m, k) = Select(bl[d], S) /\ Nodes(m, k) \in List(Node) /\ Range(Nodes(m, k)) = S
  BY NodesIs
<1>2. Nodes(r, k) = Select(bl2[d], S2)
  BY NodesIs
<1>3. d \in Bucket /\ k # NoKey
  BY BucketOf
<1>4. bl \in [Bucket -> List(Node)]
  BY DEF Shape, BucketShape
<1>5. /\ \A x \in Bucket : bl[x] \in List(Node) /\ bl[x] \in Seq(Node)
      /\ n \in Range(bl[b]) /\ n \in Node
  <2>1. \A x \in Bucket : bl[x] \in List(Node) /\ bl[x] \in Seq(Node)
    BY <1>4 DEF List
  <2>2. bl[b] \in Seq(Node)
    BY <2>1
  <2> QED BY <2>1, <2>2, RangeOf
<1>6. bl2[b] = RemoveAt(bl[b], j) /\ \A x \in Bucket \ {b} : bl2[x] = bl[x]
  BY <1>4 DEF TakeFrom
<1>7. RemoveAt(bl[b], j) \in List(Node) /\ Range(RemoveAt(bl[b], j)) = Range(bl[b]) \ {n}
  <2>1. bl[b] \in List(Node)
    BY <1>5
  <2> QED BY <2>1, TakeList
<1>8. S2 = S \ {n}
  BY <1>3, <1>5 DEF HasKey
<1>9. n \in S <=> m.node[n].key = k
  BY <1>5 DEF HasKey
<1>10. m.node[n].key = k => d = b
  BY <1>3, <1>5 DEF Shape, Placed
<1>11. d # b => n \notin Range(bl[d])
  BY <1>3, <1>5 DEF Shape, Placed
<1> HIDE DEF S, S2, d, bl2
<1>12. CASE d # b
  <2>1. bl2[d] = bl[d]
    BY <1>3, <1>6, <1>12
  <2>2. Range(bl[d]) \cap S = Range(bl[d]) \cap S2
    BY <1>8, <1>11, <1>12
  <2>3. bl[d] \in Seq(Node)
    BY <1>3, <1>5
  <2>4. Select(bl[d], S) = Select(bl[d], S2)
    BY <2>2, <2>3, SelectSame
  <2>5. \A i \in 1 .. Len(Nodes(m, k)) : Nodes(m, k)[i] # n
    <3>1. n \notin Range(Nodes(m, k))
      BY <1>1, <1>9, <1>10, <1>12
    <3>2. Nodes(m, k) \in Seq(Node)
      BY <1>1 DEF List
    <3> QED BY <3>1, <3>2, RangeOf
  <2> QED BY <1>1, <1>2, <2>1, <2>4, <2>5
<1>13. CASE d = b
  <2> DEFINE q == bl[b]
             q2 == RemoveAt(q, j)
  <2>1. q \in List(Node) /\ q2 \in List(Node) /\ q2 \in Seq(Node) /\ j \in 1 .. Len(q) /\ q[j] = n
    BY <1>5, <1>7 DEF List
  <2>2. Range(q2) \cap S = Range(q2) \cap S2
    BY <1>7, <1>8
  <2> HIDE DEF q2
  <2>3. Select(q2, S) = Select(q2, S2)
    BY <2>1, <2>2, SelectSame
  <2>4. Nodes(m, k) = Select(q, S) /\ Nodes(r, k) = Select(q2, S)
    BY <1>1, <1>2, <1>6, <1>13, <2>3 DEF q2
  <2> HIDE DEF q
  <2>5. /\ q[j] \notin S => Select(RemoveAt(q, j), S) = Select(q, S)
        /\ \A i \in 1 .. Len(Select(q, S)) :
             Select(q, S)[i] = q[j] => Select(RemoveAt(q, j), S) = RemoveAt(Select(q, S), i)
    BY <2>1, SelectTake
  <2> QED BY <1>9, <2>1, <2>4, <2>5 DEF q2
<1> QED BY <1>12, <1>13

\* What the callers see of a map in shape.
LEMMA StacksAre ==
    ASSUME NEW m, NEW fl, NEW bl, NEW al, NEW fc, NEW ch, NEW D, Shape(m, fl, bl, al, fc, ch, D)
    PROVE  Stacks(m) = [k \in Key |-> StackOf(Nodes(m, k), D)]
<1>1. ASSUME NEW k \in Key
      PROVE  [i \in 1 .. Len(Nodes(m, k)) |-> merge_node_data(m, Nodes(m, k)[i])] = StackOf(Nodes(m, k), D)
  <2> DEFINE q == Nodes(m, k)
  <2>1. q \in List(Node)
    BY NodesIs
  <2> HIDE DEF q
  <2>2. \A i \in 1 .. Len(q) : q[i] \in Node
    BY <2>1, RangeOf DEF List
  <2>3. \A n \in Node : merge_node_data(m, n) = D[n]
    BY DataOf
  <2>4. \A i \in 1 .. Len(q) : merge_node_data(m, q[i]) = D[q[i]]
    BY <2>2, <2>3
  <2>5. [i \in 1 .. Len(q) |-> merge_node_data(m, q[i])] = StackOf(q, D)
    BY <2>4 DEF StackOf
  <2> QED BY <2>5 DEF q
<1> QED BY <1>1 DEF Stacks

\* Data that is not in the stack changes.
LEMMA StackElsewhere ==
    ASSUME NEW D \in [Node -> Seq(Octet)], NEW q \in List(Node), NEW n \in Node, n \notin Range(q), NEW v
    PROVE  StackOf(q, With(D, n, v)) = StackOf(q, D)
<1>1. \A i \in 1 .. Len(q) : q[i] \in Node /\ q[i] # n
  BY RangeOf DEF List
<1>2. \A i \in 1 .. Len(q) : With(D, n, v)[q[i]] = D[q[i]]
  BY <1>1 DEF With
<1> QED BY <1>2 DEF StackOf

\* Data that is in the stack changes.
LEMMA StackChange ==
    ASSUME NEW D \in [Node -> Seq(Octet)], NEW q \in List(Node), NEW i \in 1 .. Len(q), NEW v
    PROVE  StackOf(q, With(D, q[i], v)) = With(StackOf(q, D), i, v)
<1>1. \A x \in 1 .. Len(q) : q[x] \in Node /\ (q[x] = q[i] => x = i)
  BY RangeOf DEF List
<1>2. \A x \in 1 .. Len(q) : With(D, q[i], v)[q[x]] = IF x = i THEN v ELSE D[q[x]]
  BY <1>1 DEF With
<1>3. With(StackOf(q, D), i, v) = [x \in 1 .. Len(q) |-> IF x = i THEN v ELSE D[q[x]]]
  BY DEF StackOf, With
<1>4. StackOf(q, With(D, q[i], v)) = [x \in 1 .. Len(q) |-> With(D, q[i], v)[q[x]]]
  BY DEF StackOf
<1> QED BY <1>2, <1>3, <1>4

\* A stack is a sequence of data.
LEMMA StackType ==
    ASSUME NEW D \in [Node -> Seq(Octet)], NEW q \in List(Node)
    PROVE  /\ StackOf(q, D) \in Seq(Seq(Octet)) /\ Len(StackOf(q, D)) = Len(q) /\ Len(q) \in Nat
           /\ \A i \in 1 .. Len(q) : StackOf(q, D)[i] = D[q[i]] /\ q[i] \in Node
<1>1. Len(q) \in Nat /\ \A i \in 1 .. Len(q) : q[i] \in Node
  BY RangeOf DEF List
<1>2. \A i \in 1 .. Len(q) : D[q[i]] \in Seq(Octet)
  BY <1>1
<1>3. StackOf(q, D) \in [1 .. Len(q) -> Seq(Octet)]
  <2> HIDE DEF Octet
  <2> QED BY <1>2 DEF StackOf
<1>4. StackOf(q, D) \in Seq(Seq(Octet)) /\ Len(StackOf(q, D)) = Len(q)
  <2> DEFINE s == StackOf(q, D)
             n == Len(q)
             T == Seq(Octet)
  <2>1. s \in [1 .. n -> T] /\ n \in Nat
    BY <1>1, <1>3
  <2> HIDE DEF s, n, T
  <2>2. s \in Seq(T) /\ Len(s) = n
    BY <2>1
  <2> QED BY <2>2 DEF s, n, T
<1>5. \A i \in 1 .. Len(q) : StackOf(q, D)[i] = D[q[i]]
  BY DEF StackOf
<1> QED BY <1>1, <1>4, <1>5

\* Data enters the stack.
LEMMA StackFront ==
    ASSUME NEW D \in [Node -> Seq(Octet)], NEW q \in List(Node), NEW n \in Node, n \notin Range(q),
           NEW v \in Seq(Octet)
    PROVE  StackOf(Leading(n, q), With(D, n, v)) = Leading(v, StackOf(q, D))
<1> DEFINE r  == Leading(n, q)
           D2 == With(D, n, v)
           s  == StackOf(q, D)
           T  == Seq(Octet)
<1>1. /\ r \in List(Node) /\ Len(r) = Len(q) + 1 /\ r[1] = n
      /\ \A i \in 2 .. Len(q) + 1 : r[i] = q[i - 1]
  <2>1. LET x == <<n>> \o q
        IN  /\ x \in List(Node) /\ Len(x) = Len(q) + 1 /\ x[1] = n
            /\ \A i \in 2 .. Len(q) + 1 : x[i] = q[i - 1]
    BY PushList
  <2> QED BY <2>1 DEF Leading
<1>2. D2 \in [Node -> T] /\ \A x \in Node : D2[x] = IF x = n THEN v ELSE D[x]
  BY DEF With
<1>3. /\ s \in Seq(T) /\ Len(s) = Len(q) /\ Len(q) \in Nat
      /\ \A i \in 1 .. Len(q) : s[i] = D[q[i]] /\ q[i] \in Node /\ q[i] # n
  <2>1. \A i \in 1 .. Len(q) : q[i] # n
    BY RangeOf DEF List
  <2> QED BY <2>1, StackType
<1> HIDE DEF r, D2
<1>4. /\ StackOf(r, D2) \in Seq(T) /\ Len(StackOf(r, D2)) = Len(r)
      /\ \A i \in 1 .. Len(r) : StackOf(r, D2)[i] = D2[r[i]]
  BY <1>1, <1>2, StackType
<1> HIDE DEF s
<1>5. /\ Leading(v, s) \in Seq(T) /\ Len(Leading(v, s)) = 1 + Len(s)
      /\ \A i \in 1 .. 1 + Len(s) : Leading(v, s)[i] = IF i <= 1 THEN v ELSE s[i - 1]
  <2> HIDE DEF T
  <2>0. v \in T
    BY DEF T
  <2>1. <<v>> \in Seq(T) /\ Len(<<v>>) = 1 /\ <<v>>[1] = v
    BY <2>0
  <2>2. /\ <<v>> \o s \in Seq(T) /\ Len(<<v>> \o s) = 1 + Len(s)
        /\ \A i \in 1 .. 1 + Len(s) : (<<v>> \o s)[i] = IF i <= 1 THEN <<v>>[i] ELSE s[i - 1]
    BY <1>3, <2>1, ConcatProperties
  <2>3. Len(s) \in Nat
    BY <1>3
  <2>4. \A i \in 1 .. 1 + Len(s) : i <= 1 => i = 1
    BY <2>3
  <2> QED BY <2>1, <2>2, <2>4 DEF Leading
<1>6. ASSUME NEW i \in 1 .. Len(r) PROVE StackOf(r, D2)[i] = Leading(v, s)[i]
  <2>1. CASE i = 1
    BY <1>1, <1>2, <1>3, <1>4, <1>5, <2>1
  <2>2. CASE i # 1
    <3>1. i \in 2 .. Len(q) + 1 /\ i - 1 \in 1 .. Len(q) /\ ~(i <= 1) /\ i \in 1 .. 1 + Len(s)
      BY <1>1, <1>3, <2>2
    <3>2. D2[r[i]] = D[q[i - 1]]
      BY <1>1, <1>2, <1>3, <3>1
    <3> QED BY <1>3, <1>4, <1>5, <3>1, <3>2
  <2> QED BY <2>1, <2>2
<1>7. Len(StackOf(r, D2)) = Len(Leading(v, s)) /\ Len(StackOf(r, D2)) = Len(r)
  BY <1>1, <1>3, <1>4, <1>5
<1> HIDE DEF T
<1>8. StackOf(r, D2) = Leading(v, s)
  BY <1>4, <1>5, <1>6, <1>7, SeqEqual
<1> QED BY <1>8 DEF r, D2, s

\* Data is taken out of the stack.
LEMMA StackTake ==
    ASSUME NEW D \in [Node -> Seq(Octet)], NEW q \in List(Node), NEW i \in 1 .. Len(q), NEW v \in Seq(Octet)
    PROVE  StackOf(RemoveAt(q, i), With(D, q[i], v)) = RemoveAt(StackOf(q, D), i)
<1> DEFINE r  == RemoveAt(q, i)
           D2 == With(D, q[i], v)
           s  == StackOf(q, D)
           T  == Seq(Octet)
<1>0. q[i] \in Node
  BY RangeOf DEF List
<1>1. /\ r \in List(Node) /\ Len(r) = Len(q) - 1
      /\ \A x \in 1 .. Len(q) - 1 : r[x] = IF x < i THEN q[x] ELSE q[x + 1]
  BY TakeList
<1>2. D2 \in [Node -> T] /\ \A x \in Node : D2[x] = IF x = q[i] THEN v ELSE D[x]
  BY <1>0 DEF With
<1>3. /\ s \in Seq(T) /\ Len(s) = Len(q) /\ Len(q) \in Nat
      /\ \A x \in 1 .. Len(q) : s[x] = D[q[x]] /\ q[x] \in Node
  BY StackType
<1>4. \A x \in 1 .. Len(q) : x # i => q[x] # q[i]
  BY DEF List
<1> HIDE DEF r, D2
<1>5. /\ StackOf(r, D2) \in Seq(T) /\ Len(StackOf(r, D2)) = Len(r)
      /\ \A x \in 1 .. Len(r) : StackOf(r, D2)[x] = D2[r[x]]
  BY <1>1, <1>2, StackType
<1> HIDE DEF s, T
<1>6. /\ RemoveAt(s, i) \in Seq(T) /\ Len(RemoveAt(s, i)) = Len(s) - 1
      /\ \A x \in 1 .. Len(s) - 1 : RemoveAt(s, i)[x] = IF x < i THEN s[x] ELSE s[x + 1]
  <2>1. i \in 1 .. Len(s) /\ s \in Seq(T)
    BY <1>3
  <2> QED BY <2>1, TakeSeq
<1>7. ASSUME NEW x \in 1 .. Len(r) PROVE StackOf(r, D2)[x] = RemoveAt(s, i)[x]
  <2>1. CASE x < i
    <3>1. x \in 1 .. Len(q) /\ x # i /\ x \in 1 .. Len(q) - 1
      BY <1>1, <1>3, <2>1
    <3>2. D2[r[x]] = D[q[x]]
      BY <1>1, <1>2, <1>3, <1>4, <2>1, <3>1
    <3> QED BY <1>3, <1>5, <1>6, <2>1, <3>1, <3>2
  <2>2. CASE ~(x < i)
    <3>1. x + 1 \in 1 .. Len(q) /\ x + 1 # i /\ x \in 1 .. Len(q) - 1
      BY <1>1, <1>3, <2>2
    <3>2. D2[r[x]] = D[q[x + 1]]
      BY <1>1, <1>2, <1>3, <1>4, <2>2, <3>1
    <3> QED BY <1>3, <1>5, <1>6, <2>2, <3>1, <3>2
  <2> QED BY <2>1, <2>2
<1>8. Len(StackOf(r, D2)) = Len(RemoveAt(s, i)) /\ Len(StackOf(r, D2)) = Len(r)
  BY <1>1, <1>3, <1>5, <1>6
<1>9. StackOf(r, D2) = RemoveAt(s, i)
  BY <1>5, <1>6, <1>7, <1>8, SeqEqual
<1> QED BY <1>9 DEF r, D2, s

-----------------------------------------------------------------------------
(* The calls                                                               *)

\* What is true of the map whenever the semaphore can be taken.
Sound(m) == \E fl, bl, al, fc, ch, D : Shape(m, fl, bl, al, fc, ch, D)

\* Nodes that keep their keys and buckets lie in the same stacks.
LEMMA SameNodes ==
    ASSUME NEW m, NEW fl, NEW bl, NEW al, NEW fc, NEW ch, NEW D, Shape(m, fl, bl, al, fc, ch, D),
           NEW r, NEW l, NEW a, NEW f, NEW c, NEW D2, Shape(r, l, bl, a, f, c, D2),
           \A x \in Node : r.node[x].key = m.node[x].key
    PROVE  \A k \in Key : Nodes(r, k) = Nodes(m, k)
<1> SUFFICES ASSUME NEW k \in Key PROVE Nodes(r, k) = Nodes(m, k)
  OBVIOUS
<1>1. HasKey(r, k) = HasKey(m, k)
  BY DEF HasKey
<1>2. Nodes(m, k) = Select(bl[get_bucket_id(k)], HasKey(m, k))
  BY NodesIs
<1>3. Nodes(r, k) = Select(bl[get_bucket_id(k)], HasKey(r, k))
  BY NodesIs
<1> QED BY <1>1, <1>2, <1>3

\* The node find_node comes to is the first of those with the key.
LEMMA SoughtIs ==
    ASSUME NEW m, Sound(m), NEW key \in Key
    PROVE  LET n == Sought(m, key)
           IN  n # INVALID => /\ n \in Node /\ m.node[n].key = key /\ key # NoKey
                              /\ 1 \in 1 .. Len(Nodes(m, key)) /\ Nodes(m, key)[1] = n
<1> DEFINE n == Sought(m, key)
           q == Nodes(m, key)
<1>1. SUFFICES ASSUME n # INVALID
               PROVE  /\ n \in Node /\ m.node[n].key = key /\ key # NoKey
                      /\ 1 \in 1 .. Len(q) /\ q[1] = n
  OBVIOUS
<1>2. PICK fl, bl, al, fc, ch, D : Shape(m, fl, bl, al, fc, ch, D)
  BY DEF Sound
<1>3. q \in List(Node) /\ Range(q) = HasKey(m, key)
  BY <1>2, NodesIs
<1>4. q # <<>> /\ n = Head(q)
  BY <1>1 DEF Sought
<1>5. key # NoKey
  BY BucketOf
<1> HIDE DEF q
<1>6. q \in Seq(Node)
  BY <1>3 DEF List
<1>7. Len(q) \in Nat \ {0} /\ Head(q) = q[1]
  BY <1>4, <1>6, EmptySeq
<1>8. 1 \in 1 .. Len(q) /\ q[1] \in Range(q)
  BY <1>6, <1>7, RangeOf
<1> QED BY <1>3, <1>4, <1>5, <1>7, <1>8 DEF HasKey

\* Finding changes nothing that the callers see.
LEMMA FindStep ==
    ASSUME NEW m, Sound(m), NEW key \in Key
    PROVE  LET r == find_node(m, key)
           IN  /\ Sound(r) /\ Stacks(r) = Stacks(m)
               /\ \A x \in Node : r.node[x].key = m.node[x].key
               /\ \A k \in Key : Nodes(r, k) = Nodes(m, k)
<1> DEFINE n == Sought(m, key)
           r == find_node(m, key)
<1>1. CASE n = INVALID
  <2>1. r = m
    BY <1>1 DEF find_node
  <2> HIDE DEF r
  <2>2. /\ Sound(r) /\ Stacks(r) = Stacks(m)
        /\ \A x \in Node : r.node[x].key = m.node[x].key
        /\ \A k \in Key : Nodes(r, k) = Nodes(m, k)
    BY <2>1
  <2> QED BY <2>2 DEF r
<1>2. CASE n # INVALID
  <2>1. n \in Node /\ m.node[n].key # NoKey
    BY <1>2, SoughtIs
  <2>2. r = insert_add_list_head(m, n)
    BY <1>2 DEF find_node
  <2>3. PICK fl, bl, al, fc, ch, D : Shape(m, fl, bl, al, fc, ch, D)
    BY DEF Sound
  <2> HIDE DEF n, r
  <2>4. /\ \E a : Shape(r, fl, bl, a, fc, ch, D)
        /\ Same(m, r, {"add_head", "add_tail"}, {"add_next", "add_prev"})
    BY <2>1, <2>2, <2>3, ToFront
  <2>5. PICK a : Shape(r, fl, bl, a, fc, ch, D)
    BY <2>4
  <2>6. \A x \in Node : r.node[x].key = m.node[x].key
    <3>1. Field(r, "key") = Field(m, "key")
      BY <2>4 DEF Same, NodeFields, Links
    <3>2. \A x \in Node : Field(r, "key")[x] = r.node[x].key /\ Field(m, "key")[x] = m.node[x].key
      BY DEF Field
    <3> QED BY <3>1, <3>2
  <2>7. \A k \in Key : Nodes(r, k) = Nodes(m, k)
    BY <2>3, <2>5, <2>6, SameNodes
  <2>8. Stacks(r) = Stacks(m)
    <3>1. Stacks(m) = [k \in Key |-> StackOf(Nodes(m, k), D)]
      BY <2>3, StacksAre
    <3>2. Stacks(r) = [k \in Key |-> StackOf(Nodes(r, k), D)]
      BY <2>5, StacksAre
    <3> QED BY <2>7, <3>1, <3>2
  <2>9. Sound(r)
    BY <2>5 DEF Sound
  <2> QED BY <2>6, <2>7, <2>8, <2>9 DEF r
<1> QED BY <1>1, <1>2

\* the stacks when data enters one of them, changes, and is taken out
Pushed(s, k, data) == [s EXCEPT ![k] = <<data>> \o @]
Changed(s, k, i, data) == [s EXCEPT ![k][i] = data]
TakenOut(s, k, i) == [s EXCEPT ![k] = RemoveAt(@, i)]

\* Inserting puts the data on the stack of its key, or does nothing.
LEMMA InsertStep ==
    ASSUME NEW m, Sound(m), NEW key \in Key, NEW data \in Data
    PROVE  LET r == insert_node(m, key, data)
           IN  \/ r = m
               \/ Sound(r) /\ data # <<>> /\ Stacks(r) = Pushed(Stacks(m), key, data)
<1> DEFINE n    == m.free_list
           got  == malloc(m.pool, get_chunk_num(Len(data)))
           head == got.head
           r    == insert_node(m, key, data)
<1>1. PICK fl, bl, al, fc, ch, D : Shape(m, fl, bl, al, fc, ch, D)
  BY DEF Sound
<1>2. m \in MapType
  BY <1>1 DEF Shape
<1>3. CASE n = INVALID
  BY <1>3 DEF insert_node
<1>4. CASE n # INVALID /\ head = INVALID
  <2>1. r = free_list_insert(free_list_remove(m), n)
    BY <1>4 DEF insert_node
  <2>2. n \in Node
    BY <1>2, <1>4 DEF MapType, Handlers
  <2>3. free_list_insert(free_list_remove(m), n) = m
    BY <1>2, <2>2, GivenBack
  <2> QED BY <2>1, <2>3
<1>5. CASE n # INVALID /\ head # INVALID
  <2> DEFINE h == head
  <2>1. h = malloc(m.pool, get_chunk_num(Len(data))).head /\ h # INVALID
    BY <1>5
  <2> DEFINE x == n
  <2>2. x = m.free_list /\ x # INVALID
    BY <1>5
  <2> HIDE DEF h, n, x, r
  <2>3. /\ x \in Node /\ m.node[x].key = NoKey
        /\ \E l, a, f, c : Shape(r, l, PushTo(bl, get_bucket_id(key), x), a, f, c, With(D, x, data))
        /\ \A y \in Node : r.node[y].key = IF y = x THEN key ELSE m.node[y].key
    BY <1>1, <2>1, <2>2, Enter DEF r
  <2>4. PICK l, a, f, c : Shape(r, l, PushTo(bl, get_bucket_id(key), x), a, f, c, With(D, x, data))
    BY <2>3
  <2> DEFINE D2 == With(D, x, data)
  <2>5. \A k \in Key : Nodes(r, k) = IF k = key THEN Leading(x, Nodes(m, k)) ELSE Nodes(m, k)
    BY <1>1, <2>3, <2>4, NodesPush
  <2>6. /\ D \in [Node -> Seq(Octet)] /\ data \in Seq(Octet)
        /\ \A k \in Key : Nodes(m, k) \in List(Node) /\ x \notin Range(Nodes(m, k))
    <3>1. D \in [Node -> Seq(Octet)]
      BY <1>1 DEF Shape, Filled, PoolData
    <3>2. ASSUME NEW k \in Key PROVE Nodes(m, k) \in List(Node) /\ x \notin Range(Nodes(m, k))
      <4>1. Nodes(m, k) \in List(Node) /\ Range(Nodes(m, k)) = HasKey(m, k)
        BY <1>1, NodesIs
      <4>2. k # NoKey
        BY BucketOf
      <4> QED BY <2>3, <4>1, <4>2 DEF HasKey
    <3> QED BY <3>1, <3>2, DataAssumption
  <2>7. Stacks(m) = [k \in Key |-> StackOf(Nodes(m, k), D)]
    BY <1>1, StacksAre
  <2>8. Stacks(r) = [k \in Key |-> StackOf(Nodes(r, k), D2)]
    BY <2>4, StacksAre
  <2>9. \A k \in Key : k # key => StackOf(Nodes(r, k), D2) = StackOf(Nodes(m, k), D)
    <3> SUFFICES ASSUME NEW k \in Key, k # key
                 PROVE  StackOf(Nodes(r, k), D2) = StackOf(Nodes(m, k), D)
      OBVIOUS
    <3>1. StackOf(Nodes(m, k), D2) = StackOf(Nodes(m, k), D)
      BY <2>3, <2>6, StackElsewhere
    <3> QED BY <2>5, <3>1
  <2>10. StackOf(Nodes(r, key), D2) = Leading(data, StackOf(Nodes(m, key), D))
    <3>1. StackOf(Leading(x, Nodes(m, key)), D2) = Leading(data, StackOf(Nodes(m, key), D))
      BY <2>3, <2>6, StackFront
    <3> QED BY <2>5, <3>1
  <2> HIDE DEF D2
  <2>11. Stacks(r) = With(Stacks(m), key, Leading(data, StackOf(Nodes(m, key), D)))
    <3>1. Stacks(r) = With(Stacks(m), key, StackOf(Nodes(r, key), D2))
      <4>1. With(Stacks(m), key, StackOf(Nodes(r, key), D2))
              = [k \in Key |-> IF k = key THEN StackOf(Nodes(r, key), D2) ELSE StackOf(Nodes(m, k), D)]
        BY <2>7 DEF With
      <4> QED BY <2>8, <2>9, <4>1
    <3> QED BY <2>10, <3>1
  <2>12. Stacks(r) = Pushed(Stacks(m), key, data)
    BY <2>7, <2>11 DEF With, Leading, Pushed
  <2>13. data # <<>>
    <3>1. Len(data) \in Nat /\ (data = <<>> => Len(data) = 0)
      BY <2>6, LenProperties
    <3>2. m.pool \in PoolType /\ get_chunk_num(Len(data)) \in Nat
          /\ (get_chunk_num(Len(data)) = 0 <=> Len(data) = 0)
      BY <1>2, <3>1, ChunkRoom DEF MapType
    <3>3. get_chunk_num(Len(data)) # 0
      BY <2>1, <3>2, MallocHead
    <3> QED BY <3>1, <3>2, <3>3
  <2>14. Sound(r)
    BY <2>4 DEF Sound
  <2> QED BY <2>12, <2>13, <2>14 DEF r
<1> QED BY <1>3, <1>4, <1>5

\* A node that holds data is one of those with its key.
LEMMA PlaceOf ==
    ASSUME NEW m, Sound(m), NEW n \in Node, m.node[n].key # NoKey
    PROVE  LET key == m.node[n].key
           IN  key \in Key /\ \E i \in 1 .. Len(Nodes(m, key)) : Nodes(m, key)[i] = n
<1> DEFINE key == m.node[n].key
           q   == Nodes(m, key)
<1>1. PICK fl, bl, al, fc, ch, D : Shape(m, fl, bl, al, fc, ch, D)
  BY DEF Sound
<1>2. key \in Key
  <2>1. m.node \in [Node -> NodeType]
    BY <1>1 DEF Shape, MapType
  <2>2. key \in Key \cup {NoKey}
    BY <2>1 DEF NodeType
  <2> QED BY <2>2
<1>3. n \in HasKey(m, key)
  BY DEF HasKey
<1> HIDE DEF key
<1>4. q \in List(Node) /\ Range(q) = HasKey(m, key)
  BY <1>1, <1>2, NodesIs
<1> HIDE DEF q
<1>5. \E i \in 1 .. Len(q) : q[i] = n
  BY <1>3, <1>4, RangeOf DEF List
<1> QED BY <1>2, <1>5 DEF key, q

\* Updating replaces the data in its place, or does nothing.
LEMMA UpdateStep ==
    ASSUME NEW m, Sound(m), NEW n \in Node, m.node[n].key # NoKey, NEW data \in Data
    PROVE  LET r == update_node(m, n, data)
           IN  /\ Sound(r)
               /\ \A x \in Node : r.node[x].key = m.node[x].key
               /\ \A i \in 1 .. Len(Nodes(m, m.node[n].key)) :
                    Nodes(m, m.node[n].key)[i] = n =>
                      r = m \/ Stacks(r) = Changed(Stacks(m), m.node[n].key, i, data)
<1> DEFINE r   == update_node(m, n, data)
           key == m.node[n].key
           q   == Nodes(m, key)
<1>1. PICK fl, bl, al, fc, ch, D : Shape(m, fl, bl, al, fc, ch, D)
  BY DEF Sound
<1>2. \/ r = m
      \/ /\ \E f, c : Shape(r, fl, bl, al, f, c, With(D, n, data))
         /\ Same(m, r, {"pool"}, {"len", "chunk"})
  BY <1>1, Replace
<1> HIDE DEF r
<1>3. CASE r = m
  <2>1. Sound(r) /\ \A x \in Node : r.node[x].key = m.node[x].key
    BY <1>3
  <2> QED BY <1>3, <2>1 DEF r
<1>4. CASE /\ \E f, c : Shape(r, fl, bl, al, f, c, With(D, n, data))
           /\ Same(m, r, {"pool"}, {"len", "chunk"})
  <2>1. PICK f, c : Shape(r, fl, bl, al, f, c, With(D, n, data))
    BY <1>4
  <2>2. \A x \in Node : r.node[x].key = m.node[x].key
    <3>1. Field(r, "key") = Field(m, "key")
      BY <1>4 DEF Same, NodeFields, Links
    <3>2. \A x \in Node : Field(r, "key")[x] = r.node[x].key /\ Field(m, "key")[x] = m.node[x].key
      BY DEF Field
    <3> QED BY <3>1, <3>2
  <2>3. \A k \in Key : Nodes(r, k) = Nodes(m, k)
    BY <1>1, <2>1, <2>2, SameNodes
  <2>4. Sound(r)
    BY <2>1 DEF Sound
  <2>5. key \in Key
    BY PlaceOf
  <2> DEFINE D2 == With(D, n, data)
  <2>6. /\ D \in [Node -> Seq(Octet)] /\ data \in Seq(Octet)
        /\ \A k \in Key : Nodes(m, k) \in List(Node) /\ (k # key => n \notin Range(Nodes(m, k)))
    <3>1. D \in [Node -> Seq(Octet)]
      BY <1>1 DEF Shape, Filled, PoolData
    <3>2. ASSUME NEW k \in Key PROVE Nodes(m, k) \in List(Node) /\ (k # key => n \notin Range(Nodes(m, k)))
      <4>1. Nodes(m, k) \in List(Node) /\ Range(Nodes(m, k)) = HasKey(m, k)
        BY <1>1, NodesIs
      <4> QED BY <4>1 DEF HasKey
    <3> QED BY <3>1, <3>2, DataAssumption
  <2>7. Stacks(m) = [k \in Key |-> StackOf(Nodes(m, k), D)]
    BY <1>1, StacksAre
  <2>8. Stacks(r) = [k \in Key |-> StackOf(Nodes(r, k), D2)]
    BY <2>1, StacksAre
  <2> HIDE DEF key, q
  <2>9. \A k \in Key : k # key => StackOf(Nodes(r, k), D2) = StackOf(Nodes(m, k), D)
    <3> SUFFICES ASSUME NEW k \in Key, k # key
                 PROVE  StackOf(Nodes(r, k), D2) = StackOf(Nodes(m, k), D)
      OBVIOUS
    <3>1. StackOf(Nodes(m, k), D2) = StackOf(Nodes(m, k), D)
      BY <2>6, StackElsewhere
    <3> QED BY <2>3, <3>1
  <2>10. ASSUME NEW i \in 1 .. Len(q), q[i] = n
         PROVE  Stacks(r) = Changed(Stacks(m), key, i, data)
    <3>1. q \in List(Node) /\ Nodes(r, key) = q
      BY <2>3, <2>5, <2>6 DEF q
    <3>2. StackOf(q, With(D, q[i], data)) = With(StackOf(q, D), i, data)
      BY <2>6, <3>1, StackChange
    <3>3. StackOf(Nodes(r, key), D2) = With(StackOf(q, D), i, data)
      BY <2>10, <3>1, <3>2
    <3> HIDE DEF D2
    <3>4. Stacks(r) = With(Stacks(m), key, With(StackOf(q, D), i, data))
      <4>1. Stacks(r) = With(Stacks(m), key, StackOf(Nodes(r, key), D2))
        <5>1. With(Stacks(m), key, StackOf(Nodes(r, key), D2))
                = [k \in Key |-> IF k = key THEN StackOf(Nodes(r, key), D2) ELSE StackOf(Nodes(m, k), D)]
          BY <2>7 DEF With
        <5> QED BY <2>8, <2>9, <5>1
      <4> QED BY <3>3, <4>1
    <3>5. Stacks(m)[key] = StackOf(q, D)
      BY <2>5, <2>7 DEF q
    <3> QED BY <3>4, <3>5 DEF With, Changed
  <2> QED BY <2>2, <2>4, <2>10 DEF r, key, q
<1> QED BY <1>2, <1>3, <1>4

\* Erasing takes the data out of its place.
LEMMA EraseStep ==
    ASSUME NEW m, Sound(m), NEW n \in Node, m.node[n].key # NoKey
    PROVE  LET r == delete_node(m, n)
           IN  /\ Sound(r)
               /\ \A x \in Node : r.node[x].key = IF x = n THEN NoKey ELSE m.node[x].key
               /\ \A i \in 1 .. Len(Nodes(m, m.node[n].key)) :
                    Nodes(m, m.node[n].key)[i] = n =>
                      Stacks(r) = TakenOut(Stacks(m), m.node[n].key, i)
<1> DEFINE r   == delete_node(m, n)
           key == m.node[n].key
           q   == Nodes(m, key)
           b   == get_bucket_id(key)
<1>1. PICK fl, bl, al, fc, ch, D : Shape(m, fl, bl, al, fc, ch, D)
  BY DEF Sound
<1>2. key \in Key
  BY PlaceOf
<1>3. b \in Bucket
  BY <1>2, BucketOf
<1>4. PICK j \in 1 .. Len(bl[b]) : bl[b][j] = n
  <2>1. n \in Range(bl[b])
    BY <1>1, <1>3 DEF Shape, Placed
  <2>2. bl[b] \in Seq(Node)
    BY <1>1, <1>3 DEF Shape, BucketShape, List
  <2> QED BY <2>1, <2>2, RangeOf
<1> HIDE DEF b
<1> DEFINE D2 == With(D, n, <<>>)
<1>5. /\ \E a, f : Shape(r, <<n>> \o fl, TakeFrom(bl, b, j), a, f, With(ch, n, <<>>), With(D, n, <<>>))
      /\ \A x \in Node : r.node[x].key = IF x = n THEN NoKey ELSE m.node[x].key
  BY <1>1, <1>3, <1>4, Discard
<1> HIDE DEF r
<1> DEFINE l == <<n>> \o fl
<1>6. PICK a, f : Shape(r, l, TakeFrom(bl, b, j), a, f, With(ch, n, <<>>), D2)
  BY <1>5
<1> HIDE DEF l
<1>7. /\ D \in [Node -> Seq(Octet)] /\ <<>> \in Seq(Octet)
      /\ \A k \in Key : Nodes(m, k) \in List(Node) /\ (k # key => n \notin Range(Nodes(m, k)))
  <2>1. D \in [Node -> Seq(Octet)]
    BY <1>1 DEF Shape, Filled, PoolData
  <2>2. ASSUME NEW k \in Key PROVE Nodes(m, k) \in List(Node) /\ (k # key => n \notin Range(Nodes(m, k)))
    <3>1. Nodes(m, k) \in List(Node) /\ Range(Nodes(m, k)) = HasKey(m, k)
      BY <1>1, NodesIs
    <3> QED BY <3>1 DEF HasKey
  <2>3. <<>> \in Seq(Octet)
    BY EmptySeq
  <2> QED BY <2>1, <2>2, <2>3
<1>8. ASSUME NEW k \in Key
      PROVE  /\ key # k => Nodes(r, k) = Nodes(m, k)
             /\ \A i \in 1 .. Len(Nodes(m, k)) :
                  Nodes(m, k)[i] = n => Nodes(r, k) = RemoveAt(Nodes(m, k), i)
  <2> HIDE DEF D2
  <2> DEFINE c == With(ch, n, <<>>)
  <2>1. Shape(r, l, TakeFrom(bl, b, j), a, f, c, D2)
    BY <1>6
  <2> HIDE DEF c
  <2> QED BY <1>1, <1>3, <1>4, <1>5, <2>1, NodesTake
<1>9. Stacks(m) = [k \in Key |-> StackOf(Nodes(m, k), D)]
  BY <1>1, StacksAre
<1>10. Stacks(r) = [k \in Key |-> StackOf(Nodes(r, k), D2)]
  BY <1>6, StacksAre
<1> HIDE DEF key, q
<1>11. \A k \in Key : k # key => StackOf(Nodes(r, k), D2) = StackOf(Nodes(m, k), D)
  <2> SUFFICES ASSUME NEW k \in Key, k # key
               PROVE  StackOf(Nodes(r, k), D2) = StackOf(Nodes(m, k), D)
    OBVIOUS
  <2>1. StackOf(Nodes(m, k), D2) = StackOf(Nodes(m, k), D)
    BY <1>7, StackElsewhere
  <2> QED BY <1>8, <2>1
<1>12. ASSUME NEW i \in 1 .. Len(q), q[i] = n
       PROVE  Stacks(r) = TakenOut(Stacks(m), key, i)
  <2>1. q \in List(Node) /\ Nodes(r, key) = RemoveAt(q, i)
    BY <1>2, <1>7, <1>8, <1>12 DEF q
  <2>2. StackOf(RemoveAt(q, i), With(D, q[i], <<>>)) = RemoveAt(StackOf(q, D), i)
    BY <1>7, <2>1, StackTake
  <2>3. StackOf(Nodes(r, key), D2) = RemoveAt(StackOf(q, D), i)
    BY <1>12, <2>1, <2>2
  <2> HIDE DEF D2
  <2>4. Stacks(r) = With(Stacks(m), key, RemoveAt(StackOf(q, D), i))
    <3>1. Stacks(r) = With(Stacks(m), key, StackOf(Nodes(r, key), D2))
      <4>1. With(Stacks(m), key, StackOf(Nodes(r, key), D2))
              = [k \in Key |-> IF k = key THEN StackOf(Nodes(r, key), D2) ELSE StackOf(Nodes(m, k), D)]
        BY <1>9 DEF With
      <4> QED BY <1>10, <1>11, <4>1
    <3> QED BY <2>3, <3>1
  <2>5. Stacks(m)[key] = StackOf(q, D)
    BY <1>2, <1>9 DEF q
  <2> QED BY <2>4, <2>5 DEF With, TakenOut
<1>13. Sound(r)
  BY <1>6 DEF Sound
<1> QED BY <1>5, <1>12, <1>13 DEF r, key, q

\* There is room for what is in the map.
LEMMA SoundFits ==
    ASSUME NEW m, Sound(m)
    PROVE  Callers!Fits(Stacks(m))
<1> DEFINE s == Stacks(m)
           stored == Callers!Stored(s)
           inuse  == Callers!InUse(s)
<1>1. PICK fl, bl, al, fc, ch, D : Shape(m, fl, bl, al, fc, ch, D)
  BY DEF Sound
<1>2. s = [k \in Key |-> StackOf(Nodes(m, k), D)]
  BY <1>1, StacksAre
<1>3. D \in [Node -> Seq(Octet)]
  BY <1>1 DEF Shape, Filled, PoolData
<1>4. \A k \in Key : /\ Nodes(m, k) \in List(Node) /\ Range(Nodes(m, k)) = HasKey(m, k)
                     /\ Len(s[k]) = Len(Nodes(m, k))
                     /\ \A i \in 1 .. Len(s[k]) : s[k][i] = D[Nodes(m, k)[i]]
  <2> SUFFICES ASSUME NEW k \in Key
               PROVE  /\ Nodes(m, k) \in List(Node) /\ Range(Nodes(m, k)) = HasKey(m, k)
                      /\ Len(s[k]) = Len(Nodes(m, k))
                      /\ \A i \in 1 .. Len(s[k]) : s[k][i] = D[Nodes(m, k)[i]]
    OBVIOUS
  <2>1. Nodes(m, k) \in List(Node) /\ Range(Nodes(m, k)) = HasKey(m, k)
    BY <1>1, NodesIs
  <2>2. s[k] = StackOf(Nodes(m, k), D)
    BY <1>2
  <2>3. /\ Len(StackOf(Nodes(m, k), D)) = Len(Nodes(m, k))
        /\ \A i \in 1 .. Len(Nodes(m, k)) : StackOf(Nodes(m, k), D)[i] = D[Nodes(m, k)[i]]
    BY <1>3, <2>1, StackType
  <2> QED BY <2>1, <2>2, <2>3
<1> HIDE DEF s
<1> DEFINE at(x) == Nodes(m, x[1])[x[2]]
<1>5. ASSUME NEW x \in stored
      PROVE  /\ x[1] \in Key /\ x[2] \in 1 .. Len(s[x[1]]) /\ x = <<x[1], x[2]>>
             /\ at(x) \in HasKey(m, x[1]) /\ at(x) \in Node /\ s[x[1]][x[2]] = D[at(x)]
  <2>1. x[1] \in Key /\ x[2] \in 1 .. Len(s[x[1]]) /\ x = <<x[1], x[2]>>
    BY DEF Callers!Stored
  <2>2. Nodes(m, x[1]) \in Seq(Node) /\ x[2] \in 1 .. Len(Nodes(m, x[1]))
    BY <1>4, <2>1 DEF List
  <2>3. at(x) \in Range(Nodes(m, x[1])) /\ at(x) \in Node
    BY <2>2, RangeOf
  <2> QED BY <1>4, <2>1, <2>3
<1>6. ASSUME NEW x \in stored, NEW y \in stored, at(x) = at(y) PROVE x = y
  <2>1. x[1] = y[1]
    BY <1>5, <1>6 DEF HasKey
  <2>2. x[2] \in 1 .. Len(Nodes(m, x[1])) /\ y[2] \in 1 .. Len(Nodes(m, x[1]))
        /\ Nodes(m, x[1]) \in List(Node)
    BY <1>4, <1>5, <2>1
  <2>3. x[2] = y[2]
    BY <1>6, <2>1, <2>2 DEF List
  <2> QED BY <1>5, <2>1, <2>3
<1> HIDE DEF stored
<1>7. IsFiniteSet(stored) /\ Cardinality(stored) <= NodeTotal
  <2> DEFINE f == [x \in stored |-> at(x)]
  <2> HIDE DEF at
  <2>1. f \in Injection(stored, Node)
    BY <1>5, <1>6 DEF Injection, IsInjective
  <2>2. IsFiniteSet(Node) /\ Cardinality(Node) = NodeTotal
    BY NodeHandlers, UpToN DEF Node
  <2> HIDE DEF f
  <2>3. IsFiniteSet(stored) /\ Cardinality(stored) <= Cardinality(Node)
    BY <2>1, <2>2, FS_Injection
  <2> QED BY <2>2, <2>3
<1> HIDE DEF at
<1> DEFINE of(y) == ch[at(y[1])][y[2]]
<1>8. ASSUME NEW y \in inuse
      PROVE  /\ y[1] \in stored /\ y = <<y[1], y[2]>>
             /\ y[2] \in 1 .. Len(ch[at(y[1])]) /\ of(y) \in Range(ch[at(y[1])]) /\ of(y) \in Chunk
  <2>1. /\ y[1] \in stored /\ y = <<y[1], y[2]>>
        /\ y[2] \in 1 .. Callers!Chunks(s[y[1][1]][y[1][2]])
    BY DEF Callers!InUse, stored
  <2>2. at(y[1]) \in Node /\ s[y[1][1]][y[1][2]] = D[at(y[1])]
    BY <1>5, <2>1
  <2>3. Callers!Chunks(D[at(y[1])]) = get_chunk_num(Len(D[at(y[1])]))
    BY DEF Callers!Chunks, get_chunk_num
  <2>4. Len(ch[at(y[1])]) = get_chunk_num(Len(D[at(y[1])]))
    BY <1>1, <2>2 DEF Shape, Filled, PoolData, HoldsData
  <2>5. y[2] \in 1 .. Len(ch[at(y[1])])
    BY <2>1, <2>2, <2>3, <2>4
  <2>6. ch[at(y[1])] \in Seq(Chunk)
    BY <1>1, <2>2 DEF Shape, Filled, PoolLinks, List
  <2>7. of(y) \in Range(ch[at(y[1])]) /\ of(y) \in Chunk
    BY <2>5, <2>6, RangeOf
  <2> QED BY <2>1, <2>5, <2>7
<1>9. ASSUME NEW x \in inuse, NEW y \in inuse, of(x) = of(y) PROVE x = y
  <2>1. /\ x[1] \in stored /\ y[1] \in stored
        /\ at(x[1]) \in Node /\ at(y[1]) \in Node
        /\ of(x) \in Range(ch[at(x[1])]) /\ of(x) \in Range(ch[at(y[1])])
    BY <1>5, <1>8, <1>9
  <2>2. \A n1, n2 \in Node : n1 # n2 => Range(ch[n1]) \cap Range(ch[n2]) = {}
    BY <1>1 DEF Shape, Filled, PoolLinks
  <2>3. at(x[1]) = at(y[1])
    BY <2>1, <2>2
  <2>4. x[1] = y[1]
    BY <1>6, <2>1, <2>3
  <2>5. ch[at(x[1])] \in List(Chunk)
    BY <1>1, <2>1 DEF Shape, Filled, PoolLinks
  <2>6. x[2] \in 1 .. Len(ch[at(x[1])]) /\ y[2] \in 1 .. Len(ch[at(x[1])])
        /\ ch[at(x[1])][x[2]] = ch[at(x[1])][y[2]]
    BY <1>8, <1>9, <2>4
  <2>7. x[2] = y[2]
    BY <2>5, <2>6 DEF List
  <2> QED BY <1>8, <2>4, <2>7
<1> HIDE DEF inuse
<1>10. IsFiniteSet(inuse) /\ Cardinality(inuse) <= ChunkTotal
  <2> DEFINE f == [y \in inuse |-> of(y)]
  <2> HIDE DEF of
  <2>1. f \in Injection(inuse, Chunk)
    BY <1>8, <1>9 DEF Injection, IsInjective
  <2>2. IsFiniteSet(Chunk) /\ Cardinality(Chunk) = ChunkTotal
    BY NodeHandlers, UpToN DEF Chunk
  <2> HIDE DEF f
  <2>3. IsFiniteSet(inuse) /\ Cardinality(inuse) <= Cardinality(Chunk)
    BY <2>1, <2>2, FS_Injection
  <2> QED BY <2>2, <2>3
<1>11. \A T : /\ Callers!IsFiniteSet(T) <=> IsFiniteSet(T)
              /\ Callers!Cardinality(T) = Cardinality(T)
  BY DEF Callers!IsFiniteSet, IsFiniteSet, Callers!Cardinality, Cardinality
<1> QED BY <1>7, <1>10, <1>11 DEF Callers!Fits, stored, inuse, s

\* A visitor finds nodes that hold data, and goes from one to another.
LEMMA VisitorGoes ==
    ASSUME NEW m, Sound(m)
    PROVE  /\ m.add_head \in Handlers(Used(m)) /\ m.add_tail \in Handlers(Used(m))
           /\ \A n \in Used(m) : /\ m.node[n].add_next \in Handlers(Used(m) \ {n})
                                 /\ m.node[n].add_prev \in Handlers(Used(m) \ {n})
<1>1. PICK fl, bl, al, fc, ch, D : Shape(m, fl, bl, al, fc, ch, D)
  BY DEF Sound
<1> DEFINE f == Field(m, "add_next")
           g == Field(m, "add_prev")
           h == m.add_head
<1>2. al \in List(Node) /\ al \in Seq(Node) /\ DLinked(f, g, h, al) /\ m.add_tail = At(al, Len(al))
  BY <1>1 DEF Shape, AddShape, List
<1>3. Range(al) = Used(m)
  <2>1. Range(al) \subseteq Node
    BY <1>2, RangeOf
  <2> QED BY <1>1, <2>1 DEF Shape, Placed, Used
<1>4. \A n \in Node : f[n] = m.node[n].add_next /\ g[n] = m.node[n].add_prev
  BY DEF Field
<1> HIDE DEF f, g, h
<1>5. h \in Handlers(Range(al)) /\ At(al, Len(al)) \in Handlers(Range(al))
  <2>1. Linked(f, h, al)
    BY <1>2 DEF DLinked
  <2> QED BY <1>2, <2>1, HeadOf
<1>6. ASSUME NEW n \in Used(m)
      PROVE  f[n] \in Handlers(Used(m) \ {n}) /\ g[n] \in Handlers(Used(m) \ {n})
  <2>1. PICK j \in 1 .. Len(al) : al[j] = n
    BY <1>2, <1>3, RangeOf
  <2>2. f[al[j]] \in Handlers(Range(al) \ {al[j]}) /\ g[al[j]] \in Handlers(Range(al) \ {al[j]})
    BY <1>2, NodeHandlers, Neighbours
  <2> QED BY <1>3, <2>1, <2>2
<1>7. Used(m) \subseteq Node
  BY DEF Used
<1> QED BY <1>2, <1>3, <1>4, <1>5, <1>6, <1>7 DEF h

\* What a step may do to the stacks.
StackStep(s, t) ==
    \/ t = s \/ t = Callers!Empty
    \/ \E k \in Key :
         \/ \E data \in Data : data # <<>> /\ t = Pushed(s, k, data)
         \/ \E i \in 1 .. Len(s[k]) : \/ t = TakenOut(s, k, i)
                                      \/ \E data \in Data : t = Changed(s, k, i, data)

\* A stack is as high as there are nodes with its key.
LEMMA StackHeight ==
    ASSUME NEW m, Sound(m), NEW k \in Key
    PROVE  Len(Stacks(m)[k]) = Len(Nodes(m, k))
<1>1. PICK fl, bl, al, fc, ch, D : Shape(m, fl, bl, al, fc, ch, D)
  BY DEF Sound
<1>2. Nodes(m, k) \in List(Node) /\ D \in [Node -> Seq(Octet)]
  BY <1>1, NodesIs DEF Shape, Filled, PoolData
<1>3. Stacks(m)[k] = StackOf(Nodes(m, k), D)
  <2>1. Stacks(m) = [x \in Key |-> StackOf(Nodes(m, x), D)]
    BY <1>1, StacksAre
  <2> QED BY <2>1
<1> QED BY <1>2, <1>3, StackType

\* SetValue finds a node and updates it, or inserts one.
LEMMA SetValueStep ==
    ASSUME NEW m, Sound(m), NEW key \in Key, NEW data \in Data
    PROVE  LET r == replace_node(m, key, data)
           IN  Sound(r) /\ StackStep(Stacks(m), Stacks(r))
<1> DEFINE n == Sought(m, key)
           m1 == find_node(m, key)
           r == replace_node(m, key, data)
<1>1. CASE n = INVALID
  <2>1. r = insert_node(m, key, data)
    BY <1>1 DEF replace_node
  <2> HIDE DEF r
  <2>2. r = m \/ (Sound(r) /\ data # <<>> /\ Stacks(r) = Pushed(Stacks(m), key, data))
    BY <2>1, InsertStep
  <2>3. Sound(r) /\ StackStep(Stacks(m), Stacks(r))
    BY <2>2 DEF StackStep
  <2> QED BY <2>3 DEF r
<1>2. CASE n # INVALID
  <2>1. /\ n \in Node /\ m.node[n].key = key /\ key # NoKey
        /\ 1 \in 1 .. Len(Nodes(m, key)) /\ Nodes(m, key)[1] = n
    BY <1>2, SoughtIs
  <2>2. /\ Sound(m1) /\ Stacks(m1) = Stacks(m)
        /\ m1.node[n].key = key
        /\ Nodes(m1, key) = Nodes(m, key)
    BY <2>1, FindStep
  <2>3. r = update_node(m1, n, data)
    BY <1>2 DEF replace_node
  <2> HIDE DEF r, m1, n
  <2>4. /\ Sound(r)
        /\ \A i \in 1 .. Len(Nodes(m1, m1.node[n].key)) :
             Nodes(m1, m1.node[n].key)[i] = n =>
               r = m1 \/ Stacks(r) = Changed(Stacks(m1), m1.node[n].key, i, data)
    BY <2>1, <2>2, <2>3, UpdateStep
  <2>5. r = m1 \/ Stacks(r) = Changed(Stacks(m), key, 1, data)
    BY <2>1, <2>2, <2>4
  <2>6. 1 \in 1 .. Len(Stacks(m)[key])
    BY <2>1, StackHeight
  <2>7. StackStep(Stacks(m), Stacks(r))
    BY <2>2, <2>5, <2>6 DEF StackStep
  <2> QED BY <2>4, <2>7 DEF r
<1> QED BY <1>1, <1>2

\* Delete finds a node and erases it.
LEMMA DeleteStep ==
    ASSUME NEW m, Sound(m), NEW key \in Key, Sought(m, key) # INVALID
    PROVE  LET r == delete_node(find_node(m, key), Sought(m, key))
           IN  Sound(r) /\ StackStep(Stacks(m), Stacks(r))
<1> DEFINE n == Sought(m, key)
           m1 == find_node(m, key)
           r == delete_node(m1, n)
<1>1. /\ n \in Node /\ m.node[n].key = key /\ key # NoKey
      /\ 1 \in 1 .. Len(Nodes(m, key)) /\ Nodes(m, key)[1] = n
  BY SoughtIs
<1>2. /\ Sound(m1) /\ Stacks(m1) = Stacks(m)
      /\ m1.node[n].key = key
      /\ Nodes(m1, key) = Nodes(m, key)
  BY <1>1, FindStep
<1> HIDE DEF m1, n
<1>3. /\ Sound(r)
      /\ \A i \in 1 .. Len(Nodes(m1, m1.node[n].key)) :
           Nodes(m1, m1.node[n].key)[i] = n =>
             Stacks(r) = TakenOut(Stacks(m1), m1.node[n].key, i)
  BY <1>1, <1>2, EraseStep
<1> HIDE DEF r
<1>4. Stacks(r) = TakenOut(Stacks(m), key, 1)
  BY <1>1, <1>2, <1>3
<1>5. 1 \in 1 .. Len(Stacks(m)[key])
  BY <1>1, StackHeight
<1>6. StackStep(Stacks(m), Stacks(r))
  BY <1>4, <1>5 DEF StackStep
<1> QED BY <1>3, <1>6 DEF r, m1, n

\* A new map is sound, and empty.
LEMMA FreshSound == Sound(FreshMap) /\ Stacks(FreshMap) = Callers!Empty
<1>1. PICK fl, al, fc, ch, D : Shape(FreshMap, fl, [b \in Bucket |-> <<>>], al, fc, ch, D)
  BY FreshShape
<1>2. Sound(FreshMap)
  BY <1>1 DEF Sound
<1>3. ASSUME NEW k \in Key PROVE StackOf(Nodes(FreshMap, k), D) = <<>>
  <2> DEFINE q == Nodes(FreshMap, k)
  <2>1. q \in List(Node) /\ Range(q) = HasKey(FreshMap, k)
    <3> DEFINE bl == [b \in Bucket |-> <<>>]
    <3>1. Shape(FreshMap, fl, bl, al, fc, ch, D)
      BY <1>1
    <3> HIDE DEF bl
    <3> QED BY <3>1, NodesIs
  <2>2. HasKey(FreshMap, k) = {}
    <3>1. k # NoKey
      BY BucketOf
    <3> QED BY <3>1, FreshShape DEF HasKey
  <2> HIDE DEF q
  <2>3. q = <<>>
    <3>1. q \in Seq(Node) /\ Len(q) \in Nat /\ \A i \in 1 .. Len(q) : FALSE
      BY <2>1, <2>2, RangeOf DEF List
    <3>2. Len(q) = 0
      BY <3>1
    <3> QED BY <3>1, <3>2, EmptySeq
  <2>4. StackOf(<<>>, D) = <<>>
    BY DEF StackOf
  <2> QED BY <2>3, <2>4 DEF q
<1>4. Stacks(FreshMap) = [k \in Key |-> StackOf(Nodes(FreshMap, k), D)]
  <2> DEFINE bl == [b \in Bucket |-> <<>>]
  <2>1. Shape(FreshMap, fl, bl, al, fc, ch, D)
    BY <1>1
  <2> HIDE DEF bl
  <2> QED BY <2>1, StacksAre
<1>5. Stacks(FreshMap) = Callers!Empty
  BY <1>3, <1>4 DEF Callers!Empty
<1> QED BY <1>2, <1>5

-----------------------------------------------------------------------------
(* The processes                                                           *)

\* a process that makes the semaphore or visits, the others wait for
Holds(p) == pc[p] \in {"setall", "visiting"}

\* The inductive invariant: the map is sound between the calls, one process at
\* most holds the semaphore, and the node a visitor has come to holds data.
HashInv ==
    /\ Sound(map)
    /\ pc \in [Proc -> {"closed", "setall", "opening", "open", "visiting"}]
    /\ \A p \in Proc : Holds(p) => sem = "taken"
    /\ \A p, q \in Proc : Holds(p) /\ Holds(q) => p = q
    /\ node \in Handlers(Used(map))
    /\ node # INVALID => \E p \in Proc : pc[p] = "visiting"

\* It holds at first.
LEMMA HashInit ==
    ASSUME MapInit
    PROVE  HashInv /\ Stacks(map) = Callers!Empty
<1>1. map = FreshMap /\ pc = [p \in Proc |-> "closed"] /\ node = INVALID
  BY DEF MapInit
<1>2. Sound(map) /\ Stacks(map) = Callers!Empty
  BY <1>1, FreshSound
<1>3. \A p \in Proc : ~Holds(p)
  BY <1>1 DEF Holds
<1> QED BY <1>1, <1>2, <1>3 DEF HashInv, Handlers

\* While the semaphore is free nobody visits.
LEMMA FreeSem ==
    ASSUME HashInv, sem # "taken"
    PROVE  node = INVALID /\ \A p \in Proc : ~Holds(p)
<1>1. \A p \in Proc : ~Holds(p)
  BY DEF HashInv
<1>2. \A p \in Proc : pc[p] # "visiting"
  BY <1>1 DEF Holds
<1> QED BY <1>1, <1>2 DEF HashInv

\* A call keeps the invariant when the map it leaves is sound.
LEMMA CallKeeps ==
    ASSUME HashInv, NEW p \in Proc, Call(p), Sound(map')
    PROVE  HashInv'
<1>1. sem = "free" /\ UNCHANGED <<sem, seg, pc, node>>
  BY DEF Call
<1>2. node' = INVALID /\ \A q \in Proc : ~Holds(q)
  BY <1>1, FreeSem
<1> QED BY <1>1, <1>2 DEF HashInv, Holds, Handlers

\* The semaphore is made, and its value set.
LEMMA SemStep ==
    ASSUME HashInv, NEW p \in Proc, OpenSem(p) \/ SetAll(p)
    PROVE  HashInv' /\ map' = map
<1>1. map' = map /\ node' = node
  BY DEF OpenSem, SetAll
<1>2. CASE OpenSem(p)
  <2>1. CASE sem = "none"
    <3>1. node = INVALID /\ \A q \in Proc : ~Holds(q)
      BY <2>1, FreeSem
    <3>2. pc' = [pc EXCEPT ![p] = "setall"] /\ sem' = "taken"
      BY <1>2, <2>1 DEF OpenSem
    <3>3. \A q \in Proc : q # p => pc'[q] = pc[q]
      BY <3>2 DEF HashInv
    <3>4. \A q \in Proc : Holds(q)' => q = p
      BY <3>1, <3>3 DEF Holds
    <3> QED BY <1>1, <3>1, <3>2, <3>4 DEF HashInv, Handlers
  <2>2. CASE sem # "none"
    <3>1. pc[p] = "closed" /\ pc' = [pc EXCEPT ![p] = "opening"] /\ sem' = sem
      BY <1>2, <2>2 DEF OpenSem
    <3>2. \A q \in Proc : pc'[q] = IF q = p THEN "opening" ELSE pc[q]
      BY <3>1 DEF HashInv
    <3>3. \A q \in Proc : Holds(q)' <=> Holds(q)
      BY <3>1, <3>2 DEF Holds
    <3>4. \A q \in Proc : pc[q] = "visiting" => pc'[q] = "visiting"
      BY <3>1, <3>2
    <3> QED BY <1>1, <3>1, <3>3, <3>4 DEF HashInv
  <2> QED BY <2>1, <2>2
<1>3. CASE SetAll(p)
  <2>1. pc[p] = "setall" /\ pc' = [pc EXCEPT ![p] = "opening"] /\ sem' = "free"
    BY <1>3 DEF SetAll
  <2>2. Holds(p)
    BY <2>1 DEF Holds
  <2>3. \A q \in Proc : q # p => ~Holds(q)
    BY <2>2 DEF HashInv
  <2>4. \A q \in Proc : pc'[q] = IF q = p THEN "opening" ELSE pc[q]
    BY <2>1 DEF HashInv
  <2>5. \A q \in Proc : ~Holds(q)'
    BY <2>3, <2>4 DEF Holds
  <2>6. node = INVALID
    <3>1. \A q \in Proc : pc[q] # "visiting"
      BY <2>1, <2>3 DEF Holds
    <3> QED BY <3>1 DEF HashInv
  <2> QED BY <1>1, <2>1, <2>5, <2>6 DEF HashInv, Handlers
<1> QED BY <1>1, <1>2, <1>3

\* A process opens the map, and may empty it.
LEMMA AttachStep ==
    ASSUME HashInv, NEW p \in Proc, Attach(p)
    PROVE  HashInv' /\ StackStep(Stacks(map), Stacks(map'))
<1>1. sem = "free" /\ sem' = sem /\ node' = node
  BY DEF Attach
<1>2. map' = FreshMap \/ map' = map
  BY DEF Attach, open
<1>3. pc' \in {[pc EXCEPT ![p] = "open"], [pc EXCEPT ![p] = "closed"]}
  BY DEF Attach
<1>4. node = INVALID /\ \A q \in Proc : ~Holds(q)
  BY <1>1, FreeSem
<1>5. Sound(map') /\ StackStep(Stacks(map), Stacks(map'))
  BY <1>2, FreshSound DEF HashInv, StackStep
<1>6. \A q \in Proc : pc'[q] \in {pc[q], "open", "closed"}
  BY <1>3 DEF HashInv
<1>7. \A q \in Proc : ~Holds(q)'
  BY <1>4, <1>6 DEF Holds
<1>8. pc' \in [Proc -> {"closed", "setall", "opening", "open", "visiting"}]
  BY <1>3 DEF HashInv
<1> QED BY <1>1, <1>4, <1>5, <1>7, <1>8 DEF HashInv, Handlers

\* A visitor comes, goes to another node, or leaves.
LEMMA VisitStep ==
    ASSUME HashInv, NEW p \in Proc, Visit(p) \/ Move(p) \/ Leave(p) \/ Die(p)
    PROVE  HashInv' /\ map' = map
<1>1. map' = map
  BY DEF Visit, Move, Leave, Die
<1>2. CASE Visit(p)
  <2>1. /\ sem = "free" /\ sem' = "taken" /\ pc' = [pc EXCEPT ![p] = "visiting"]
        /\ node' \in {map.add_head, map.add_tail}
    BY <1>2 DEF Visit
  <2>2. \A q \in Proc : ~Holds(q)
    BY <2>1, FreeSem
  <2>3. \A q \in Proc : pc'[q] = IF q = p THEN "visiting" ELSE pc[q]
    BY <2>1 DEF HashInv
  <2>4. \A q \in Proc : Holds(q)' => q = p
    BY <2>2, <2>3 DEF Holds
  <2>5. node' \in Handlers(Used(map))
    BY <2>1, VisitorGoes DEF HashInv
  <2> QED BY <1>1, <2>1, <2>3, <2>4, <2>5 DEF HashInv
<1>3. CASE Move(p)
  <2>1. /\ node # INVALID /\ UNCHANGED <<sem, pc>> /\ pc[p] = "visiting"
        /\ node' \in {map.node[node].add_next, map.node[node].add_prev}
    BY <1>3 DEF Move, AtNode
  <2>2. node \in Used(map)
    BY <2>1 DEF HashInv, Handlers
  <2>3. node' \in Handlers(Used(map))
    <3>1. node' \in Handlers(Used(map) \ {node})
      BY <2>1, <2>2, VisitorGoes DEF HashInv
    <3> QED BY <3>1 DEF Handlers
  <2> QED BY <1>1, <2>1, <2>3 DEF HashInv, Holds
<1>4. CASE Leave(p) \/ (Die(p) /\ pc[p] = "visiting")
  <2>1. /\ pc[p] = "visiting" /\ sem' = "free" /\ node' = INVALID
        /\ pc' \in {[pc EXCEPT ![p] = "open"], [pc EXCEPT ![p] = "closed"]}
    BY <1>4 DEF Leave, Die
  <2>2. \A q \in Proc : q # p => ~Holds(q)
    <3>1. Holds(p)
      BY <2>1 DEF Holds
    <3> QED BY <3>1 DEF HashInv
  <2>3. \A q \in Proc : IF q = p THEN pc'[q] \in {"open", "closed"} ELSE pc'[q] = pc[q]
    BY <2>1 DEF HashInv
  <2>4. \A q \in Proc : ~Holds(q)'
    BY <2>2, <2>3 DEF Holds
  <2>5. pc' \in [Proc -> {"closed", "setall", "opening", "open", "visiting"}]
    BY <2>1 DEF HashInv
  <2> QED BY <1>1, <2>1, <2>4, <2>5 DEF HashInv, Handlers
<1>5. CASE Die(p) /\ pc[p] # "visiting"
  <2>1. sem' = sem /\ node' = node /\ pc' = [pc EXCEPT ![p] = "closed"]
    BY <1>5 DEF Die
  <2>2. \A q \in Proc : pc'[q] = IF q = p THEN "closed" ELSE pc[q]
    BY <2>1 DEF HashInv
  <2>3. \A q \in Proc : Holds(q)' => Holds(q)
    BY <2>2 DEF Holds
  <2>4. \A q \in Proc : pc[q] = "visiting" => pc'[q] = "visiting"
    BY <1>5, <2>2
  <2>5. pc' \in [Proc -> {"closed", "setall", "opening", "open", "visiting"}]
    BY <2>1 DEF HashInv
  <2> QED BY <1>1, <2>1, <2>3, <2>4, <2>5 DEF HashInv
<1> QED BY <1>1, <1>2, <1>3, <1>4, <1>5

\* A visitor updates or erases the node it has come to.
LEMMA NodeStep ==
    ASSUME HashInv, NEW p \in Proc, Erase(p) \/ \E data \in Data : UpdateData(p, data)
    PROVE  HashInv' /\ StackStep(Stacks(map), Stacks(map'))
<1> DEFINE key == map.node[node].key
<1>1. AtNode(p)
  BY DEF Erase, UpdateData
<1>2. node # INVALID /\ UNCHANGED <<sem, pc>> /\ pc[p] = "visiting"
  BY <1>1 DEF AtNode
<1>3. node \in Used(map) /\ Sound(map)
  BY <1>2 DEF HashInv, Handlers
<1>4. node \in Node /\ key # NoKey
  BY <1>3 DEF Used
<1>5. key \in Key /\ \E i \in 1 .. Len(Nodes(map, key)) : Nodes(map, key)[i] = node
  BY <1>3, <1>4, PlaceOf
<1>6. PICK i \in 1 .. Len(Stacks(map)[key]) : i \in 1 .. Len(Nodes(map, key)) /\ Nodes(map, key)[i] = node
  <2> HIDE DEF key
  <2>1. Len(Stacks(map)[key]) = Len(Nodes(map, key))
    BY <1>3, <1>5, StackHeight
  <2> QED BY <1>5, <2>1
<1>7. ASSUME NEW data \in Data, UpdateData(p, data)
      PROVE  HashInv' /\ StackStep(Stacks(map), Stacks(map'))
  <2>1. map' = update_node(map, node, data) /\ node' = node
    BY <1>7 DEF UpdateData
  <2>2. /\ Sound(map') /\ \A x \in Node : map'.node[x].key = map.node[x].key
        /\ map' = map \/ Stacks(map') = Changed(Stacks(map), key, i, data)
    <3> DEFINE r == update_node(map, node, data)
    <3>1. /\ Sound(r)
          /\ \A x \in Node : r.node[x].key = map.node[x].key
          /\ \A j \in 1 .. Len(Nodes(map, map.node[node].key)) :
               Nodes(map, map.node[node].key)[j] = node =>
                 r = map \/ Stacks(r) = Changed(Stacks(map), map.node[node].key, j, data)
      BY <1>3, <1>4, UpdateStep
    <3> HIDE DEF r
    <3>2. map' = r
      BY <2>1 DEF r
    <3> QED BY <1>6, <3>1, <3>2
  <2>3. StackStep(Stacks(map), Stacks(map'))
    <3> HIDE DEF key
    <3> QED BY <1>5, <2>2 DEF StackStep
  <2>4. node' \in Handlers(Used(map'))
    <3>1. node' \in Used(map')
      BY <1>3, <1>4, <2>1, <2>2 DEF Used
    <3> QED BY <3>1 DEF Handlers
  <2> QED BY <1>2, <2>2, <2>3, <2>4 DEF HashInv, Holds
<1>8. ASSUME Erase(p)
      PROVE  HashInv' /\ StackStep(Stacks(map), Stacks(map'))
  <2>1. map' = delete_node(map, node) /\ node' = map.node[node].add_next
    BY <1>8 DEF Erase
  <2>2. /\ Sound(map') /\ \A x \in Node : map'.node[x].key = IF x = node THEN NoKey ELSE map.node[x].key
        /\ Stacks(map') = TakenOut(Stacks(map), key, i)
    <3> DEFINE r == delete_node(map, node)
    <3>1. /\ Sound(r)
          /\ \A x \in Node : r.node[x].key = IF x = node THEN NoKey ELSE map.node[x].key
          /\ \A j \in 1 .. Len(Nodes(map, map.node[node].key)) :
               Nodes(map, map.node[node].key)[j] = node =>
                 Stacks(r) = TakenOut(Stacks(map), map.node[node].key, j)
      BY <1>3, <1>4, EraseStep
    <3> HIDE DEF r
    <3>2. map' = r
      BY <2>1 DEF r
    <3> QED BY <1>6, <3>1, <3>2
  <2>3. StackStep(Stacks(map), Stacks(map'))
    <3> HIDE DEF key
    <3> QED BY <1>5, <2>2 DEF StackStep
  <2>4. node' \in Handlers(Used(map'))
    <3>1. node' \in Handlers(Used(map) \ {node})
      BY <1>3, <2>1, VisitorGoes
    <3>2. Used(map) \ {node} = Used(map')
      BY <2>2 DEF Used
    <3> QED BY <3>1, <3>2
  <2> QED BY <1>2, <2>2, <2>3, <2>4 DEF HashInv, Holds
<1> QED BY <1>7, <1>8

\* Every step keeps the invariant, and is one of the stacks.
LEMMA HashNext ==
    ASSUME HashInv, [MapNext]_mapVars
    PROVE  HashInv' /\ StackStep(Stacks(map), Stacks(map'))
<1>1. CASE UNCHANGED mapVars
  <2>1. map' = map /\ sem' = sem /\ pc' = pc /\ node' = node
    BY <1>1 DEF mapVars
  <2> QED BY <2>1 DEF HashInv, Holds, StackStep
<1>2. CASE MapNext
  <2>1. PICK p \in Proc :
          \/ OpenSem(p) \/ SetAll(p) \/ Attach(p)
          \/ Visit(p) \/ Move(p) \/ Erase(p) \/ Leave(p) \/ Die(p)
          \/ \E data \in Data : UpdateData(p, data)
          \/ \E key \in Key :
               \/ Find(p, key) \/ Delete(p, key)
               \/ \E data \in Data : Insert(p, key, data) \/ SetValue(p, key, data)
    BY <1>2 DEF MapNext
  <2>2. Sound(map)
    BY DEF HashInv
  <2>3. CASE OpenSem(p) \/ SetAll(p)
    BY <2>3, SemStep DEF StackStep
  <2>4. CASE Attach(p)
    BY <2>4, AttachStep
  <2>5. CASE Visit(p) \/ Move(p) \/ Leave(p) \/ Die(p)
    BY <2>5, VisitStep DEF StackStep
  <2>6. CASE Erase(p) \/ \E data \in Data : UpdateData(p, data)
    BY <2>6, NodeStep
  <2>7. ASSUME NEW key \in Key, Find(p, key)
        PROVE  HashInv' /\ StackStep(Stacks(map), Stacks(map'))
    <3>1. Call(p) /\ map' = find_node(map, key)
      BY <2>7 DEF Find
    <3>2. Sound(find_node(map, key)) /\ Stacks(find_node(map, key)) = Stacks(map)
      BY <2>2, FindStep
    <3>3. Sound(map') /\ Stacks(map') = Stacks(map)
      BY <3>1, <3>2
    <3> QED BY <3>1, <3>3, CallKeeps DEF StackStep
  <2>8. ASSUME NEW key \in Key, Delete(p, key)
        PROVE  HashInv' /\ StackStep(Stacks(map), Stacks(map'))
    <3> DEFINE r == delete_node(find_node(map, key), Sought(map, key))
    <3>1. Call(p) /\ map' = r /\ Sought(map, key) # INVALID
      BY <2>8 DEF Delete
    <3>2. Sound(r) /\ StackStep(Stacks(map), Stacks(r))
      BY <2>2, <3>1, DeleteStep
    <3> HIDE DEF r
    <3>3. Sound(map') /\ StackStep(Stacks(map), Stacks(map'))
      BY <3>1, <3>2
    <3> QED BY <3>1, <3>3, CallKeeps
  <2>9. ASSUME NEW key \in Key, NEW data \in Data, Insert(p, key, data)
        PROVE  HashInv' /\ StackStep(Stacks(map), Stacks(map'))
    <3> DEFINE r == insert_node(map, key, data)
    <3>1. Call(p) /\ map' = r
      BY <2>9 DEF Insert
    <3>2. \/ r = map
          \/ Sound(r) /\ data # <<>> /\ Stacks(r) = Pushed(Stacks(map), key, data)
      BY <2>2, InsertStep
    <3> HIDE DEF r
    <3>3. Sound(map') /\ StackStep(Stacks(map), Stacks(map'))
      BY <2>2, <3>1, <3>2 DEF StackStep
    <3> QED BY <3>1, <3>3, CallKeeps
  <2>10. ASSUME NEW key \in Key, NEW data \in Data, SetValue(p, key, data)
         PROVE  HashInv' /\ StackStep(Stacks(map), Stacks(map'))
    <3> DEFINE r == replace_node(map, key, data)
    <3>1. Call(p) /\ map' = r
      BY <2>10 DEF SetValue
    <3>2. Sound(r) /\ StackStep(Stacks(map), Stacks(r))
      BY <2>2, SetValueStep
    <3> HIDE DEF r
    <3>3. Sound(map') /\ StackStep(Stacks(map), Stacks(map'))
      BY <3>1, <3>2
    <3> QED BY <3>1, <3>3, CallKeeps
  <2> QED BY <2>1, <2>3, <2>4, <2>5, <2>6, <2>7, <2>8, <2>9, <2>10
<1> QED BY <1>1, <1>2

\* The map is sound between any two steps, whatever the processes do.
THEOREM HashSound == MapSpec => []HashInv
<1>1. MapInit => HashInv
  BY HashInit
<1>2. HashInv /\ [MapNext]_mapVars => HashInv'
  BY HashNext
<1> QED BY <1>1, <1>2, PTL DEF MapSpec

\* The checked specification is that of the map, with the stacks beside it.
LEMMA SameSpec == MCSpec => MapSpec
<1>1. MCInit => MapInit
  BY DEF MCInit
<1>2. [MCNext]_<<mapVars, stack>> => [MapNext]_mapVars
  BY DEF MCNext
<1> QED BY <1>1, <1>2, PTL DEF MCSpec, MapSpec

\* A walk over the add list, from its begin or from its end, passes each node of
\* the buckets once, whatever calls have relinked it.
THEOREM ListsVisitAll == MapSpec => []VisitsAll
<1>1. HashInv => VisitsAll
  <2> SUFFICES ASSUME HashInv PROVE VisitsAll
    OBVIOUS
  <2>1. PICK fl, bl, al, fc, ch, D : Shape(map, fl, bl, al, fc, ch, D)
    BY DEF HashInv, Sound
  <2> QED BY <2>1, WalksAll
<1> QED BY <1>1, HashSound, PTL

\* Each node and each chunk is free or holds data that can be found, and the map
\* verifies, at any time.
THEOREM NothingIsLost == MapSpec => []NothingLost
<1>1. HashInv => NothingLost
  <2> SUFFICES ASSUME HashInv PROVE NothingLost
    OBVIOUS
  <2>1. PICK fl, bl, al, fc, ch, D : Shape(map, fl, bl, al, fc, ch, D)
    BY DEF HashInv, Sound
  <2> QED BY <2>1, KeepsAll
<1> QED BY <1>1, HashSound, PTL

\* A step of the stacks is one of what the callers are promised.
LEMMA StackNext ==
    ASSUME HashInv, HashInv', stack = Stacks(map), stack' = Stacks(map'), StackStep(stack, stack')
    PROVE  [Callers!Next]_stack
<1>1. Callers!Fits(stack')
  <2>1. Sound(map')
    BY DEF HashInv
  <2>2. Callers!Fits(Stacks(map'))
    BY <2>1, SoundFits
  <2> QED BY <2>2
<1>2. \A q, i : Callers!RemoveAt(q, i) = RemoveAt(q, i)
  BY DEF Callers!RemoveAt, RemoveAt
<1>3. CASE stack' = stack
  BY <1>3
<1>4. CASE stack' = Callers!Empty
  BY <1>4 DEF Callers!Next, Callers!Clear
<1>5. ASSUME NEW k \in Key, NEW data \in Data, data # <<>>, stack' = Pushed(stack, k, data)
      PROVE  Callers!Next
  <2>1. Callers!Push(k, data)
    BY <1>1, <1>5 DEF Callers!Push, Callers!Try, Pushed
  <2>2. Callers!Insert(k, data) \/ Callers!InsertAgain(k, data)
    BY <2>1 DEF Callers!Insert, Callers!InsertAgain
  <2> QED BY <2>2 DEF Callers!Next
<1>6. ASSUME NEW k \in Key, NEW i \in 1 .. Len(stack[k]), stack' = TakenOut(stack, k, i)
      PROVE  Callers!Next
  <2>1. Callers!TakeOut(k, i)
    BY <1>2, <1>6 DEF Callers!TakeOut, TakenOut
  <2> QED BY <2>1 DEF Callers!Next
<1>7. ASSUME NEW k \in Key, NEW i \in 1 .. Len(stack[k]), NEW data \in Data,
             stack' = Changed(stack, k, i, data)
      PROVE  Callers!Next
  <2>1. Callers!Change(k, i, data)
    BY <1>1, <1>7 DEF Callers!Change, Callers!Try, Changed
  <2> QED BY <2>1 DEF Callers!Next
<1> QED BY <1>3, <1>4, <1>5, <1>6, <1>7 DEF StackStep

\* The linked lists, counters and chunks act as a stack of data under each key.
THEOREM StacksImplemented == MCSpec => ActsAsStacks
<1>1. MCInit => Callers!Init
  <2> SUFFICES ASSUME MCInit PROVE Callers!Init
    OBVIOUS
  <2>1. stack = Callers!Empty
    BY HashInit DEF MCInit
  <2> QED BY <2>1 DEF Callers!Init
<1>2. HashInv /\ HashInv' /\ stack = Stacks(map) /\ [MCNext]_<<mapVars, stack>>
        => [Callers!Next]_stack /\ stack' = Stacks(map')
  <2> SUFFICES ASSUME HashInv, HashInv', stack = Stacks(map), [MCNext]_<<mapVars, stack>>
               PROVE  [Callers!Next]_stack /\ stack' = Stacks(map')
    OBVIOUS
  <2>1. [MapNext]_mapVars /\ stack' = Stacks(map')
    <3>1. CASE MCNext
      BY <3>1 DEF MCNext
    <3>2. CASE UNCHANGED <<mapVars, stack>>
      BY <3>2 DEF mapVars
    <3> QED BY <3>1, <3>2
  <2>2. StackStep(stack, stack')
    BY <2>1, HashNext
  <2>3. [Callers!Next]_stack
    BY <2>1, <2>2, StackNext
  <2> QED BY <2>1, <2>3
<1>3. MCInit => stack = Stacks(map)
  BY DEF MCInit
<1> DEFINE Beside == stack = Stacks(map)
<1>4. MCInit => Beside
  BY <1>3
<1>5. HashInv /\ HashInv' /\ Beside /\ [MCNext]_<<mapVars, stack>> => [Callers!Next]_stack /\ Beside'
  BY <1>2
<1> HIDE DEF Beside
<1> QED BY <1>1, <1>4, <1>5, SameSpec, HashSound, PTL DEF MCSpec, ActsAsStacks, Callers!Spec
=============================================================================
