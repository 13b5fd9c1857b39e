--------------------------- MODULE DpClientProofs ---------------------------
(***************************************************************************)
(* Proofs about the packets of libprotocol on their way through relays,    *)
(* for any radix, requests, cookies, keys and buffers.                     *)
(***************************************************************************)
EXTENDS DpClient, FiniteSetsExt, FiniteSetTheorems, SequenceTheorems,
        WellFoundedInduction, NaturalsInduction, TLAPS

-----------------------------------------------------------------------------
(* Numbers                                                                 *)

\* The smallest of some natural numbers.
LEMMA LeastNat ==
    ASSUME NEW T, T \subseteq Nat, T # {}
    PROVE  Min(T) \in T /\ \A y \in T : Min(T) <= y
<1> DEFINE R == {ss \in Nat \X Nat : ss[1] < ss[2]}
<1>1. IsWellFoundedOn(R, Nat)
  BY NatLessThanWellFounded DEF OpToRel
<1>2. \A x, y \in Nat : y < x => <<y, x>> \in R
  OBVIOUS
<1> HIDE DEF R
<1>3. \E x \in T : \A y \in T : <<y, x>> \notin R
  BY <1>1, WFMin
<1>4. \A x, y \in T : <<y, x>> \notin R => x <= y
  BY <1>2
<1> QED BY <1>3, <1>4 DEF Min

\* A number below m is its own remainder.
LEMMA SmallMod ==
    ASSUME NEW x \in Nat, NEW m \in Nat, x < m
    PROVE  x % m = x
OBVIOUS

\* Remainders are below m.
LEMMA ModRange ==
    ASSUME NEW x \in Nat, NEW m \in Nat \ {0}
    PROVE  x % m \in 0 .. m - 1
OBVIOUS

\* A set that has 0, and with every number the next one, has those up to n.
LEMMA CountUp ==
    ASSUME NEW n \in Nat, NEW T, 0 \in T, \A i \in 0 .. n - 1 : i \in T => i + 1 \in T
    PROVE  0 .. n \subseteq T
<1> DEFINE Bad == (0 .. n) \ T
<1>1. SUFFICES ASSUME Bad # {} PROVE FALSE
  OBVIOUS
<1> DEFINE k == Min(Bad)
<1>2. k \in Bad /\ \A y \in Bad : k <= y
  <2>1. Bad \subseteq Nat
    OBVIOUS
  <2> HIDE DEF Bad
  <2> QED BY <1>1, <2>1, LeastNat
<1> HIDE DEF k
<1>3. k # 0 /\ k - 1 \in 0 .. n - 1 /\ k - 1 \notin Bad /\ (k - 1) + 1 = k
  BY <1>2
<1>4. k - 1 \in T
  BY <1>3
<1> QED BY <1>2, <1>3, <1>4

\* A quotient and a remainder are those of a division.
LEMMA Euclid ==
    ASSUME NEW a \in Int, NEW b \in Nat \ {0}, NEW q \in Int, NEW r \in 0 .. b - 1, a = b * q + r
    PROVE  a \div b = q /\ a % b = r
<1> DEFINE p == a \div b
           s == a % b
<1>1. p \in Int /\ s \in 0 .. b - 1 /\ a = b * p + s
  OBVIOUS
<1> HIDE DEF p, s
<1>2. b * (p - q) = r - s
  BY <1>1
<1>3. ~(p - q >= 1)
  <2>1. p - q >= 1 => b * (p - q) >= b
    BY <1>1
  <2> QED BY <1>1, <1>2, <2>1
<1>4. ~(p - q <= -1)
  <2>1. p - q <= -1 => b * (p - q) <= -b
    BY <1>1
  <2> QED BY <1>1, <1>2, <2>1
<1>5. p = q
  BY <1>1, <1>3, <1>4
<1> QED BY <1>1, <1>5 DEF p, s

\* To divide twice is to divide by the product.
LEMMA DivDiv ==
    ASSUME NEW v \in Nat, NEW a \in Nat \ {0}, NEW b \in Nat \ {0}
    PROVE  (v \div a) \div b = v \div (b * a)
<1> DEFINE x == v \div a
           y == x \div b
           r == v % a
           s == x % b
<1>1. x \in Int /\ r \in 0 .. a - 1 /\ v = a * x + r
  OBVIOUS
<1> HIDE DEF x, r
<1>2. y \in Int /\ s \in 0 .. b - 1 /\ x = b * y + s
  BY <1>1
<1> HIDE DEF y, s
<1>3. v = (b * a) * y + (a * s + r)
  <2>1. v = a * (b * y + s) + r
    BY <1>1, <1>2
  <2>2. a * (b * y + s) = (b * a) * y + a * s
    BY <1>2
  <2>3. a * s \in Int /\ (b * a) * y \in Int
    BY <1>2
  <2> QED BY <1>1, <2>1, <2>2, <2>3
<1>4. a * s + r \in 0 .. b * a - 1 /\ b * a \in Nat \ {0}
  <2>1. a * s >= 0 /\ a * s <= a * (b - 1)
    BY <1>2
  <2>2. a * (b - 1) = b * a - a /\ b * a \in Nat
    OBVIOUS
  <2>3. a * s \in Int
    BY <1>2
  <2>4. b * a # 0
    OBVIOUS
  <2> QED BY <1>1, <2>1, <2>2, <2>3, <2>4
<1>5. v \div (b * a) = y
  BY <1>2, <1>3, <1>4, Euclid
<1> QED BY <1>5 DEF x, y

\* A shift of a byte can be taken back.
LEMMA ShiftBack ==
    ASSUME NEW x \in Byte, NEW c \in Int
    PROVE  (x + c) % Radix \in Byte /\ (((x + c) % Radix) - c) % Radix = x
<1> DEFINE q == (x + c) \div Radix
           r == (x + c) % Radix
<1>1. Radix \in Nat \ {0} /\ x \in Int
  BY RadixAssumption DEF Byte
<1>2. q \in Int /\ r \in 0 .. Radix - 1 /\ x + c = Radix * q + r
  BY <1>1
<1> HIDE DEF q, r
<1>3. r - c = Radix * (-q) + x
  <2>1. Radix * (-q) = -(Radix * q) /\ Radix * q \in Int
    BY <1>1, <1>2
  <2> QED BY <1>1, <1>2, <2>1
<1>4. (r - c) % Radix = x
  <2>1. r - c \in Int /\ -q \in Int /\ x \in 0 .. Radix - 1
    BY <1>1, <1>2 DEF Byte
  <2> QED BY <1>1, <1>3, <2>1, Euclid
<1> QED BY <1>2, <1>4 DEF r, Byte

\* The powers of Radix are numbers.
LEMMA Powers ==
    /\ \A n \in 0 .. 8 : Radix ^ n \in Nat \ {0}
    /\ Radix ^ 1 = Radix
    /\ \A n \in 0 .. 7 : Radix ^ n < Radix ^ (n + 1)
<1> DEFINE T == {n \in 0 .. 8 : Radix ^ n \in Nat \ {0}}
<1>1. 0 \in T
  BY PowerAssumption
<1>2. \A n \in 0 .. 7 : n \in T => n + 1 \in T
  <2> SUFFICES ASSUME NEW n \in 0 .. 7, Radix ^ n \in Nat \ {0}
               PROVE  Radix ^ (n + 1) \in Nat \ {0}
    OBVIOUS
  <2> DEFINE x == Radix ^ n
  <2>1. Radix ^ (n + 1) = Radix * x
    BY PowerAssumption
  <2>2. x \in Nat \ {0} /\ Radix \in Nat \ {0}
    BY RadixAssumption
  <2> HIDE DEF x
  <2>3. Radix * x \in Nat \ {0}
    BY <2>2
  <2> QED BY <2>1, <2>3
<1>3. 0 .. 8 \subseteq T
  <2>1. 8 - 1 = 7 /\ 8 \in Nat
    OBVIOUS
  <2> HIDE DEF T
  <2> QED BY <1>1, <1>2, <2>1, CountUp
<1>4. Radix ^ 1 = Radix
  <2>1. Radix ^ (0 + 1) = Radix * Radix ^ 0
    BY PowerAssumption
  <2>2. 0 + 1 = 1 /\ Radix * 1 = Radix
    BY RadixAssumption
  <2> QED BY <2>1, <2>2, PowerAssumption
<1>5. ASSUME NEW n \in 0 .. 7 PROVE Radix ^ n < Radix ^ (n + 1)
  <2> DEFINE x == Radix ^ n
  <2>1. Radix ^ (n + 1) = Radix * x
    BY PowerAssumption
  <2>2. x \in Nat \ {0} /\ Radix \in Nat /\ Radix >= 8
    BY <1>3, RadixAssumption
  <2> HIDE DEF x
  <2>3. x < Radix * x
    BY <2>2
  <2> QED BY <2>1, <2>3 DEF x
<1> QED BY <1>3, <1>4, <1>5

\* A number in network order has its bytes.
LEMMA NetBytes ==
    ASSUME NEW v \in Int, NEW w \in 1 .. 8
    PROVE  Net(v, w) \in Seq(Byte) /\ Len(Net(v, w)) = w
<1>1. ASSUME NEW i \in 1 .. w PROVE (v \div Radix ^ (w - i)) % Radix \in Byte
  <2>1. Radix ^ (w - i) \in Nat \ {0} /\ Radix \in Nat \ {0}
    BY Powers, RadixAssumption
  <2> DEFINE x == v \div Radix ^ (w - i)
  <2>2. x \in Int
    BY <2>1
  <2> HIDE DEF x
  <2>3. x % Radix \in 0 .. Radix - 1
    BY <2>1, <2>2
  <2> QED BY <2>3 DEF x, Byte
<1>2. Net(v, w) \in [1 .. w -> Byte]
  BY <1>1 DEF Net
<1> QED BY <1>2

\* What is put in network order is read back, if it is not too wide.
LEMMA HostNet ==
    ASSUME NEW w \in 1 .. 8, NEW v \in 0 .. Radix ^ w - 1
    PROVE  Host(Net(v, w)) = v
<1> DEFINE s == Net(v, w)
           IsValue(f) == f = [i \in 0 .. w |-> IF i = 0 THEN 0 ELSE f[i - 1] * Radix + s[i]]
           f == [i \in 0 .. w |-> v \div Radix ^ (w - i)]
           g == CHOOSE x : IsValue(x)
<1>1. v \in Nat /\ Radix \in Nat \ {0} /\ Len(s) = w /\ \A n \in 0 .. 8 : Radix ^ n \in Nat \ {0}
  <2>1. \A n \in 0 .. 8 : Radix ^ n \in Nat \ {0}
    BY Powers
  <2>2. v \in Int /\ v \in Nat
    BY <2>1
  <2>3. Len(s) = w
    BY <2>2, NetBytes
  <2> QED BY <2>1, <2>2, <2>3, RadixAssumption
<1>2. f[0] = 0
  <2> DEFINE p == Radix ^ w
  <2>1. p \in Nat \ {0} /\ v \in 0 .. p - 1
    BY <1>1
  <2> HIDE DEF p
  <2>2. v = p * 0 + v
    BY <2>1
  <2>3. v \div p = 0
    BY <2>1, <2>2, Euclid
  <2> QED BY <2>3 DEF p
<1>3. ASSUME NEW i \in 1 .. w PROVE f[i] = f[i - 1] * Radix + s[i]
  <2> DEFINE p == Radix ^ (w - i)
             x == v \div p
  <2>1. p \in Nat \ {0} /\ w - i \in 0 .. 7 /\ w - (i - 1) = (w - i) + 1
    BY <1>1
  <2>2. Radix ^ (w - (i - 1)) = Radix * p
    BY <2>1, PowerAssumption
  <2>3. f[i] = x /\ s[i] = x % Radix /\ f[i - 1] = v \div (Radix * p)
    BY <2>2 DEF Net
  <2> HIDE DEF p, f, s
  <2>4. (v \div p) \div Radix = v \div (Radix * p)
    BY <1>1, <2>1, DivDiv
  <2>5. x \in Int
    BY <1>1, <2>1
  <2> HIDE DEF x
  <2>6. x = Radix * (x \div Radix) + (x % Radix) /\ x \div Radix \in Int
    BY <1>1, <2>5
  <2>7. f[i - 1] = x \div Radix
    BY <2>3, <2>4 DEF x
  <2>8. Radix * f[i - 1] = f[i - 1] * Radix
    BY <1>1, <2>6, <2>7
  <2> QED BY <2>3, <2>6, <2>7, <2>8
<1>4. IsValue(f)
  <2> DEFINE h == [i \in 0 .. w |-> IF i = 0 THEN 0 ELSE f[i - 1] * Radix + s[i]]
  <2>1. \A i \in 0 .. w : f[i] = h[i]
    <3> SUFFICES ASSUME NEW i \in 0 .. w PROVE f[i] = h[i]
      OBVIOUS
    <3>1. i # 0 => i \in 1 .. w
      OBVIOUS
    <3> HIDE DEF f, s
    <3> QED BY <1>2, <1>3, <3>1
  <2> QED BY <2>1
<1>5. IsValue(g)
  BY <1>4
<1> HIDE DEF s
<1>6. g = f
  <2> DEFINE T == {i \in 0 .. w : g[i] = f[i]}
  <2>1. \A i \in 0 .. w : g[i] = IF i = 0 THEN 0 ELSE g[i - 1] * Radix + s[i]
    BY <1>5
  <2>1a. DOMAIN g = 0 .. w /\ g = [i \in 0 .. w |-> g[i]]
    BY <1>5
  <2> HIDE DEF f, g
  <2>2. 0 \in T
    BY <1>2, <2>1
  <2>3. \A i \in 0 .. w - 1 : i \in T => i + 1 \in T
    <3> SUFFICES ASSUME NEW i \in 0 .. w - 1, g[i] = f[i] PROVE g[i + 1] = f[i + 1]
      OBVIOUS
    <3>1. i + 1 \in 1 .. w /\ i + 1 \in 0 .. w /\ (i + 1) - 1 = i /\ i + 1 # 0
      OBVIOUS
    <3> QED BY <1>3, <2>1, <3>1
  <2>4. 0 .. w \subseteq T
    <3> HIDE DEF T
    <3> QED BY <2>2, <2>3, CountUp
  <2>5. f = [i \in 0 .. w |-> f[i]]
    BY DEF f
  <2> QED BY <2>1a, <2>4, <2>5
<1>7. Host(s) = g[w]
  BY <1>1 DEF Host
<1>8. f[w] = v
  <2>1. w - w = 0 /\ Radix ^ 0 = 1 /\ v \div 1 = v
    BY <1>1, PowerAssumption
  <2> QED BY <2>1
<1> QED BY <1>6, <1>7, <1>8 DEF s

-----------------------------------------------------------------------------
(* Sequences                                                               *)

\* F has the first i of the sequences one after the other, for each i up to k.
Joins(F, S, seqs, k) == /\ F \in [0 .. k -> Seq(S)]
                           /\ F[0] = <<>>
                           /\ \A i \in 1 .. k : F[i] = F[i - 1] \o seqs[i]

\* There is such an F.
LEMMA PrefixesExist ==
    ASSUME NEW S, NEW seqs \in Seq(Seq(S))
    PROVE  \E F : Joins(F, S, seqs, Len(seqs))
<1> DEFINE n == Len(seqs)
           T == {k \in 0 .. n : \E F : Joins(F, S, seqs, k)}
<1>1. 0 \in T
  <2> DEFINE F == [i \in 0 .. 0 |-> <<>>]
  <2>1. F \in [0 .. 0 -> Seq(S)] /\ F[0] = <<>>
    OBVIOUS
  <2> HIDE DEF F
  <2>2. Joins(F, S, seqs, 0)
    BY <2>1 DEF Joins
  <2> QED BY <2>2
<1>2. \A k \in 0 .. n - 1 : k \in T => k + 1 \in T
  <2> SUFFICES ASSUME NEW k \in 0 .. n - 1, k \in T PROVE \E F : Joins(F, S, seqs, k + 1)
    OBVIOUS
  <2>0. k \in Nat /\ k + 1 \in 1 .. Len(seqs)
    OBVIOUS
  <2>1. PICK F : Joins(F, S, seqs, k)
    OBVIOUS
  <2> DEFINE G == [i \in 0 .. k + 1 |-> IF i <= k THEN F[i] ELSE F[k] \o seqs[k + 1]]
  <2>2. F[k] \o seqs[k + 1] \in Seq(S)
    <3>1. F[k] \in Seq(S) /\ k + 1 \in 1 .. Len(seqs)
      BY <2>1 DEF Joins
    <3>2. seqs[k + 1] \in Seq(S)
      BY <3>1
    <3> QED BY <3>1, <3>2, ConcatProperties
  <2>3. G \in [0 .. k + 1 -> Seq(S)]
    <3>1. \A i \in 0 .. k + 1 : i <= k => F[i] \in Seq(S)
      BY <2>1 DEF Joins
    <3> HIDE DEF T
    <3> QED BY <2>2, <3>1
  <2>4. G[0] = <<>>
    BY <2>1 DEF Joins
  <2>5. ASSUME NEW i \in 1 .. k + 1 PROVE G[i] = G[i - 1] \o seqs[i]
    <3>0. i \in 0 .. k + 1 /\ i - 1 \in 0 .. k + 1 /\ i - 1 <= k /\ i \in Int
      BY <2>0
    <3>1. CASE i <= k
      <4>1. F[i] = F[i - 1] \o seqs[i]
        <5>1. i \in 1 .. k
          BY <2>0, <3>1
        <5> QED BY <2>1, <5>1 DEF Joins
      <4>2. G[i] = F[i] /\ G[i - 1] = F[i - 1]
        BY <3>0, <3>1
      <4> HIDE DEF G
      <4> QED BY <4>1, <4>2
    <3>2. CASE i = k + 1
      <4>1. G[i] = F[k] \o seqs[k + 1] /\ G[i - 1] = F[k]
        <5>1. ~(i <= k) /\ i - 1 = k
          BY <2>0, <3>2
        <5> QED BY <3>0, <3>2, <5>1
      <4> HIDE DEF G
      <4> QED BY <3>2, <4>1
    <3>3. i <= k \/ i = k + 1
      BY <2>0
    <3> HIDE DEF G
    <3> QED BY <3>1, <3>2, <3>3
  <2> HIDE DEF G
  <2>6. Joins(G, S, seqs, k + 1)
    BY <2>3, <2>4, <2>5 DEF Joins
  <2> QED BY <2>6
<1>3. n \in T
  <2>1. n \in Nat
    OBVIOUS
  <2> HIDE DEF n, T
  <2>2. 0 .. n \subseteq T
    BY <1>1, <1>2, <2>1, CountUp
  <2> QED BY <2>1, <2>2
<1> QED BY <1>3

\* The last of them is what FlattenSeq makes of the sequences.
LEMMA FlattenIs ==
    ASSUME NEW S, NEW seqs \in Seq(Seq(S)), NEW F, Joins(F, S, seqs, Len(seqs))
    PROVE  FlattenSeq(seqs) = F[Len(seqs)]
<1> DEFINE n == Len(seqs)
           IsFlat(g) == g = [i \in 1 .. n |-> IF i = 1 THEN seqs[i] ELSE g[i - 1] \o seqs[i]]
           f == [i \in 1 .. n |-> F[i]]
           g == CHOOSE x : IsFlat(x)
<1>1. n \in Nat
  OBVIOUS
<1>2. CASE n = 0
  <2>1. seqs = <<>>
    BY <1>2, EmptySeq
  <2> QED BY <1>2, <2>1 DEF FlattenSeq, Joins
<1>3. CASE n # 0
  <2>1. F[1] = seqs[1]
    <3>1. 1 \in 1 .. n /\ 1 - 1 = 0
      BY <1>1, <1>3
    <3>2. F[1] = F[0] \o seqs[1] /\ F[0] = <<>> /\ seqs[1] \in Seq(S)
      <4>1. F[0] = <<>> /\ \A i \in 1 .. Len(seqs) : F[i] = F[i - 1] \o seqs[i]
        BY DEF Joins
      <4>2. F[1] = F[1 - 1] \o seqs[1]
        BY <3>1, <4>1
      <4>3. seqs[1] \in Seq(S)
        BY <3>1
      <4> QED BY <3>1, <4>1, <4>2, <4>3
    <3> QED BY <3>2, ConcatEmptySeq
  <2>2. IsFlat(f)
    <3>1. \A i \in 1 .. n : F[i] = IF i = 1 THEN seqs[i] ELSE f[i - 1] \o seqs[i]
      <4> SUFFICES ASSUME NEW i \in 1 .. n, i # 1 PROVE F[i] = f[i - 1] \o seqs[i]
        BY <2>1
      <4>1. f[i - 1] = F[i - 1]
        OBVIOUS
      <4>2. F[i] = F[i - 1] \o seqs[i]
        BY DEF Joins
      <4> HIDE DEF f
      <4> QED BY <4>1, <4>2
    <3> QED BY <3>1
  <2>3. IsFlat(g)
    BY <2>2
  <2>4. \A i \in 1 .. n : g[i] = IF i = 1 THEN seqs[i] ELSE g[i - 1] \o seqs[i]
    BY <2>3
  <2> DEFINE T == {i \in 0 .. n : i # 0 => g[i] = F[i]}
  <2>5. 0 \in T
    BY <1>1
  <2>6. \A i \in 0 .. n - 1 : i \in T => i + 1 \in T
    <3> HIDE DEF g
    <3> SUFFICES ASSUME NEW i \in 0 .. n - 1, i # 0 => g[i] = F[i] PROVE g[i + 1] = F[i + 1]
      OBVIOUS
    <3>1. i + 1 \in 1 .. n /\ (i + 1) - 1 = i
      BY <1>1
    <3>2. CASE i = 0
      BY <2>1, <2>4, <3>1, <3>2
    <3>3. CASE i # 0
      <4>1. g[i + 1] = g[i] \o seqs[i + 1]
        <5>1. i + 1 # 1
          BY <1>1, <3>3
        <5> QED BY <2>4, <3>1, <5>1
      <4>2. F[i + 1] = F[i] \o seqs[i + 1]
        BY <3>1 DEF Joins
      <4> QED BY <3>3, <4>1, <4>2
    <3> QED BY <3>2, <3>3
  <2>7. g[n] = F[n]
    <3> HIDE DEF T, g, n
    <3>1. 0 .. n \subseteq T
      BY <1>1, <2>5, <2>6, CountUp
    <3>2. n \in T
      BY <1>1, <3>1
    <3> QED BY <1>3, <3>2 DEF T
  <2>8. FlattenSeq(seqs) = g[n]
    BY <1>3 DEF FlattenSeq
  <2> QED BY <2>7, <2>8
<1> QED BY <1>2, <1>3

\* Sequences of elements of S are joined to a sequence of elements of S.
LEMMA FlattenType ==
    ASSUME NEW S, NEW seqs \in Seq(Seq(S))
    PROVE  FlattenSeq(seqs) \in Seq(S)
<1>1. PICK F : Joins(F, S, seqs, Len(seqs))
  BY PrefixesExist
<1>2. FlattenSeq(seqs) = F[Len(seqs)]
  BY <1>1, FlattenIs
<1>3. Len(seqs) \in 0 .. Len(seqs)
  OBVIOUS
<1> QED BY <1>1, <1>2, <1>3 DEF Joins

\* w bytes of p behind the first pos
Slice(p, pos, w) == SubSeq(p, pos + 1, pos + w)

\* The elements of a slice.
LEMMA SliceIs ==
    ASSUME NEW S, NEW p \in Seq(S), NEW pos \in Nat, NEW w \in Nat, pos + w <= Len(p)
    PROVE  /\ Slice(p, pos, w) \in Seq(S) /\ Len(Slice(p, pos, w)) = w
           /\ \A i \in 1 .. w : Slice(p, pos, w)[i] = p[pos + i]
<1>1. \A i \in pos + 1 .. pos + w : p[i] \in S
  OBVIOUS
<1>2. /\ SubSeq(p, pos + 1, pos + w) \in Seq(S)
      /\ Len(SubSeq(p, pos + 1, pos + w)) = IF pos + 1 <= pos + w THEN (pos + w) - (pos + 1) + 1 ELSE 0
      /\ \A i \in 1 .. (pos + w) - (pos + 1) + 1 : SubSeq(p, pos + 1, pos + w)[i] = p[(pos + 1) + i - 1]
  BY <1>1, SubSeqProperties
<1>3. (pos + w) - (pos + 1) + 1 = w /\ \A i \in 1 .. w : (pos + 1) + i - 1 = pos + i
  OBVIOUS
<1>4. Len(SubSeq(p, pos + 1, pos + w)) = w
  BY <1>2, <1>3
<1>5. \A i \in 1 .. w : SubSeq(p, pos + 1, pos + w)[i] = p[pos + i]
  BY <1>2, <1>3
<1> QED BY <1>2, <1>4, <1>5 DEF Slice

\* p behind the first a, and q behind the first b, have the same w elements.
Alike(p, a, q, b, w) == \A i \in 1 .. w : p[a + i] = q[b + i]

\* Where two sequences are the same, so are their slices.
LEMMA SameSlice ==
    ASSUME NEW S, NEW p \in Seq(S), NEW q \in Seq(S), NEW pos \in Nat, NEW rel \in Nat, NEW w \in Nat,
           pos + w <= Len(p), rel + w <= Len(q), Alike(p, pos, q, rel, w)
    PROVE  Slice(p, pos, w) = Slice(q, rel, w)
<1>1. /\ Slice(p, pos, w) \in Seq(S) /\ Len(Slice(p, pos, w)) = w
      /\ \A i \in 1 .. w : Slice(p, pos, w)[i] = p[pos + i]
  BY SliceIs
<1>2. /\ Slice(q, rel, w) \in Seq(S) /\ Len(Slice(q, rel, w)) = w
      /\ \A i \in 1 .. w : Slice(q, rel, w)[i] = q[rel + i]
  BY SliceIs
<1>3. \A i \in 1 .. w : Slice(p, pos, w)[i] = Slice(q, rel, w)[i]
  BY <1>1, <1>2 DEF Alike
<1> QED BY <1>1, <1>2, <1>3, SeqEqual

\* A sequence that a slice has the elements of is that slice.
LEMMA WholeSlice ==
    ASSUME NEW S, NEW p \in Seq(S), NEW s \in Seq(S), NEW pos \in Nat, pos + Len(s) <= Len(p),
           \A i \in 1 .. Len(s) : p[pos + i] = s[i]
    PROVE  Slice(p, pos, Len(s)) = s
<1>1. Len(s) \in Nat
  OBVIOUS
<1>2. /\ Slice(p, pos, Len(s)) \in Seq(S) /\ Len(Slice(p, pos, Len(s))) = Len(s)
      /\ \A i \in 1 .. Len(s) : Slice(p, pos, Len(s))[i] = p[pos + i]
  BY <1>1, SliceIs
<1>3. \A i \in 1 .. Len(s) : Slice(p, pos, Len(s))[i] = s[i]
  BY <1>2
<1> QED BY <1>2, <1>3, SeqEqual

\* The elements of two sequences, one behind the other.
LEMMA JoinIs ==
    ASSUME NEW S, NEW s \in Seq(S), NEW t \in Seq(S), NEW q, q = s \o t
    PROVE  /\ q \in Seq(S) /\ Len(q) = Len(s) + Len(t)
           /\ \A i \in 1 .. Len(s) : q[i] = s[i]
           /\ \A i \in 1 .. Len(t) : q[Len(s) + i] = t[i]
<1>1. /\ q \in Seq(S) /\ Len(q) = Len(s) + Len(t)
      /\ \A i \in 1 .. Len(s) + Len(t) : q[i] = IF i <= Len(s) THEN s[i] ELSE t[i - Len(s)]
  BY ConcatProperties
<1>2. Len(s) \in Nat /\ Len(t) \in Nat
  OBVIOUS
<1>3. ASSUME NEW i \in 1 .. Len(s) PROVE q[i] = s[i]
  <2>1. i <= Len(s) /\ i \in 1 .. Len(s) + Len(t)
    BY <1>2
  <2> QED BY <1>1, <2>1
<1>4. ASSUME NEW i \in 1 .. Len(t) PROVE q[Len(s) + i] = t[i]
  <2>1. ~(Len(s) + i <= Len(s)) /\ Len(s) + i \in 1 .. Len(s) + Len(t) /\ (Len(s) + i) - Len(s) = i
    BY <1>2
  <2>2. q[Len(s) + i] = IF Len(s) + i <= Len(s) THEN s[Len(s) + i] ELSE t[(Len(s) + i) - Len(s)]
    BY <1>1, <2>1
  <2> QED BY <2>1, <2>2
<1> QED BY <1>1, <1>3, <1>4

\* r and p have the same first m elements, but for those whose place is in T.
Kept(r, p, m, T) == \A i \in 1 .. m : i \notin T => r[i] = p[i]

\* None of the w places behind the first a is in T.
Off(T, a, w) == \A i \in a + 1 .. a + w : i \notin T

\* q is p with the k bytes s behind the first pos.
PutIn(q, p, pos, s, k) ==
    /\ p \in Seq(Byte) /\ s \in Seq(Byte) /\ pos \in Nat /\ k \in Nat
    /\ k = Len(s) /\ pos + k <= Len(p) /\ q = Put(p, pos, s)

\* q has the bytes s there, and is p elsewhere.
Holds(q, p, pos, s, k) ==
    /\ q \in Seq(Byte) /\ Len(q) = Len(p)
    /\ Slice(q, pos, k) = s
    /\ Kept(q, p, Len(p), pos + 1 .. pos + k)
    /\ \A i \in 1 .. k : q[pos + i] = s[i]

\* What is put in a packet is there, and nothing else has changed.
LEMMA PutIs ==
    ASSUME NEW p, NEW s, NEW pos, NEW k, NEW q, PutIn(q, p, pos, s, k)
    PROVE  Holds(q, p, pos, s, k)
<1> SUFFICES ASSUME p \in Seq(Byte), s \in Seq(Byte), pos \in Nat, k \in Nat,
                    k = Len(s), pos + Len(s) <= Len(p), q = Put(p, pos, s)
             PROVE  Holds(q, p, pos, s, k)
  BY DEF PutIn
<1> DEFINE a == Slice(p, 0, pos)
           n == Len(p) - (pos + Len(s))
           b == Slice(p, pos + Len(s), n)
           c == a \o s
           u == c \o b
<1>1. Len(p) \in Nat /\ Len(s) \in Nat /\ n \in Nat
  OBVIOUS
<1>2. a \in Seq(Byte) /\ Len(a) = pos /\ \A i \in 1 .. pos : a[i] = p[i]
  <2>1. 0 \in Nat /\ 0 + pos <= Len(p) /\ \A i \in 1 .. pos : 0 + i = i
    BY <1>1
  <2>2. /\ Slice(p, 0, pos) \in Seq(Byte) /\ Len(Slice(p, 0, pos)) = pos
        /\ \A i \in 1 .. pos : Slice(p, 0, pos)[i] = p[0 + i]
    BY <2>1, SliceIs
  <2> QED BY <2>1, <2>2
<1>3. b \in Seq(Byte) /\ Len(b) = n /\ \A i \in 1 .. n : b[i] = p[(pos + Len(s)) + i]
  <2>1. pos + Len(s) \in Nat /\ (pos + Len(s)) + n <= Len(p)
    BY <1>1
  <2> HIDE DEF n
  <2> QED BY <1>1, <2>1, SliceIs
<1>4. Put(p, pos, s) = u
  <2>1. SubSeq(p, 1, pos) = a
    <3>1. 0 + 1 = 1 /\ 0 + pos = pos
      OBVIOUS
    <3> QED BY <3>1 DEF Slice
  <2>2. SubSeq(p, pos + Len(s) + 1, Len(p)) = b
    <3>1. (pos + Len(s)) + 1 = pos + Len(s) + 1 /\ (pos + Len(s)) + n = Len(p)
      BY <1>1
    <3> HIDE DEF n
    <3> QED BY <3>1 DEF Slice
  <2> HIDE DEF a, b
  <2> QED BY <2>1, <2>2 DEF Put
<1> HIDE DEF a, b
<1>5. /\ c \in Seq(Byte) /\ Len(c) = pos + Len(s)
      /\ \A i \in 1 .. pos : c[i] = p[i]
      /\ \A i \in 1 .. Len(s) : c[pos + i] = s[i]
  <2>1. c = a \o s
    OBVIOUS
  <2> HIDE DEF c
  <2>2. /\ c \in Seq(Byte) /\ Len(c) = Len(a) + Len(s)
        /\ \A i \in 1 .. Len(a) : c[i] = a[i]
        /\ \A i \in 1 .. Len(s) : c[Len(a) + i] = s[i]
    <3>1. a \in Seq(Byte)
      BY <1>2
    <3> QED BY <2>1, <3>1, JoinIs
  <2> QED BY <1>2, <2>2
<1>5a. u = c \o b
  OBVIOUS
<1> HIDE DEF c, u
<1>6. /\ u \in Seq(Byte) /\ Len(u) = Len(p)
      /\ \A i \in 1 .. pos + Len(s) : u[i] = c[i]
      /\ \A i \in 1 .. n : u[(pos + Len(s)) + i] = b[i]
  <2>1. /\ u \in Seq(Byte) /\ Len(u) = Len(c) + Len(b)
        /\ \A i \in 1 .. Len(c) : u[i] = c[i]
        /\ \A i \in 1 .. Len(b) : u[Len(c) + i] = b[i]
    <3>1. b \in Seq(Byte) /\ c \in Seq(Byte)
      BY <1>3, <1>5
    <3> QED BY <1>5a, <3>1, JoinIs
  <2> QED BY <1>1, <1>3, <1>5, <2>1
<1>7. \A i \in 1 .. Len(s) : u[pos + i] = s[i]
  <2> SUFFICES ASSUME NEW i \in 1 .. Len(s) PROVE u[pos + i] = s[i]
    OBVIOUS
  <2>1. pos + i \in 1 .. pos + Len(s)
    BY <1>1
  <2> QED BY <1>5, <1>6, <2>1
<1>8. \A i \in 1 .. Len(p) : i \notin pos + 1 .. pos + Len(s) => u[i] = p[i]
  <2> SUFFICES ASSUME NEW i \in 1 .. Len(p), i \notin pos + 1 .. pos + Len(s) PROVE u[i] = p[i]
    OBVIOUS
  <2>1. CASE i <= pos
    <3>1. i \in 1 .. pos /\ i \in 1 .. pos + Len(s)
      BY <1>1, <2>1
    <3> QED BY <1>5, <1>6, <3>1
  <2>2. CASE ~(i <= pos)
    <3> DEFINE j == i - (pos + Len(s))
    <3>1. j \in 1 .. n /\ (pos + Len(s)) + j = i
      BY <1>1, <2>2
    <3> HIDE DEF j, n
    <3> QED BY <1>3, <1>6, <3>1
  <2> QED BY <2>1, <2>2
<1>9. Slice(u, pos, Len(s)) = s
  <2>1. pos + Len(s) <= Len(u)
    BY <1>6
  <2> QED BY <1>6, <1>7, <2>1, WholeSlice
<1>10. Kept(u, p, Len(p), pos + 1 .. pos + k)
  BY <1>8 DEF Kept
<1> QED BY <1>4, <1>6, <1>7, <1>9, <1>10 DEF Holds

\* Slices away from those places are the same.
LEMMA KeptSlice ==
    ASSUME NEW S, NEW p \in Seq(S), NEW r \in Seq(S), NEW m \in Nat, NEW T,
           m <= Len(p), m <= Len(r), Kept(r, p, m, T),
           NEW a \in Nat, NEW w \in Nat, a + w <= m, Off(T, a, w)
    PROVE  Slice(r, a, w) = Slice(p, a, w)
<1>1. ASSUME NEW i \in 1 .. w PROVE r[a + i] = p[a + i]
  <2>1. a + i \in a + 1 .. a + w /\ a + i \in 1 .. m
    OBVIOUS
  <2> QED BY <2>1 DEF Kept, Off
<1>2. Alike(r, a, p, a, w)
  BY <1>1 DEF Alike
<1>3. a + w <= Len(p) /\ a + w <= Len(r)
  <2>1. Len(p) \in Nat /\ Len(r) \in Nat
    OBVIOUS
  <2> QED BY <2>1
<1> QED BY <1>2, <1>3, SameSlice

-----------------------------------------------------------------------------
(* Packets                                                                 *)

\* none, or a cookie
OneCookie == {<<>>} \cup {<<x>> : x \in {y \in Seq(Byte) : Len(y) <= MaxWord}}

CookieLen(c) == IF c = <<>> THEN 0 ELSE 2 + Len(c[1])

\* the lengths of packets that have a body
Size == 31 .. Radix ^ 3

\* the bytes of the header that say how long the packet is and where its cookie
Extents == (4 .. 7) \cup (27 .. 29)

\* The cookie c follows a body that ends at n - 1.
Behind(p, n, c) == c # <<>> => At(p, n - 1, 2) = Len(c[1]) /\ Slice(p, n + 1, Len(c[1])) = c[1]

\* A packet of n bytes, and the cookie c behind its body.
Framed(p, n, c) ==
    /\ p \in Seq(Byte) /\ Len(p) = n + CookieLen(c)
    /\ p[1] = SOH /\ p[2] = MAIN_VER /\ p[Len(p)] = EOT
    /\ At(p, 3, 4) = Len(p)
    /\ At(p, 26, 3) = IF c = <<>> THEN 0 ELSE n - 1
    /\ Behind(p, n, c)

\* A number in a packet is that of its slice.
LEMMA AtSlice ==
    ASSUME NEW p, NEW pos, NEW w
    PROVE  At(p, pos, w) = Host(Slice(p, pos, w))
BY DEF At, Slice

\* The length of a cookie is a number.
LEMMA CookieIs ==
    ASSUME NEW c \in OneCookie
    PROVE  /\ CookieLen(c) \in Nat
           /\ c # <<>> => /\ c[1] \in Seq(Byte) /\ Len(c[1]) \in Nat /\ Len(c[1]) <= MaxWord
                          /\ CookieLen(c) = 2 + Len(c[1]) /\ c = <<c[1]>>
<1>1. CASE c = <<>>
  BY <1>1 DEF CookieLen
<1>2. CASE c # <<>>
  <2>1. PICK x \in Seq(Byte) : Len(x) <= MaxWord /\ c = <<x>>
    BY <1>2 DEF OneCookie
  <2>2. c[1] = x /\ Len(x) \in Nat
    BY <2>1
  <2> QED BY <1>2, <2>1, <2>2 DEF CookieLen
<1> QED BY <1>1, <1>2

\* Sizes are numbers.
LEMMA SizeIs ==
    ASSUME NEW n \in Size
    PROVE  n \in Nat /\ n >= 31 /\ n <= Radix ^ 3
<1>1. Radix ^ 3 \in Nat
  BY Powers
<1> QED BY <1>1 DEF Size

\* A cookie stays where it is when nothing behind the body is changed.
LEMMA BehindKept ==
    ASSUME NEW n \in Size, NEW c \in OneCookie, NEW p \in Seq(Byte), NEW q \in Seq(Byte), NEW T,
           Len(p) = n + CookieLen(c), Len(q) = Len(p), Kept(q, p, Len(p), T),
           \A i \in T : i \in Nat /\ i <= n - 1, Behind(p, n, c)
    PROVE  Behind(q, n, c)
<1> SUFFICES ASSUME c # <<>>
             PROVE  At(q, n - 1, 2) = At(p, n - 1, 2)
                    /\ Slice(q, n + 1, Len(c[1])) = Slice(p, n + 1, Len(c[1]))
  BY DEF Behind
<1> DEFINE l == Len(c[1])
<1>1. l \in Nat /\ CookieLen(c) = 2 + l /\ n \in Nat /\ n >= 31
  BY CookieIs, SizeIs
<1> HIDE DEF l
<1>2. /\ n - 1 \in Nat /\ (n - 1) + 2 <= Len(p) /\ n + 1 \in Nat /\ (n + 1) + l <= Len(p)
      /\ Len(p) \in Nat /\ Len(p) <= Len(p) /\ Len(p) <= Len(q)
  BY <1>1
<1>3. Off(T, n - 1, 2) /\ Off(T, n + 1, l)
  BY <1>1 DEF Off
<1>4. Slice(q, n - 1, 2) = Slice(p, n - 1, 2)
  BY <1>2, <1>3, KeptSlice
<1>5. Slice(q, n + 1, l) = Slice(p, n + 1, l)
  BY <1>1, <1>2, <1>3, KeptSlice
<1>6. At(p, n - 1, 2) = Len(c[1]) /\ Slice(p, n + 1, Len(c[1])) = c[1]
  BY DEF Behind
<1> QED BY <1>4, <1>5, <1>6, AtSlice DEF l

\* q is the packet p with the k bytes s behind the first pos, away from what says its extents.
FramePut(q, p, n, c, pos, s, k) ==
    /\ Framed(p, n, c) /\ s \in Seq(Byte) /\ pos \in Nat /\ k \in Nat
    /\ k = Len(s) /\ pos + k <= n - 1 /\ q = Put(p, pos, s)
    /\ Off({1, 2} \cup Extents, pos, k)

\* q is a packet with the bytes s there, and as p elsewhere.
FrameHolds(q, p, n, c, pos, s, k) ==
    /\ Framed(q, n, c) /\ q \in Seq(Byte) /\ n - 1 <= Len(q)
    /\ Slice(q, pos, k) = s
    /\ Kept(q, p, n - 1, pos + 1 .. pos + k)
    /\ \A i \in 1 .. k : q[pos + i] = s[i]

\* A packet stays one when something is put elsewhere in its header, or in its body.
LEMMA PutFrame ==
    ASSUME NEW n \in Size, NEW c \in OneCookie, NEW p, NEW s, NEW pos, NEW k, NEW q,
           FramePut(q, p, n, c, pos, s, k)
    PROVE  FrameHolds(q, p, n, c, pos, s, k)
<1> SUFFICES ASSUME Framed(p, n, c), s \in Seq(Byte), pos \in Nat, k \in Nat, k = Len(s),
                    pos + k <= n - 1, q = Put(p, pos, s), Off({1, 2} \cup Extents, pos, k)
             PROVE  FrameHolds(q, p, n, c, pos, s, k)
  BY DEF FramePut
<1> DEFINE T == pos + 1 .. pos + k
<1>1. n \in Nat /\ n >= 31 /\ CookieLen(c) \in Nat /\ Len(s) \in Nat
  BY SizeIs, CookieIs
<1>2. p \in Seq(Byte) /\ Len(p) = n + CookieLen(c) /\ pos + k <= Len(p) /\ Len(p) \in Nat
  BY <1>1 DEF Framed
<1>3. /\ q \in Seq(Byte) /\ Len(q) = Len(p)
      /\ Slice(q, pos, k) = s
      /\ Kept(q, p, Len(p), T)
      /\ \A i \in 1 .. k : q[pos + i] = s[i]
  <2>1. PutIn(q, p, pos, s, k)
    BY <1>2 DEF PutIn
  <2>2. Holds(q, p, pos, s, k)
    BY <2>1, PutIs
  <2> QED BY <2>2 DEF Holds
<1>4. \A i \in T : i \in Nat /\ i <= n - 1 /\ i \notin {1, 2} \cup Extents
  BY <1>1 DEF Off
<1> HIDE DEF T
<1>5. Kept(q, p, Len(p), T)
  BY <1>3
<1>6. q[1] = p[1] /\ q[2] = p[2] /\ q[Len(q)] = p[Len(p)]
  <2>1. 1 \notin T /\ 2 \notin T /\ Len(p) \notin T /\ {1, 2, Len(p)} \subseteq 1 .. Len(p)
    BY <1>1, <1>2, <1>4
  <2> QED BY <1>3, <2>1 DEF Kept
<1>7. At(q, 3, 4) = At(p, 3, 4) /\ At(q, 26, 3) = At(p, 26, 3)
  <2>1. Off(T, 3, 4) /\ Off(T, 26, 3)
    BY <1>4 DEF Extents, Off
  <2>2. 3 + 4 <= Len(p) /\ 26 + 3 <= Len(p) /\ Len(p) <= Len(p) /\ Len(p) <= Len(q)
    BY <1>1, <1>2, <1>3
  <2>3. p \in Seq(Byte) /\ q \in Seq(Byte) /\ Len(p) \in Nat
    BY <1>2, <1>3
  <2>4. Slice(q, 3, 4) = Slice(p, 3, 4)
    BY <1>5, <2>1, <2>2, <2>3, KeptSlice
  <2>5. Slice(q, 26, 3) = Slice(p, 26, 3)
    BY <1>5, <2>1, <2>2, <2>3, KeptSlice
  <2> QED BY <2>4, <2>5, AtSlice
<1>8. Behind(q, n, c)
  <2>1. p \in Seq(Byte) /\ q \in Seq(Byte) /\ Len(q) = Len(p) /\ Len(p) = n + CookieLen(c)
    BY <1>2, <1>3
  <2>2. \A i \in T : i \in Nat /\ i <= n - 1
    BY <1>4
  <2>3. Behind(p, n, c)
    BY DEF Framed
  <2> QED BY <1>5, <2>1, <2>2, <2>3, BehindKept
<1>9. Framed(q, n, c)
  <2>1. /\ p[1] = SOH /\ p[2] = MAIN_VER /\ p[Len(p)] = EOT
        /\ At(p, 3, 4) = Len(p)
        /\ At(p, 26, 3) = IF c = <<>> THEN 0 ELSE n - 1
    BY DEF Framed
  <2> QED BY <1>2, <1>3, <1>6, <1>7, <1>8, <2>1 DEF Framed
<1>10. Kept(q, p, n - 1, T)
  <2>1. \A i \in 1 .. n - 1 : i \in 1 .. Len(p)
    BY <1>1, <1>2
  <2> QED BY <1>3, <2>1 DEF Kept
<1>11. n - 1 <= Len(q)
  BY <1>1, <1>2, <1>3
<1> QED BY <1>3, <1>9, <1>10, <1>11 DEF T, FrameHolds

\* The widths of the fields: where cookies are, how long they and packets are.
LEMMA FieldsFit ==
    /\ MaxWord \in Nat /\ MaxWord \in 0 .. Radix ^ 2 - 1
    /\ \A n \in Size : /\ n - 1 \in 0 .. Radix ^ 3 - 1
                       /\ \A l \in 0 .. MaxWord : n + 2 + l \in 0 .. Radix ^ 4 - 1
                       /\ n \in 0 .. Radix ^ 4 - 1
<1> DEFINE a == Radix ^ 2
           b == Radix ^ 3
           d == Radix ^ 4
<1>1. a \in Nat \ {0} /\ b \in Nat \ {0} /\ d \in Nat \ {0} /\ a < b
  <2>1. 2 + 1 = 3 /\ 2 \in 0 .. 7 /\ {2, 3, 4} \subseteq 0 .. 8
    OBVIOUS
  <2>2. Radix ^ 2 < Radix ^ (2 + 1)
    BY <2>1, Powers
  <2> QED BY <2>1, <2>2, Powers
<1>2. d = Radix * b
  <2>1. 3 + 1 = 4 /\ 3 \in 0 .. 7
    OBVIOUS
  <2>2. Radix ^ (3 + 1) = Radix * Radix ^ 3
    BY <2>1, PowerAssumption
  <2> QED BY <2>1, <2>2
<1>3. MaxWord = a - 1
  BY DEF MaxWord
<1>3a. \A n \in Size : n \in Nat /\ n >= 31 /\ n <= b
  BY SizeIs
<1> HIDE DEF a, b, d
<1>4. d >= 8 * b
  BY <1>1, <1>2, RadixAssumption
<1>5. \A n \in Size : \A l \in 0 .. MaxWord : n + 2 + l \in 0 .. d - 1
  BY <1>1, <1>3, <1>3a, <1>4
<1>6. \A n \in Size : n - 1 \in 0 .. b - 1 /\ n \in 0 .. d - 1
  BY <1>1, <1>3a, <1>4
<1> QED BY <1>1, <1>3, <1>5, <1>6 DEF a, b, d

\* What is framed but for its length and the offset of its cookie is, with those, a packet.
LEMMA Stamped ==
    ASSUME NEW n \in Size, NEW c \in OneCookie, NEW q \in Seq(Byte), Len(q) = n + CookieLen(c),
           q[1] = SOH, q[2] = MAIN_VER, q[Len(q)] = EOT, Behind(q, n, c),
           NEW pos, pos = (IF c = <<>> THEN 0 ELSE n - 1), NEW len, len = Len(q),
           NEW r, r = SetPackLen(SetCookiePos(q, pos), len)
    PROVE  Framed(r, n, c) /\ Kept(r, q, n - 1, Extents)
<1> DEFINE s == Net(pos, 3)
           t == Net(len, 4)
           q1 == Put(q, 26, s)
<1>1. n \in Nat /\ n >= 31 /\ CookieLen(c) \in Nat /\ Len(q) \in Nat
  BY SizeIs, CookieIs
<1>2. pos \in 0 .. Radix ^ 3 - 1 /\ len \in 0 .. Radix ^ 4 - 1
  <2>1. c # <<>> => Len(c[1]) \in 0 .. MaxWord /\ CookieLen(c) = 2 + Len(c[1])
    BY CookieIs, FieldsFit
  <2>2. 0 \in 0 .. Radix ^ 3 - 1
    <3>1. n - 1 \in 0 .. Radix ^ 3 - 1
      BY FieldsFit
    <3>2. 3 \in 0 .. 8
      OBVIOUS
    <3>3. Radix ^ 3 \in Nat \ {0}
      BY <3>2, Powers
    <3> QED BY <3>1, <3>3
  <2>3. CASE c = <<>>
    <3>1. len = n
      BY <1>1, <2>3 DEF CookieLen
    <3> QED BY <2>2, <2>3, <3>1, FieldsFit
  <2>4. CASE c # <<>>
    <3> DEFINE l == Len(c[1])
    <3>1. len = n + CookieLen(c) /\ CookieLen(c) = 2 + l /\ l \in Nat /\ l \in 0 .. MaxWord
      BY <2>1, <2>4, CookieIs
    <3> HIDE DEF l
    <3>2. len = n + 2 + l
      BY <1>1, <3>1
    <3>3. n - 1 \in 0 .. Radix ^ 3 - 1 /\ n + 2 + l \in 0 .. Radix ^ 4 - 1
      BY <3>1, FieldsFit
    <3> QED BY <2>4, <3>2, <3>3
  <2> QED BY <2>3, <2>4
<1>3. /\ s \in Seq(Byte) /\ Len(s) = 3 /\ Host(s) = pos
      /\ t \in Seq(Byte) /\ Len(t) = 4 /\ Host(t) = len
  <2>1. pos \in Int /\ len \in Int /\ 3 \in 1 .. 8 /\ 4 \in 1 .. 8
    BY <1>1
  <2> QED BY <1>2, <2>1, NetBytes, HostNet
<1> HIDE DEF s, t
<1>4. /\ q1 \in Seq(Byte) /\ Len(q1) = Len(q)
      /\ Slice(q1, 26, 3) = s
      /\ Kept(q1, q, Len(q), 26 + 1 .. 26 + 3)
  <2>1. PutIn(q1, q, 26, s, 3)
    BY <1>1, <1>3 DEF PutIn
  <2>2. Holds(q1, q, 26, s, 3)
    BY <2>1, PutIs
  <2> QED BY <2>2 DEF Holds
<1>5. r = Put(q1, 3, t)
  BY DEF SetPackLen, SetCookiePos, s, t
<1> HIDE DEF q1
<1>6. /\ r \in Seq(Byte) /\ Len(r) = Len(q)
      /\ Slice(r, 3, 4) = t
      /\ Kept(r, q1, Len(q1), 3 + 1 .. 3 + 4)
  <2>1. PutIn(r, q1, 3, t, 4)
    BY <1>1, <1>3, <1>4, <1>5 DEF PutIn
  <2>2. Holds(r, q1, 3, t, 4)
    BY <2>1, PutIs
  <2> QED BY <1>4, <2>2 DEF Holds
<1>7. \A i \in 1 .. Len(q) : i \notin Extents => r[i] = q[i]
  <2> SUFFICES ASSUME NEW i \in 1 .. Len(q), i \notin Extents PROVE r[i] = q[i]
    OBVIOUS
  <2>1. i \notin 26 + 1 .. 26 + 3 /\ i \notin 3 + 1 .. 3 + 4 /\ i \in 1 .. Len(q1)
    BY <1>4 DEF Extents
  <2> QED BY <1>4, <1>6, <2>1 DEF Kept
<1>8. At(r, 3, 4) = Len(r)
  BY <1>3, <1>6, AtSlice
<1>9. At(r, 26, 3) = pos
  <2>1. Kept(r, q1, Len(q1), 4 .. 7)
    BY <1>6 DEF Kept
  <2>2. Off(4 .. 7, 26, 3) /\ 26 \in Nat /\ 3 \in Nat /\ 26 + 3 <= Len(q1)
    BY <1>1, <1>4 DEF Off
  <2>3. Len(q1) \in Nat /\ Len(q1) <= Len(q1) /\ Len(q1) <= Len(r)
    BY <1>1, <1>4, <1>6
  <2>4. Slice(r, 26, 3) = Slice(q1, 26, 3)
    BY <1>4, <1>6, <2>1, <2>2, <2>3, KeptSlice
  <2> QED BY <1>3, <1>4, <2>4, AtSlice
<1>10. r[1] = SOH /\ r[2] = MAIN_VER /\ r[Len(r)] = EOT
  <2>1. {1, 2, Len(q)} \subseteq 1 .. Len(q) /\ {1, 2, Len(q)} \cap Extents = {}
    BY <1>1 DEF Extents
  <2> QED BY <1>6, <1>7, <2>1
<1>11. Behind(r, n, c)
  <2>1. Kept(r, q, Len(q), Extents)
    BY <1>7 DEF Kept
  <2>2. \A i \in Extents : i \in Nat /\ i <= n - 1
    BY <1>1 DEF Extents
  <2> QED BY <1>6, <2>1, <2>2, BehindKept
<1>12. Framed(r, n, c)
  BY <1>6, <1>8, <1>9, <1>10, <1>11 DEF Framed
<1>13. Kept(r, q, n - 1, Extents)
  <2>1. \A i \in 1 .. n - 1 : i \in 1 .. Len(q)
    BY <1>1
  <2> QED BY <1>7, <2>1 DEF Kept
<1> QED BY <1>12, <1>13

\* q is the bytes t behind the bytes s.
Joint(q, s, t) == s \in Seq(Byte) /\ t \in Seq(Byte) /\ q = s \o t

\* q begins with s, and goes on with t.
Both(q, s, t) ==
    /\ q \in Seq(Byte) /\ Len(q) = Len(s) + Len(t)
    /\ Kept(q, s, Len(s), {})
    /\ Slice(q, Len(s), Len(t)) = t
    /\ \A i \in 1 .. Len(t) : q[Len(s) + i] = t[i]

\* What bytes joined are.
LEMMA BothJoined ==
    ASSUME NEW q, NEW s, NEW t, Joint(q, s, t)
    PROVE  Both(q, s, t)
<1> SUFFICES ASSUME s \in Seq(Byte), t \in Seq(Byte), q = s \o t
             PROVE  Both(q, s, t)
  BY DEF Joint
<1>1. /\ q \in Seq(Byte) /\ Len(q) = Len(s) + Len(t)
      /\ \A i \in 1 .. Len(s) : q[i] = s[i]
      /\ \A i \in 1 .. Len(t) : q[Len(s) + i] = t[i]
  BY JoinIs
<1>2. Len(s) \in Nat /\ Len(t) \in Nat /\ Len(s) + Len(t) <= Len(q)
  BY <1>1
<1>3. Slice(q, Len(s), Len(t)) = t
  BY <1>1, <1>2, WholeSlice
<1> QED BY <1>1, <1>3 DEF Both, Kept

\* A body with the end mark behind it.
LEMMA MarkBehind ==
    ASSUME NEW n \in Size, NEW b \in Seq(Byte), Len(b) = n - 1, NEW q, q = b \o <<EOT>>
    PROVE  q \in Seq(Byte) /\ Len(q) = n /\ q[Len(q)] = EOT /\ Kept(q, b, n - 1, {})
<1> DEFINE e == <<EOT>>
<1>1. e \in Seq(Byte) /\ Len(e) = 1 /\ e[1] = EOT /\ n \in Nat
  BY RadixAssumption, SizeIs DEF Byte, EOT
<1>2. Joint(q, b, e)
  BY <1>1 DEF Joint
<1> HIDE DEF e
<1>3. /\ q \in Seq(Byte) /\ Len(q) = Len(b) + Len(e)
      /\ Kept(q, b, Len(b), {})
      /\ \A i \in 1 .. Len(e) : q[Len(b) + i] = e[i]
  <2>1. Both(q, b, e)
    BY <1>2, BothJoined
  <2> QED BY <2>1 DEF Both
<1>4. Len(q) = n /\ q[n] = EOT
  <2>1. (n - 1) + 1 = n /\ 1 \in 1 .. Len(e)
    BY <1>1
  <2>2. q[Len(b) + 1] = e[1]
    BY <1>3, <2>1
  <2> QED BY <1>1, <1>3, <2>1, <2>2
<1> QED BY <1>3, <1>4

\* q is b with the cookie x and the end mark behind it.
WithCookie(q, b, x) == q = b \o Net(Len(x), 2) \o x \o <<EOT>>

\* A body with a cookie and the end mark behind it.
LEMMA CookieBehind ==
    ASSUME NEW n \in Size, NEW b \in Seq(Byte), Len(b) = n - 1,
           NEW x \in Seq(Byte), Len(x) <= MaxWord,
           NEW q, WithCookie(q, b, x)
    PROVE  /\ <<x>> \in OneCookie
           /\ q \in Seq(Byte) /\ Len(q) = n + CookieLen(<<x>>) /\ q[Len(q)] = EOT
           /\ Behind(q, n, <<x>>) /\ Kept(q, b, n - 1, {})
<1> DEFINE e == <<EOT>>
           l == Len(x)
           s == Net(l, 2)
           b1 == b \o s
           b2 == b1 \o x
<1>1. e \in Seq(Byte) /\ Len(e) = 1 /\ e[1] = EOT /\ n \in Nat /\ n >= 31
  BY RadixAssumption, SizeIs DEF Byte, EOT
<1>2. l \in Nat /\ s \in Seq(Byte) /\ Len(s) = 2 /\ Host(s) = l
  <2>1. l \in 0 .. Radix ^ 2 - 1 /\ l \in Int /\ 2 \in 1 .. 8
    <3>1. l \in Nat /\ l <= MaxWord /\ 2 \in 1 .. 8
      OBVIOUS
    <3> HIDE DEF l
    <3>2. MaxWord \in 0 .. Radix ^ 2 - 1 /\ Radix ^ 2 \in Int
      <4>1. 2 \in 0 .. 8
        OBVIOUS
      <4> QED BY <4>1, FieldsFit, Powers
    <3> QED BY <3>1, <3>2
  <2> HIDE DEF l
  <2> QED BY <2>1, NetBytes, HostNet
<1>3. q = b2 \o e
  BY DEF WithCookie
<1>4. <<x>> \in OneCookie /\ CookieLen(<<x>>) = 2 + l /\ (<<x>>)[1] = x
  BY DEF OneCookie, CookieLen
<1> HIDE DEF e, s
<1>5. Both(b1, b, s)
  <2>1. Joint(b1, b, s)
    BY <1>2 DEF Joint
  <2> HIDE DEF b1
  <2> QED BY <2>1, BothJoined
<1> HIDE DEF b1
<1>6. Both(b2, b1, x)
  <2>1. Joint(b2, b1, x)
    BY <1>5 DEF Joint, Both
  <2> HIDE DEF b2
  <2> QED BY <2>1, BothJoined
<1> HIDE DEF b2
<1>7. Both(q, b2, e)
  <2>1. Joint(q, b2, e)
    BY <1>1, <1>3, <1>6 DEF Joint, Both
  <2> QED BY <2>1, BothJoined
<1> HIDE DEF l
<1>8. /\ b1 \in Seq(Byte) /\ Len(b1) = n + 1
      /\ b2 \in Seq(Byte) /\ Len(b2) = (n + 1) + l
      /\ q \in Seq(Byte) /\ Len(q) = n + (2 + l)
  <2>1. /\ b1 \in Seq(Byte) /\ Len(b1) = (n - 1) + 2
        /\ b2 \in Seq(Byte) /\ Len(b2) = Len(b1) + l
        /\ q \in Seq(Byte) /\ Len(q) = Len(b2) + 1
    BY <1>1, <1>2, <1>5, <1>6, <1>7 DEF Both, l
  <2> QED BY <1>1, <1>2, <2>1
<1>9. q[Len(q)] = EOT
  <2>1. 1 \in 1 .. Len(e) /\ Len(b2) + 1 = Len(q)
    BY <1>1, <1>2, <1>8
  <2>2. q[Len(b2) + 1] = e[1]
    BY <1>7, <2>1 DEF Both
  <2> QED BY <1>1, <2>1, <2>2
<1>9a. /\ \A i \in 1 .. n + 1 : i \in 1 .. Len(b2) /\ q[i] = b1[i]
       /\ \A i \in 1 .. (n + 1) + l : q[i] = b2[i]
  <2>1. /\ \A i \in 1 .. n + 1 : b2[i] = b1[i]
        /\ \A i \in 1 .. (n + 1) + l : q[i] = b2[i]
    BY <1>6, <1>7, <1>8 DEF Both, Kept
  <2>2. \A i \in 1 .. n + 1 : i \in 1 .. (n + 1) + l
    BY <1>1, <1>2
  <2> QED BY <1>8, <2>1, <2>2
<1>10. Kept(q, b, n - 1, {})
  <2> SUFFICES ASSUME NEW i \in 1 .. n - 1 PROVE q[i] = b[i]
    BY DEF Kept
  <2>1. i \in 1 .. n + 1
    BY <1>1
  <2>2. b1[i] = b[i]
    BY <1>5 DEF Both, Kept
  <2> QED BY <1>9a, <2>1, <2>2
<1>11. Slice(q, n - 1, Len(s)) = s
  <2>1. ASSUME NEW i \in 1 .. Len(s) PROVE q[(n - 1) + i] = s[i]
    <3>1. (n - 1) + i \in 1 .. n + 1
      BY <1>1, <1>2
    <3>2. b1[(n - 1) + i] = s[i]
      BY <1>5 DEF Both
    <3> QED BY <1>9a, <3>1, <3>2
  <2>2. n - 1 \in Nat /\ (n - 1) + Len(s) <= Len(q)
    BY <1>1, <1>2, <1>8
  <2>3. q \in Seq(Byte) /\ s \in Seq(Byte)
    BY <1>2, <1>8
  <2> QED BY <2>1, <2>2, <2>3, WholeSlice
<1>12. Slice(q, n + 1, Len(x)) = x
  <2>1. ASSUME NEW i \in 1 .. Len(x) PROVE q[(n + 1) + i] = x[i]
    <3>1. i \in 1 .. l
      BY DEF l
    <3>2. (n + 1) + i \in 1 .. (n + 1) + l
      BY <1>1, <1>2, <3>1
    <3>3. b2[(n + 1) + i] = x[i]
      BY <1>6, <1>8 DEF Both
    <3> QED BY <1>9a, <3>2, <3>3
  <2>2. n + 1 \in Nat /\ (n + 1) + Len(x) <= Len(q)
    BY <1>1, <1>2, <1>8 DEF l
  <2>3. q \in Seq(Byte)
    BY <1>8
  <2> QED BY <2>1, <2>2, <2>3, WholeSlice
<1>13. Behind(q, n, <<x>>)
  <2>1. At(q, n - 1, 2) = l
    BY <1>2, <1>11, AtSlice
  <2> QED BY <1>4, <1>12, <2>1 DEF Behind, l
<1> QED BY <1>4, <1>8, <1>9, <1>10, <1>13

\* What a packet says of its cookie and its length.
LEMMA FrameSays ==
    ASSUME NEW n \in Size, NEW c \in OneCookie, NEW p, Framed(p, n, c)
    PROVE  /\ GetPackLen(p) = n + CookieLen(c)
           /\ GetCookiePos(p) = IF c = <<>> THEN 0 ELSE n - 1
           /\ c # <<>> => At(p, n - 1, 2) = Len(c[1]) /\ CookieLen(c) = 2 + Len(c[1])
           /\ n \in Nat /\ n >= 31 /\ CookieLen(c) \in Nat
           /\ Slice(p, 0, n - 1) \in Seq(Byte) /\ Len(Slice(p, 0, n - 1)) = n - 1
           /\ Kept(Slice(p, 0, n - 1), p, n - 1, {})
<1>1. n \in Nat /\ n >= 31 /\ CookieLen(c) \in Nat
  BY CookieIs, SizeIs
<1>2. GetPackLen(p) = n + CookieLen(c) /\ GetCookiePos(p) = IF c = <<>> THEN 0 ELSE n - 1
  BY DEF Framed, GetPackLen, GetCookiePos
<1>3. c # <<>> => At(p, n - 1, 2) = Len(c[1]) /\ CookieLen(c) = 2 + Len(c[1])
  BY CookieIs DEF Framed, Behind
<1>4. p \in Seq(Byte) /\ 0 + (n - 1) <= Len(p) /\ n - 1 \in Nat /\ 0 \in Nat
  <2>1. p \in Seq(Byte) /\ Len(p) = n + CookieLen(c)
    BY DEF Framed
  <2> QED BY <1>1, <2>1
<1>5. /\ Slice(p, 0, n - 1) \in Seq(Byte) /\ Len(Slice(p, 0, n - 1)) = n - 1
      /\ \A i \in 1 .. n - 1 : Slice(p, 0, n - 1)[i] = p[0 + i]
  BY <1>4, SliceIs
<1>6. \A i \in 1 .. n - 1 : 0 + i = i
  BY <1>1
<1> QED BY <1>1, <1>2, <1>3, <1>5, <1>6 DEF Kept

\* Elements kept twice are kept.
LEMMA KeptTwice ==
    ASSUME NEW p, NEW q, NEW r, NEW m, NEW T, NEW U, Kept(q, p, m, T), Kept(r, q, m, U)
    PROVE  Kept(r, p, m, T \cup U)
BY DEF Kept

\* A packet with another end behind its body, and the offset and the length that go with it.
LEMMA NewEnd ==
    ASSUME NEW n \in Size, NEW c \in OneCookie, NEW p, Framed(p, n, c), NEW d \in OneCookie,
           NEW q \in Seq(Byte), Len(q) = n + CookieLen(d), q[Len(q)] = EOT, Behind(q, n, d),
           Kept(q, Slice(p, 0, n - 1), n - 1, {}),
           NEW pos, pos = (IF d = <<>> THEN 0 ELSE n - 1), NEW len, len = Len(q),
           NEW r, r = SetPackLen(SetCookiePos(q, pos), len)
    PROVE  Framed(r, n, d) /\ Kept(r, p, n - 1, Extents)
<1>1. Kept(q, p, n - 1, {})
  <2>1. Kept(Slice(p, 0, n - 1), p, n - 1, {})
    BY FrameSays
  <2> QED BY <2>1 DEF Kept
<1>2. q[1] = SOH /\ q[2] = MAIN_VER
  <2>1. {1, 2} \subseteq 1 .. n - 1
    BY SizeIs
  <2>2. p[1] = SOH /\ p[2] = MAIN_VER
    BY DEF Framed
  <2> QED BY <1>1, <2>1, <2>2 DEF Kept
<1>3. Framed(r, n, d) /\ Kept(r, q, n - 1, Extents)
  BY <1>2, Stamped
<1> QED BY <1>1, <1>3 DEF Kept

\* SetCookie puts the cookie on the packet, in place of one that is there, or does nothing.
LEMMA SetCookieIs ==
    ASSUME NEW n \in Size, NEW c \in OneCookie, NEW p, Framed(p, n, c),
           NEW x \in Seq(Byte), Len(x) <= MaxWord, NEW room \in Nat,
           NEW s, s = SetCookie(p, room, x)
    PROVE  \/ ~(s.ret > 0) /\ s.p = p
           \/ /\ s.ret > 0 /\ <<x>> \in OneCookie
              /\ Framed(s.p, n, <<x>>) /\ Kept(s.p, p, n - 1, Extents)
<1> DEFINE b == Slice(p, 0, n - 1)
           q == b \o Net(Len(x), 2) \o x \o <<EOT>>
           total == n + 2 + Len(x)
<1>1. /\ GetPackLen(p) = n + CookieLen(c)
      /\ GetCookiePos(p) = IF c = <<>> THEN 0 ELSE n - 1
      /\ c # <<>> => At(p, n - 1, 2) = Len(c[1]) /\ CookieLen(c) = 2 + Len(c[1])
      /\ n \in Nat /\ n >= 31 /\ CookieLen(c) \in Nat
      /\ b \in Seq(Byte) /\ Len(b) = n - 1
  BY FrameSays
<1>2. b = SubSeq(p, 1, n - 1)
  <2>1. 0 + 1 = 1 /\ 0 + (n - 1) = n - 1
    BY <1>1
  <2> QED BY <2>1 DEF Slice
<1>3. GetPackLen(p) - (IF GetCookiePos(p) = 0 THEN 0 ELSE 2 + At(p, GetCookiePos(p), 2)) = n
  <2>1. CASE c = <<>>
    BY <1>1, <2>1 DEF CookieLen
  <2>2. CASE c # <<>>
    <3> DEFINE l == Len(c[1])
    <3>1. l \in Nat /\ CookieLen(c) = 2 + l
      BY <2>2, CookieIs
    <3>2. GetCookiePos(p) = n - 1 /\ n - 1 # 0 /\ At(p, n - 1, 2) = l
      BY <1>1, <2>2
    <3> HIDE DEF l
    <3>3. GetPackLen(p) = n + (2 + l)
      BY <1>1, <3>1
    <3> QED BY <1>1, <3>1, <3>2, <3>3
  <2> QED BY <2>1, <2>2
<1>4. (IF GetCookiePos(p) = 0 THEN n - 1 ELSE GetCookiePos(p)) = n - 1
  BY <1>1
<1>5. s = IF Len(x) > MaxWord THEN [ret |-> -2, p |-> p]
          ELSE IF room < total THEN [ret |-> -1, p |-> p]
          ELSE [ret |-> total, p |-> SetPackLen(SetCookiePos(q, n - 1), total)]
  <2> DEFINE pl == GetPackLen(p) - (IF GetCookiePos(p) = 0 THEN 0 ELSE 2 + At(p, GetCookiePos(p), 2))
             at == IF GetCookiePos(p) = 0 THEN pl - 1 ELSE GetCookiePos(p)
             tot == pl + 2 + Len(x)
             u == SubSeq(p, 1, at) \o Net(Len(x), 2) \o x \o <<EOT>>
  <2>1. s = IF Len(x) > MaxWord THEN [ret |-> -2, p |-> p]
            ELSE IF room < tot THEN [ret |-> -1, p |-> p]
            ELSE [ret |-> tot, p |-> SetPackLen(SetCookiePos(u, pl - 1), tot)]
    BY DEF SetCookie
  <2>2. pl = n
    BY <1>3
  <2> HIDE DEF pl
  <2>3. at = n - 1
    BY <1>4, <2>2
  <2> HIDE DEF at
  <2>4. u = q
    BY <1>2, <2>3
  <2> HIDE DEF u, q
  <2> QED BY <2>1, <2>2, <2>4
<1>5a. Len(x) \in Nat /\ MaxWord \in Nat
  BY FieldsFit
<1> HIDE DEF q, b
<1>6. /\ <<x>> \in OneCookie
      /\ q \in Seq(Byte) /\ Len(q) = n + CookieLen(<<x>>) /\ q[Len(q)] = EOT
      /\ Behind(q, n, <<x>>) /\ Kept(q, b, n - 1, {})
  <2>1. WithCookie(q, b, x) /\ b \in Seq(Byte) /\ Len(b) = n - 1
    BY <1>1 DEF q, WithCookie
  <2> QED BY <2>1, CookieBehind
<1>7. Len(q) = total /\ <<x>> # <<>>
  <2>1. CookieLen(<<x>>) = 2 + Len(x)
    BY DEF CookieLen
  <2>2. Len(x) \in Nat
    OBVIOUS
  <2> QED BY <1>1, <1>6, <2>1, <2>2
<1>8. CASE room < total
  <2>1. s = [ret |-> -1, p |-> p]
    BY <1>5, <1>5a, <1>8
  <2> QED BY <2>1
<1>9. CASE ~(room < total)
  <2> DEFINE r == SetPackLen(SetCookiePos(q, n - 1), total)
  <2>1. s = [ret |-> total, p |-> r]
    BY <1>5, <1>5a, <1>9
  <2> HIDE DEF r, total
  <2>2. r = SetPackLen(SetCookiePos(q, n - 1), total)
    BY DEF r
  <2>3. n - 1 = (IF <<x>> = <<>> THEN 0 ELSE n - 1)
    BY <1>7
  <2>4. Kept(q, Slice(p, 0, n - 1), n - 1, {})
    BY <1>6 DEF b
  <2>5. Framed(r, n, <<x>>) /\ Kept(r, p, n - 1, Extents)
    BY <1>6, <1>7, <2>2, <2>3, <2>4, NewEnd
  <2>6. total > 0
    BY <1>1, <1>5a DEF total
  <2> QED BY <1>6, <2>1, <2>5, <2>6
<1> QED BY <1>8, <1>9

\* DelCookie takes the cookie off, if there is one.
LEMMA DelCookieIs ==
    ASSUME NEW n \in Size, NEW c \in OneCookie, NEW p, Framed(p, n, c), NEW r, r = DelCookie(p)
    PROVE  Framed(r, n, <<>>) /\ Kept(r, p, n - 1, Extents)
<1> DEFINE b == Slice(p, 0, n - 1)
           q == b \o <<EOT>>
<1>1. /\ GetPackLen(p) = n + CookieLen(c)
      /\ GetCookiePos(p) = IF c = <<>> THEN 0 ELSE n - 1
      /\ c # <<>> => At(p, n - 1, 2) = Len(c[1]) /\ CookieLen(c) = 2 + Len(c[1])
      /\ n \in Nat /\ n >= 31 /\ CookieLen(c) \in Nat
      /\ b \in Seq(Byte) /\ Len(b) = n - 1
  BY FrameSays
<1>2. CASE c = <<>>
  <2>1. GetCookiePos(p) = 0 /\ 0 <= MSG_HEADER_LEN
    BY <1>1, <1>2 DEF MSG_HEADER_LEN
  <2>2. r = p
    BY <2>1 DEF DelCookie
  <2> QED BY <1>2, <2>2 DEF Kept
<1>3. CASE c # <<>>
  <2> DEFINE l == Len(c[1])
  <2>1. l \in Nat /\ CookieLen(c) = 2 + l
    BY <1>3, CookieIs
  <2>2. GetCookiePos(p) = n - 1 /\ At(p, n - 1, 2) = l /\ GetPackLen(p) = n + (2 + l)
    BY <1>1, <1>3, <2>1
  <2> HIDE DEF l
  <2>3. /\ ~(n - 1 <= MSG_HEADER_LEN \/ n - 1 >= n + (2 + l))
        /\ (n + (2 + l)) - (2 + l) = n
    BY <1>1, <2>1 DEF MSG_HEADER_LEN
  <2>4. b = SubSeq(p, 1, n - 1)
    <3>1. 0 + 1 = 1 /\ 0 + (n - 1) = n - 1
      BY <1>1
    <3> QED BY <3>1 DEF Slice
  <2>5. r = SetPackLen(SetCookiePos(q, 0), n)
    <3> HIDE DEF b
    <3>1. r = IF n - 1 <= MSG_HEADER_LEN \/ n - 1 >= n + (2 + l) THEN p
              ELSE SetPackLen(SetCookiePos(SubSeq(p, 1, n - 1) \o <<EOT>>, 0), (n + (2 + l)) - (2 + l))
      BY <2>2 DEF DelCookie
    <3> QED BY <2>3, <2>4, <3>1
  <2>6. q \in Seq(Byte) /\ Len(q) = n /\ q[Len(q)] = EOT /\ Kept(q, b, n - 1, {})
    <3>1. q = b \o <<EOT>>
      OBVIOUS
    <3> HIDE DEF q, b
    <3> QED BY <1>1, <3>1, MarkBehind
  <2>7. <<>> \in OneCookie /\ CookieLen(<<>>) = 0 /\ n + 0 = n
    BY <1>1 DEF OneCookie, CookieLen
  <2>8. Behind(q, n, <<>>)
    BY DEF Behind
  <2> HIDE DEF q
  <2>9. /\ q \in Seq(Byte) /\ Len(q) = n + CookieLen(<<>>) /\ q[Len(q)] = EOT
        /\ Kept(q, Slice(p, 0, n - 1), n - 1, {})
    BY <2>6, <2>7
  <2>10. 0 = (IF <<>> = <<>> THEN 0 ELSE n - 1) /\ n = Len(q)
    BY <2>6
  <2> HIDE DEF b
  <2> QED BY <2>5, <2>7, <2>8, <2>9, <2>10, NewEnd
<1> QED BY <1>2, <1>3

\* The cipher keeps the length, and its inverse takes it back.
LEMMA XxteaIs ==
    ASSUME NEW s \in Seq(Byte), NEW secret \in Nat, NEW sign \in {1, -1}
    PROVE  /\ Xxtea(s, secret, sign) \in Seq(Byte) /\ Len(Xxtea(s, secret, sign)) = Len(s)
           /\ Xxtea(Xxtea(s, secret, sign), secret, -sign) = s
<1> DEFINE n == Len(s) \div 4
           c == sign * (secret + n)
           Worked(i) == n > 1 /\ i <= 4 * n
           t == [i \in 1 .. Len(s) |-> IF Worked(i) THEN (s[i] + c) % Radix ELSE s[i]]
           u == [i \in 1 .. Len(s) |-> IF Worked(i) THEN (t[i] + -c) % Radix ELSE t[i]]
<1>1. Len(s) \in Nat /\ n \in Int
  OBVIOUS
<1>2. t = Xxtea(s, secret, sign)
  BY DEF Xxtea
<1>3. c \in Int /\ (-sign) * (secret + n) = -c
  BY <1>1
<1> HIDE DEF c
<1>4. ASSUME NEW i \in 1 .. Len(s)
      PROVE  /\ (s[i] + c) % Radix \in Byte
             /\ (((s[i] + c) % Radix) + -c) % Radix = s[i]
  <2> DEFINE x == s[i]
  <2>0. x \in Byte
    OBVIOUS
  <2> HIDE DEF x
  <2>1. x \in Byte /\ x \in Int
    BY <2>0, RadixAssumption DEF Byte
  <2>2. (x + c) % Radix \in Byte /\ (((x + c) % Radix) - c) % Radix = x
    BY <1>3, <2>1, ShiftBack
  <2>3. ((x + c) % Radix) + -c = ((x + c) % Radix) - c
    BY <1>3, <2>2 DEF Byte
  <2> QED BY <2>2, <2>3 DEF x
<1>5. t \in [1 .. Len(s) -> Byte]
  <2>1. \A i \in 1 .. Len(s) : s[i] \in Byte
    OBVIOUS
  <2> HIDE DEF Worked
  <2> QED BY <1>4, <2>1
<1>6. t \in Seq(Byte) /\ Len(t) = Len(s) /\ DOMAIN t = 1 .. Len(s)
  <2> HIDE DEF t
  <2> QED BY <1>1, <1>5
<1>7. u = Xxtea(t, secret, -sign)
  <2> HIDE DEF t
  <2> QED BY <1>3, <1>6 DEF Xxtea
<1>8. u = s
  <2> HIDE DEF n
  <2>1. ASSUME NEW i \in 1 .. Len(s) PROVE u[i] = s[i]
    <3>1. CASE Worked(i)
      <4>1. t[i] = (s[i] + c) % Radix
        BY <3>1
      <4>2. u[i] = (t[i] + -c) % Radix
        BY <3>1
      <4> HIDE DEF t, u
      <4> QED BY <1>4, <4>1, <4>2
    <3>2. CASE ~Worked(i)
      BY <3>2
    <3> QED BY <3>1, <3>2
  <2>2. u = [i \in 1 .. Len(s) |-> u[i]]
    OBVIOUS
  <2>3. s = [i \in 1 .. Len(s) |-> s[i]]
    OBVIOUS
  <2> HIDE DEF u
  <2> QED BY <2>1, <2>2, <2>3
<1> QED BY <1>2, <1>6, <1>7, <1>8

\* To encrypt or decrypt a packet without a cookie works on its body.
LEMMA CryptIs ==
    ASSUME NEW n \in Size, NEW p, Framed(p, n, <<>>), p[24] = ENC_TYPE_TEA,
           NEW secret \in Nat, NEW sign \in {1, -1},
           NEW q, q = (IF sign = 1 THEN EncryptPack(p, secret) ELSE DecryptPack(p, secret))
    PROVE  /\ Framed(q, n, <<>>)
           /\ Slice(q, 29, n - 30) = Xxtea(Slice(p, 29, n - 30), secret, sign)
           /\ Kept(q, p, n - 1, 30 .. n - 1)
<1> DEFINE b == Slice(p, 29, n - 30)
           s == Xxtea(b, secret, sign)
<1>1. n \in Nat /\ n >= 31 /\ n - 30 \in Nat /\ <<>> \in OneCookie
  BY SizeIs DEF OneCookie
<1>2. p \in Seq(Byte) /\ Len(p) = n
  BY <1>1 DEF Framed, CookieLen
<1>3. b \in Seq(Byte) /\ Len(b) = n - 30
  <2>1. 29 + (n - 30) <= Len(p) /\ 29 \in Nat
    BY <1>1, <1>2
  <2> QED BY <1>1, <1>2, <2>1, SliceIs
<1>4. b = SubSeq(p, MSG_HEADER_LEN + 1, Len(p) - 1)
  <2>1. MSG_HEADER_LEN + 1 = 29 + 1 /\ Len(p) - 1 = 29 + (n - 30)
    BY <1>1, <1>2 DEF MSG_HEADER_LEN
  <2> QED BY <2>1 DEF Slice
<1> HIDE DEF b
<1>5. s \in Seq(Byte) /\ Len(s) = n - 30
  BY <1>3, XxteaIs
<1>6. q = Put(p, 29, s)
  <2>1. ~(Len(p) <= MSG_HEADER_LEN + 1 \/ GetEncType(p) # ENC_TYPE_TEA) /\ MSG_HEADER_LEN = 29
    BY <1>1, <1>2 DEF MSG_HEADER_LEN, GetEncType
  <2>2. CASE sign = 1
    BY <1>4, <2>1, <2>2 DEF EncryptPack
  <2>3. CASE sign = -1
    BY <1>4, <2>1, <2>3 DEF DecryptPack
  <2> QED BY <2>2, <2>3
<1> HIDE DEF s
<1>7. Off({1, 2} \cup Extents, 29, n - 30)
  BY <1>1 DEF Off, Extents
<1>8. 29 \in Nat /\ 29 + (n - 30) <= n - 1 /\ n - 30 = Len(s)
  BY <1>1, <1>5
<1>9. /\ Framed(q, n, <<>>)
      /\ Slice(q, 29, n - 30) = s
      /\ Kept(q, p, n - 1, 29 + 1 .. 29 + (n - 30))
  <2>1. FramePut(q, p, n, <<>>, 29, s, n - 30)
    BY <1>1, <1>5, <1>6, <1>7, <1>8 DEF FramePut
  <2>2. FrameHolds(q, p, n, <<>>, 29, s, n - 30)
    BY <1>1, <2>1, PutFrame
  <2> QED BY <2>2 DEF FrameHolds
<1>10. 29 + 1 = 30 /\ 29 + (n - 30) = n - 1
  BY <1>1
<1> QED BY <1>9, <1>10 DEF s, b

\* SetEncType sets the byte, and nothing else.
LEMMA SetEncTypeIs ==
    ASSUME NEW n \in Size, NEW c \in OneCookie, NEW p, Framed(p, n, c), NEW type \in Byte,
           NEW q, q = SetEncType(p, type)
    PROVE  Framed(q, n, c) /\ q[24] = type /\ Kept(q, p, n - 1, {24})
<1> DEFINE s == <<type>>
<1>1. s \in Seq(Byte) /\ Len(s) = 1 /\ s[1] = type /\ n \in Nat /\ n >= 31
  BY SizeIs
<1>2. q = Put(p, 23, s)
  BY DEF SetEncType
<1> HIDE DEF s
<1>3. Off({1, 2} \cup Extents, 23, 1)
  BY DEF Off, Extents
<1>4. 23 \in Nat /\ 1 \in Nat /\ 1 = Len(s) /\ 23 + 1 <= n - 1
  BY <1>1
<1>5. /\ Framed(q, n, c)
      /\ Kept(q, p, n - 1, 23 + 1 .. 23 + 1)
      /\ \A i \in 1 .. 1 : q[23 + i] = s[i]
  <2>1. FramePut(q, p, n, c, 23, s, 1)
    BY <1>1, <1>2, <1>3, <1>4 DEF FramePut
  <2>2. FrameHolds(q, p, n, c, 23, s, 1)
    BY <2>1, PutFrame
  <2> QED BY <2>2 DEF FrameHolds
<1>6. q[24] = type
  <2>1. 1 \in 1 .. 1 /\ 23 + 1 = 24
    OBVIOUS
  <2> QED BY <1>1, <1>5, <2>1
<1>7. 23 + 1 .. 23 + 1 = {24}
  OBVIOUS
<1> QED BY <1>5, <1>6, <1>7

-----------------------------------------------------------------------------
(* Packets on their way                                                    *)

\* What the last relay wrote: the reserve byte and the first uin.
Written(p, v) == p[26] = v /\ At(p, 15, 4) = v

\* The two have the same command and the same sequence number.
SameCall(p, o) == /\ Slice(p, 7, 2) = Slice(o, 7, 2) /\ Slice(p, 9, 2) = Slice(o, 9, 2)
                  /\ Slice(p, 11, 4) = Slice(o, 11, 4)

\* p has the body of o, n bytes long, or what the key k makes of it.
Carries(p, o, n, k) ==
    IF k = <<>> THEN Slice(p, 29, n - 30) = Slice(o, 29, n - 30)
    ELSE p[24] = ENC_TYPE_TEA /\ Slice(p, 29, n - 30) = Xxtea(Slice(o, 29, n - 30), k[1], 1)

\* none, or a key
OneKey == {<<>>} \cup {<<x>> : x \in Nat}

\* The packet p is the packet o of n bytes, with the cookie c, under the key k, with v written on it.
Travels(p, o, n, c, k, v) ==
    /\ n \in Size /\ c \in OneCookie /\ k \in OneKey /\ v \in Byte
    /\ o \in Seq(Byte) /\ Len(o) = n
    /\ Framed(p, n, c)
    /\ Written(p, v) /\ SameCall(p, o) /\ Carries(p, o, n, k)

\* A slice of a packet is kept when none of it is put anew.
LEMMA FrameSlice ==
    ASSUME NEW n \in Size, NEW c \in OneCookie, NEW d \in OneCookie, NEW p, NEW q, NEW T,
           Framed(p, n, c), Framed(q, n, d), Kept(q, p, n - 1, T),
           NEW a \in Nat, NEW w \in Nat, a + w <= n - 1, Off(T, a, w)
    PROVE  Slice(q, a, w) = Slice(p, a, w)
<1>1. n - 1 \in Nat /\ CookieLen(c) \in Nat /\ CookieLen(d) \in Nat
  BY SizeIs, CookieIs
<1>2. /\ p \in Seq(Byte) /\ Len(p) = n + CookieLen(c)
      /\ q \in Seq(Byte) /\ Len(q) = n + CookieLen(d) /\ n \in Nat
  BY SizeIs DEF Framed
<1>3. n - 1 <= Len(p) /\ n - 1 <= Len(q)
  BY <1>1, <1>2
<1> QED BY <1>1, <1>2, <1>3, KeptSlice

\* What relays wrote is kept when nothing of it is put anew.
LEMMA WrittenKept ==
    ASSUME NEW n \in Size, NEW c \in OneCookie, NEW d \in OneCookie, NEW p, NEW q, NEW T, NEW v,
           Framed(p, n, c), Framed(q, n, d), Kept(q, p, n - 1, T), Off(T, 15, 4), Off(T, 25, 1),
           Written(p, v)
    PROVE  Written(q, v)
<1>1. n \in Nat /\ n >= 31
  BY SizeIs
<1>2. Slice(q, 15, 4) = Slice(p, 15, 4)
  <2>1. 15 \in Nat /\ 4 \in Nat /\ 15 + 4 <= n - 1
    BY <1>1
  <2> QED BY <2>1, FrameSlice
<1>3. q[26] = p[26]
  <2>1. 26 \in 1 .. n - 1 /\ 26 \in 25 + 1 .. 25 + 1
    BY <1>1
  <2> QED BY <2>1 DEF Kept, Off
<1> QED BY <1>2, <1>3, AtSlice DEF Written

\* So are the command and the sequence number ...
LEMMA SameCallKept ==
    ASSUME NEW n \in Size, NEW c \in OneCookie, NEW d \in OneCookie, NEW p, NEW q, NEW T, NEW o,
           Framed(p, n, c), Framed(q, n, d), Kept(q, p, n - 1, T),
           Off(T, 7, 2), Off(T, 9, 2), Off(T, 11, 4), SameCall(p, o)
    PROVE  SameCall(q, o)
<1>1. n \in Nat /\ n >= 31
  BY SizeIs
<1>2. Slice(q, 7, 2) = Slice(p, 7, 2)
  <2>1. 7 \in Nat /\ 2 \in Nat /\ 7 + 2 <= n - 1
    BY <1>1
  <2> QED BY <2>1, FrameSlice
<1>3. Slice(q, 9, 2) = Slice(p, 9, 2)
  <2>1. 9 \in Nat /\ 2 \in Nat /\ 9 + 2 <= n - 1
    BY <1>1
  <2> QED BY <2>1, FrameSlice
<1>4. Slice(q, 11, 4) = Slice(p, 11, 4)
  <2>1. 11 \in Nat /\ 4 \in Nat /\ 11 + 4 <= n - 1
    BY <1>1
  <2> QED BY <2>1, FrameSlice
<1> QED BY <1>2, <1>3, <1>4 DEF SameCall

\* ... and the body, with the mark that it is encrypted.
LEMMA CarriesKept ==
    ASSUME NEW n \in Size, NEW c \in OneCookie, NEW d \in OneCookie, NEW p, NEW q, NEW T, NEW o, NEW k,
           Framed(p, n, c), Framed(q, n, d), Kept(q, p, n - 1, T), Off(T, 23, 1), Off(T, 29, n - 30),
           Carries(p, o, n, k)
    PROVE  Carries(q, o, n, k)
<1>1. n \in Nat /\ n >= 31
  BY SizeIs
<1>2. Slice(q, 29, n - 30) = Slice(p, 29, n - 30)
  <2>1. 29 \in Nat /\ n - 30 \in Nat /\ 29 + (n - 30) <= n - 1
    BY <1>1
  <2> QED BY <2>1, FrameSlice
<1>3. q[24] = p[24]
  <2>1. 24 \in 1 .. n - 1 /\ 24 \in 23 + 1 .. 23 + 1
    BY <1>1
  <2> QED BY <2>1 DEF Kept, Off
<1> QED BY <1>2, <1>3 DEF Carries

\* A relay that puts another cookie on, or takes it off.
LEMMA CookieTravels ==
    ASSUME NEW p, NEW o, NEW n, NEW c, NEW k, NEW v, Travels(p, o, n, c, k, v),
           NEW q, NEW d \in OneCookie, Framed(q, n, d), Kept(q, p, n - 1, Extents)
    PROVE  Travels(q, o, n, d, k, v)
<1>1. /\ n \in Size /\ c \in OneCookie /\ k \in OneKey /\ v \in Byte
      /\ o \in Seq(Byte) /\ Len(o) = n
      /\ Framed(p, n, c)
      /\ Written(p, v) /\ SameCall(p, o) /\ Carries(p, o, n, k)
  BY DEF Travels
<1>2. /\ Off(Extents, 15, 4) /\ Off(Extents, 25, 1) /\ Off(Extents, 7, 2) /\ Off(Extents, 9, 2)
      /\ Off(Extents, 11, 4) /\ Off(Extents, 23, 1)
  BY DEF Off, Extents
<1>3. Off(Extents, 29, n - 30)
  BY <1>1, SizeIs DEF Off, Extents
<1>4. Written(q, v)
  BY <1>1, <1>2, WrittenKept
<1>5. SameCall(q, o)
  BY <1>1, <1>2, SameCallKept
<1>6. Carries(q, o, n, k)
  BY <1>1, <1>2, <1>3, CarriesKept
<1> QED BY <1>1, <1>4, <1>5, <1>6 DEF Travels

\* The byte v as a number of four bytes.
LEMMA ByteNet ==
    ASSUME NEW v \in Byte
    PROVE  Net(v, 4) \in Seq(Byte) /\ Len(Net(v, 4)) = 4 /\ Host(Net(v, 4)) = v
<1> DEFINE a == Radix ^ 4
<1>1. a \in Nat /\ Radix <= a
  <2>1. {0, 1, 2, 3} \subseteq 0 .. 7 /\ {1, 2, 3, 4} \subseteq 0 .. 8 /\ 1 + 1 = 2 /\ 2 + 1 = 3 /\ 3 + 1 = 4
    OBVIOUS
  <2>2. Radix ^ 1 < Radix ^ (1 + 1) /\ Radix ^ 2 < Radix ^ (2 + 1) /\ Radix ^ 3 < Radix ^ (3 + 1)
    BY <2>1, Powers
  <2>3. Radix ^ 1 \in Nat /\ Radix ^ 2 \in Nat /\ Radix ^ 3 \in Nat /\ Radix ^ 4 \in Nat /\ Radix ^ 1 = Radix
    BY <2>1, Powers
  <2> DEFINE b == Radix ^ 1
             c == Radix ^ 2
             d == Radix ^ 3
  <2>4. b < c /\ c < d /\ d < a /\ b = Radix
    BY <2>1, <2>2, <2>3
  <2>5. b \in Nat /\ c \in Nat /\ d \in Nat /\ a \in Nat
    BY <2>3
  <2> HIDE DEF a, b, c, d
  <2> QED BY <2>4, <2>5
<1>2. v \in 0 .. a - 1 /\ v \in Int /\ 4 \in 1 .. 8
  <2> HIDE DEF a
  <2> QED BY <1>1, RadixAssumption DEF Byte
<1>3. v \in 0 .. Radix ^ 4 - 1
  BY <1>2
<1> QED BY <1>2, <1>3, NetBytes, HostNet

\* SetUins writes a byte to both uins ...
LEMMA SetUinsIs ==
    ASSUME NEW n \in Size, NEW c \in OneCookie, NEW p, Framed(p, n, c), NEW v \in Byte,
           NEW q, q = SetUins(p, v, v)
    PROVE  Framed(q, n, c) /\ At(q, 15, 4) = v /\ Kept(q, p, n - 1, 16 .. 23)
<1> DEFINE t == Net(v, 4)
           s == t \o t
<1>1. t \in Seq(Byte) /\ Len(t) = 4 /\ Host(t) = v
  BY ByteNet
<1>2. q = Put(p, 15, s)
  BY DEF SetUins
<1> HIDE DEF t
<1>3. Both(s, t, t)
  <2>1. Joint(s, t, t)
    BY <1>1 DEF Joint
  <2> HIDE DEF s
  <2> QED BY <2>1, BothJoined
<1> HIDE DEF s
<1>4. s \in Seq(Byte) /\ Len(s) = 8 /\ \A i \in 1 .. 4 : s[i] = t[i]
  BY <1>1, <1>3 DEF Both, Kept
<1>5. n \in Nat /\ n >= 31
  BY SizeIs
<1>6. Off({1, 2} \cup Extents, 15, 8)
  BY DEF Off, Extents
<1>7. FrameHolds(q, p, n, c, 15, s, 8)
  <2>1. FramePut(q, p, n, c, 15, s, 8)
    BY <1>2, <1>4, <1>5, <1>6 DEF FramePut
  <2> QED BY <2>1, PutFrame
<1>8. At(q, 15, 4) = v
  <2>1. \A i \in 1 .. 4 : i \in 1 .. 8
    OBVIOUS
  <2>2. \A i \in 1 .. 8 : q[15 + i] = s[i]
    BY <1>7 DEF FrameHolds
  <2>3. \A i \in 1 .. Len(t) : q[15 + i] = t[i]
    BY <1>1, <1>4, <2>1, <2>2
  <2>4. q \in Seq(Byte) /\ 15 \in Nat /\ 15 + Len(t) <= Len(q)
    BY <1>1, <1>5, <1>7 DEF FrameHolds
  <2>5. Slice(q, 15, Len(t)) = t
    BY <1>1, <2>3, <2>4, WholeSlice
  <2> QED BY <1>1, <2>5, AtSlice
<1>9. 15 + 1 = 16 /\ 15 + 8 = 23
  OBVIOUS
<1> QED BY <1>7, <1>8, <1>9 DEF FrameHolds

\* ... and SetReserve to the reserve.
LEMMA SetReserveIs ==
    ASSUME NEW n \in Size, NEW c \in OneCookie, NEW p, Framed(p, n, c), NEW v \in Byte,
           NEW q, q = SetReserve(p, v)
    PROVE  Framed(q, n, c) /\ q[26] = v /\ Kept(q, p, n - 1, {26})
<1> DEFINE s == <<v>>
<1>1. s \in Seq(Byte) /\ Len(s) = 1 /\ s[1] = v /\ n \in Nat /\ n >= 31
  BY SizeIs
<1>2. q = Put(p, 25, s)
  BY DEF SetReserve
<1> HIDE DEF s
<1>3. Off({1, 2} \cup Extents, 25, 1)
  BY DEF Off, Extents
<1>4. FrameHolds(q, p, n, c, 25, s, 1)
  <2>1. FramePut(q, p, n, c, 25, s, 1)
    BY <1>1, <1>2, <1>3 DEF FramePut
  <2> QED BY <2>1, PutFrame
<1>5. q[26] = v
  <2>1. 1 \in 1 .. 1 /\ 25 + 1 = 26
    OBVIOUS
  <2> QED BY <1>1, <1>4, <2>1 DEF FrameHolds
<1>6. 25 + 1 .. 25 + 1 = {26}
  OBVIOUS
<1> QED BY <1>4, <1>5, <1>6 DEF FrameHolds

\* A relay that writes to the header.
LEMMA HeaderTravels ==
    ASSUME NEW p, NEW o, NEW n, NEW c, NEW k, NEW v, Travels(p, o, n, c, k, v), NEW w \in Byte
    PROVE  Travels(SetReserve(SetUins(p, w, w), w), o, n, c, k, w)
<1> DEFINE q == SetUins(p, w, w)
           r == SetReserve(q, w)
<1>1. /\ n \in Size /\ c \in OneCookie /\ k \in OneKey /\ v \in Byte
      /\ o \in Seq(Byte) /\ Len(o) = n
      /\ Framed(p, n, c)
      /\ Written(p, v) /\ SameCall(p, o) /\ Carries(p, o, n, k)
  BY DEF Travels
<1>2. Framed(q, n, c) /\ At(q, 15, 4) = w /\ Kept(q, p, n - 1, 16 .. 23)
  BY <1>1, SetUinsIs
<1> HIDE DEF q
<1>3. Framed(r, n, c) /\ r[26] = w /\ Kept(r, q, n - 1, {26})
  BY <1>1, <1>2, SetReserveIs
<1> HIDE DEF r
<1>4. Kept(r, p, n - 1, (16 .. 23) \cup {26})
  BY <1>2, <1>3, KeptTwice
<1> DEFINE T == (16 .. 23) \cup {26}
<1>5. Off(T, 7, 2) /\ Off(T, 9, 2) /\ Off(T, 11, 4) /\ Off(T, 23, 1) /\ Off({26}, 15, 4)
  BY DEF Off
<1>6. Off(T, 29, n - 30)
  BY <1>1, SizeIs DEF Off
<1>7. Written(r, w)
  <2>1. n \in Nat /\ n >= 31
    BY <1>1, SizeIs
  <2>2. 15 \in Nat /\ 4 \in Nat /\ 15 + 4 <= n - 1
    BY <2>1
  <2>3. Slice(r, 15, 4) = Slice(q, 15, 4)
    BY <1>1, <1>2, <1>3, <1>5, <2>2, FrameSlice
  <2> QED BY <1>2, <1>3, <2>3, AtSlice DEF Written
<1> HIDE DEF T
<1>7a. Kept(r, p, n - 1, T)
  BY <1>4 DEF T
<1>8. SameCall(r, o)
  BY <1>1, <1>3, <1>5, <1>7a, SameCallKept
<1>9. Carries(r, o, n, k)
  BY <1>1, <1>3, <1>5, <1>6, <1>7a, CarriesKept
<1>10. Travels(r, o, n, c, k, w)
  BY <1>1, <1>3, <1>7, <1>8, <1>9 DEF Travels
<1> QED BY <1>10 DEF q, r

\* A relay that encrypts the body.
LEMMA EncryptTravels ==
    ASSUME NEW p, NEW o, NEW n, NEW v, Travels(p, o, n, <<>>, <<>>, v), NEW x \in Nat
    PROVE  Travels(EncryptPack(SetEncType(p, ENC_TYPE_TEA), x), o, n, <<>>, <<x>>, v)
<1> DEFINE q == SetEncType(p, ENC_TYPE_TEA)
           r == EncryptPack(q, x)
<1>1. /\ n \in Size /\ <<>> \in OneCookie /\ v \in Byte
      /\ o \in Seq(Byte) /\ Len(o) = n
      /\ Framed(p, n, <<>>)
      /\ Written(p, v) /\ SameCall(p, o) /\ Carries(p, o, n, <<>>)
  BY DEF Travels
<1>2. Framed(q, n, <<>>) /\ q[24] = ENC_TYPE_TEA /\ Kept(q, p, n - 1, {24})
  <2>1. ENC_TYPE_TEA \in Byte
    BY RadixAssumption DEF Byte, ENC_TYPE_TEA
  <2> QED BY <1>1, <2>1, SetEncTypeIs
<1> HIDE DEF q
<1>3. /\ Framed(r, n, <<>>)
      /\ Slice(r, 29, n - 30) = Xxtea(Slice(q, 29, n - 30), x, 1)
      /\ Kept(r, q, n - 1, 30 .. n - 1)
  <2>1. 1 \in {1, -1} /\ r = (IF 1 = 1 THEN EncryptPack(q, x) ELSE DecryptPack(q, x))
    OBVIOUS
  <2> HIDE DEF r
  <2> QED BY <1>1, <1>2, <2>1, CryptIs
<1> HIDE DEF r
<1> DEFINE T == {24} \cup (30 .. n - 1)
<1>4. Kept(r, p, n - 1, T)
  BY <1>2, <1>3, KeptTwice
<1>4a. n \in Nat /\ n >= 31
  BY <1>1, SizeIs
<1>5. /\ Off(T, 7, 2) /\ Off(T, 9, 2) /\ Off(T, 11, 4) /\ Off(T, 15, 4) /\ Off(T, 25, 1)
      /\ Off({24}, 29, n - 30)
  BY <1>4a DEF Off
<1> HIDE DEF T
<1>6. Written(r, v)
  BY <1>1, <1>3, <1>4, <1>5, WrittenKept
<1>7. SameCall(r, o)
  BY <1>1, <1>3, <1>4, <1>5, SameCallKept
<1>8. Carries(r, o, n, <<x>>)
  <2>1. 29 \in Nat /\ n - 30 \in Nat /\ 29 + (n - 30) <= n - 1
    BY <1>4a
  <2>2. Slice(q, 29, n - 30) = Slice(p, 29, n - 30)
    BY <1>1, <1>2, <1>5, <2>1, FrameSlice
  <2>3. Slice(p, 29, n - 30) = Slice(o, 29, n - 30)
    BY <1>1 DEF Carries
  <2>4. r[24] = ENC_TYPE_TEA
    <3>1. 24 \in 1 .. n - 1 /\ 24 \notin 30 .. n - 1
      BY <1>4a
    <3> QED BY <1>2, <1>3, <3>1 DEF Kept
  <2>5. <<x>> # <<>> /\ (<<x>>)[1] = x
    OBVIOUS
  <2> QED BY <1>3, <2>2, <2>3, <2>4, <2>5 DEF Carries
<1>9. <<x>> \in OneKey
  BY DEF OneKey
<1>10. Travels(r, o, n, <<>>, <<x>>, v)
  BY <1>1, <1>3, <1>6, <1>7, <1>8, <1>9 DEF Travels
<1> QED BY <1>10 DEF q, r

\* A relay that decrypts it.
LEMMA DecryptTravels ==
    ASSUME NEW p, NEW o, NEW n, NEW k, NEW v, Travels(p, o, n, <<>>, k, v), k # <<>>
    PROVE  Travels(SetEncType(Decrypt(UnPackerInit(p), k[1]).u.data, ENC_TYPE_NONE), o, n, <<>>, <<>>, v)
<1> DEFINE x == k[1]
           q == DecryptPack(p, x)
           r == SetEncType(q, ENC_TYPE_NONE)
           b == Slice(o, 29, n - 30)
<1>1. /\ n \in Size /\ <<>> \in OneCookie /\ v \in Byte
      /\ o \in Seq(Byte) /\ Len(o) = n
      /\ Framed(p, n, <<>>)
      /\ Written(p, v) /\ SameCall(p, o) /\ Carries(p, o, n, k)
  BY DEF Travels
<1>2. x \in Nat
  <2>1. k \in OneKey
    BY DEF Travels
  <2>2. PICK y \in Nat : k = <<y>>
    BY <2>1 DEF OneKey
  <2> QED BY <2>2
<1>3. p[24] = ENC_TYPE_TEA /\ Slice(p, 29, n - 30) = Xxtea(b, x, 1)
  BY <1>1 DEF Carries
<1>4. Decrypt(UnPackerInit(p), k[1]).u.data = q
  BY <1>3 DEF Decrypt, UnPackerInit, GetEncType, ENC_TYPE_NONE, ENC_TYPE_TEA
<1>4a. n \in Nat /\ n >= 31
  BY <1>1, SizeIs
<1>5. b \in Seq(Byte)
  <2>1. 29 \in Nat /\ n - 30 \in Nat /\ 29 + (n - 30) <= Len(o)
    BY <1>1, <1>4a
  <2> QED BY <1>1, <2>1, SliceIs
<1> HIDE DEF x, b
<1>6. /\ Framed(q, n, <<>>)
      /\ Slice(q, 29, n - 30) = Xxtea(Slice(p, 29, n - 30), x, -1)
      /\ Kept(q, p, n - 1, 30 .. n - 1)
  <2>1. -1 \in {1, -1} /\ q = (IF -1 = 1 THEN EncryptPack(p, x) ELSE DecryptPack(p, x))
    OBVIOUS
  <2> HIDE DEF q
  <2> QED BY <1>1, <1>2, <1>3, <2>1, CryptIs
<1> HIDE DEF q
<1>7. Slice(q, 29, n - 30) = b
  <2>1. Xxtea(Xxtea(b, x, 1), x, -1) = b
    BY <1>2, <1>5, XxteaIs
  <2> QED BY <1>3, <1>6, <2>1
<1>8. Framed(r, n, <<>>) /\ Kept(r, q, n - 1, {24})
  <2>1. ENC_TYPE_NONE \in Byte
    BY RadixAssumption DEF Byte, ENC_TYPE_NONE
  <2> QED BY <1>1, <1>6, <2>1, SetEncTypeIs
<1> HIDE DEF r
<1> DEFINE T == (30 .. n - 1) \cup {24}
<1>9. Kept(r, p, n - 1, T)
  BY <1>6, <1>8, KeptTwice
<1>10. /\ Off(T, 7, 2) /\ Off(T, 9, 2) /\ Off(T, 11, 4) /\ Off(T, 15, 4) /\ Off(T, 25, 1)
       /\ Off({24}, 29, n - 30)
  BY <1>4a DEF Off
<1> HIDE DEF T
<1>11. Written(r, v)
  BY <1>1, <1>8, <1>9, <1>10, WrittenKept
<1>12. SameCall(r, o)
  BY <1>1, <1>8, <1>9, <1>10, SameCallKept
<1>13. Carries(r, o, n, <<>>)
  <2>1. 29 \in Nat /\ n - 30 \in Nat /\ 29 + (n - 30) <= n - 1
    BY <1>4a
  <2>2. Slice(r, 29, n - 30) = Slice(q, 29, n - 30)
    BY <1>1, <1>6, <1>8, <1>10, <2>1, FrameSlice
  <2> QED BY <1>7, <2>2 DEF Carries, b
<1>14. <<>> \in OneKey
  BY DEF OneKey
<1>15. Travels(r, o, n, <<>>, <<>>, v)
  BY <1>1, <1>8, <1>11, <1>12, <1>13, <1>14 DEF Travels
<1> QED BY <1>4, <1>15 DEF r, x

\* What a packet on its way has in common with the one it was.
LEMMA TravelsIntact ==
    ASSUME NEW p, NEW o, NEW n, NEW c, NEW k, NEW v, Travels(p, o, n, c, k, v)
    PROVE  /\ CheckPack(p) = RET_OK
           /\ GetHeader(p).pack_len = Len(p)
           /\ Len(p) = n + (IF c = <<>> THEN 0 ELSE 2 + Len(c[1]))
           /\ (IF k = <<>> THEN Body(p, n) ELSE Xxtea(Body(p, n), k[1], -1)) = Body(o, n)
           /\ GetCookie(p, MaxWord) = [ret |-> 0, ck |-> IF c = <<>> THEN <<>> ELSE c[1]]
           /\ GetReserve(p) = v /\ GetHeader(p).from_uin = v
           /\ GetPackCmd(p) = GetPackCmd(o) /\ GetHeader(p).seq = GetHeader(o).seq
<1>1. /\ n \in Size /\ c \in OneCookie /\ k \in OneKey /\ v \in Byte
      /\ o \in Seq(Byte) /\ Len(o) = n
      /\ Framed(p, n, c)
      /\ Written(p, v) /\ SameCall(p, o) /\ Carries(p, o, n, k)
  BY DEF Travels
<1>2. n \in Nat /\ n >= 31 /\ CookieLen(c) \in Nat
  BY <1>1, SizeIs, CookieIs
<1>3. /\ p \in Seq(Byte) /\ Len(p) = n + CookieLen(c)
      /\ p[1] = SOH /\ p[2] = MAIN_VER /\ p[Len(p)] = EOT
      /\ At(p, 3, 4) = Len(p)
      /\ At(p, 26, 3) = IF c = <<>> THEN 0 ELSE n - 1
      /\ Behind(p, n, c)
  BY <1>1 DEF Framed
<1>4. CheckPack(p) = RET_OK
  <2>1. ~(Len(p) < MSG_HEADER_LEN + 1)
    BY <1>2, <1>3 DEF MSG_HEADER_LEN
  <2>2. GetPackLen(p) = Len(p) /\ ~(Len(p) > Len(p))
    <3>1. Len(p) \in Nat
      BY <1>2, <1>3
    <3> QED BY <1>3, <3>1 DEF GetPackLen
  <2> QED BY <1>3, <2>1, <2>2 DEF CheckPack
<1>5. GetHeader(p).pack_len = Len(p) /\ GetHeader(p).from_uin = v /\ GetReserve(p) = v
  BY <1>1, <1>3 DEF GetHeader, GetReserve, Written
<1>6. Len(p) = n + (IF c = <<>> THEN 0 ELSE 2 + Len(c[1]))
  BY <1>3 DEF CookieLen
<1>7. Body(p, n) = Slice(p, 29, n - 30) /\ Body(o, n) = Slice(o, 29, n - 30)
  <2>1. MSG_HEADER_LEN + 1 = 29 + 1 /\ n - 1 = 29 + (n - 30)
    BY <1>2 DEF MSG_HEADER_LEN
  <2> QED BY <2>1 DEF Slice, Body
<1>8. (IF k = <<>> THEN Body(p, n) ELSE Xxtea(Body(p, n), k[1], -1)) = Body(o, n)
  <2>1. CASE k = <<>>
    BY <1>1, <1>7, <2>1 DEF Carries
  <2>2. CASE k # <<>>
    <3> DEFINE b == Slice(o, 29, n - 30)
               x == k[1]
    <3>1. x \in Nat
      <4>1. PICK y \in Nat : k = <<y>>
        BY <1>1, <2>2 DEF OneKey
      <4> QED BY <4>1
    <3>2. Slice(p, 29, n - 30) = Xxtea(b, x, 1)
      BY <1>1, <2>2 DEF Carries
    <3>3. b \in Seq(Byte)
      <4>1. 29 \in Nat /\ n - 30 \in Nat /\ 29 + (n - 30) <= Len(o)
        BY <1>1, <1>2
      <4> QED BY <1>1, <4>1, SliceIs
    <3> HIDE DEF b, x
    <3>4. Xxtea(Xxtea(b, x, 1), x, -1) = b
      BY <3>1, <3>3, XxteaIs
    <3> QED BY <1>7, <2>2, <3>2, <3>4 DEF b, x
  <2> QED BY <2>1, <2>2
<1>9. GetCookie(p, MaxWord) = [ret |-> 0, ck |-> IF c = <<>> THEN <<>> ELSE c[1]]
  <2>1. CASE c = <<>>
    BY <1>3, <2>1 DEF GetCookie, GetCookiePos
  <2>2. CASE c # <<>>
    <3> DEFINE l == Len(c[1])
    <3>1. l \in Nat /\ l <= MaxWord /\ MaxWord \in Nat
      BY <1>1, <2>2, CookieIs, FieldsFit
    <3>2. GetCookiePos(p) = n - 1 /\ At(p, n - 1, 2) = l /\ Slice(p, n + 1, l) = c[1]
      BY <1>3, <2>2 DEF GetCookiePos, Behind
    <3> HIDE DEF l
    <3>3. n - 1 # 0 /\ ~(MaxWord < l) /\ (n - 1) + 3 = (n + 1) + 1 /\ (n - 1) + 2 + l = (n + 1) + l
      BY <1>2, <3>1
    <3>4. SubSeq(p, (n - 1) + 3, (n - 1) + 2 + l) = c[1]
      BY <3>2, <3>3 DEF Slice
    <3> QED BY <2>2, <3>2, <3>3, <3>4 DEF GetCookie
  <2> QED BY <2>1, <2>2
<1>10. GetPackCmd(p) = GetPackCmd(o) /\ GetHeader(p).seq = GetHeader(o).seq
  <2>1. At(p, 7, 2) = At(o, 7, 2) /\ At(p, 9, 2) = At(o, 9, 2) /\ At(p, 11, 4) = At(o, 11, 4)
    BY <1>1, AtSlice DEF SameCall
  <2> QED BY <2>1 DEF GetPackCmd, GetHeader
<1> QED BY <1>4, <1>5, <1>6, <1>8, <1>9, <1>10

-----------------------------------------------------------------------------
(* Packets as they are made                                                *)

\* the headers that clients and servers put before a body
Headers ==
    [soh : {SOH}, main_ver : {MAIN_VER}, sub_ver : {SUB_VER}, main_cmd : Nat, sub_cmd : Nat,
     seq : Nat, from_uin : {0}, to_uin : Nat, enc_type : {ENC_TYPE_NONE, ENC_TYPE_TEA},
     source_type : {0, 1}, rev : {0}]

\* The bytes of zero.
LEMMA NetZero ==
    ASSUME NEW w \in 1 .. 8
    PROVE  \A i \in 1 .. w : Net(0, w)[i] = 0
<1> SUFFICES ASSUME NEW i \in 1 .. w PROVE (0 \div Radix ^ (w - i)) % Radix = 0
  BY DEF Net
<1> DEFINE a == Radix ^ (w - i)
<1>1. a \in Nat \ {0} /\ Radix \in Nat \ {0}
  <2>1. w - i \in 0 .. 8
    OBVIOUS
  <2> QED BY <2>1, Powers, RadixAssumption
<1> HIDE DEF a
<1>2. 0 \div a = 0
  <2>1. 0 = a * 0 + 0 /\ 0 \in 0 .. a - 1
    BY <1>1
  <2> QED BY <1>1, <2>1, Euclid
<1>3. 0 % Radix = 0
  <2>1. 0 = Radix * 0 + 0 /\ 0 \in 0 .. Radix - 1
    BY <1>1
  <2> QED BY <1>1, <2>1, Euclid
<1> QED BY <1>2, <1>3 DEF a

\* The fields of the beginning of a packet.
LEMMA FirstFields ==
    ASSUME NEW q \in Seq(Byte), NEW s \in Seq(Byte), Len(s) <= Len(q), Kept(q, s, Len(s), {}),
           NEW a \in Nat, NEW w \in Nat, a + w <= Len(s)
    PROVE  Slice(q, a, w) = Slice(s, a, w)
<1>1. Len(s) \in Nat /\ Len(s) <= Len(s) /\ Off({}, a, w)
  BY DEF Off
<1> QED BY <1>1, KeptSlice

\* A beginning of a beginning is one.
LEMMA KeptBefore ==
    ASSUME NEW q, NEW s, NEW r, NEW m \in Nat, NEW j \in 0 .. m, Kept(q, s, m, {}), Kept(s, r, j, {})
    PROVE  Kept(q, r, j, {})
<1>1. \A i \in 1 .. j : i \in 1 .. m
  OBVIOUS
<1> QED BY <1>1 DEF Kept

\* The header of a packet with m bytes of body.
LEMMA HeaderIs ==
    ASSUME NEW h \in Headers, NEW m \in Nat, 30 + m \in Size, NEW q, q = PackHeader(h, m)
    PROVE  /\ q \in Seq(Byte) /\ Len(q) = 29 /\ q[1] = SOH /\ q[2] = MAIN_VER
           /\ At(q, 3, 4) = 30 + m /\ At(q, 15, 4) = 0 /\ At(q, 26, 3) = 0
           /\ q[24] = h.enc_type /\ q[26] = 0
<1> DEFINE a0 == <<h.soh, h.main_ver, h.sub_ver>>
           t1 == Net(30 + m, 4)
           t2 == Net(h.main_cmd, 2)
           t3 == Net(h.sub_cmd, 2)
           t4 == Net(h.seq, 4)
           t5 == Net(0, 4)
           t6 == Net(h.to_uin, 4)
           t7 == <<h.enc_type, h.source_type>>
           a1 == a0 \o t1
           a2 == a1 \o t2
           a3 == a2 \o t3
           a4 == a3 \o t4
           a5 == a4 \o t5
           a6 == a5 \o t6
           a7 == a6 \o t7
<1>1. /\ h.soh = SOH /\ h.main_ver = MAIN_VER /\ h.sub_ver = SUB_VER /\ h.from_uin = 0 /\ h.rev = 0
      /\ h.main_cmd \in Int /\ h.sub_cmd \in Int /\ h.seq \in Int /\ h.to_uin \in Int
      /\ h.enc_type \in Byte /\ h.source_type \in Byte
  BY RadixAssumption DEF Headers, Byte, ENC_TYPE_NONE, ENC_TYPE_TEA
<1>2. MSG_HEADER_LEN + m + 1 = 30 + m
  BY DEF MSG_HEADER_LEN
<1>3. q = a7 \o t5
  BY <1>1, <1>2 DEF PackHeader
<1>4. a0 \in Seq(Byte) /\ Len(a0) = 3 /\ a0[1] = SOH /\ a0[2] = MAIN_VER
  BY <1>1, RadixAssumption DEF Byte, SOH, MAIN_VER, SUB_VER
<1>5. t7 \in Seq(Byte) /\ Len(t7) = 2 /\ t7[1] = h.enc_type
  BY <1>1
<1>6. /\ t1 \in Seq(Byte) /\ Len(t1) = 4 /\ t2 \in Seq(Byte) /\ Len(t2) = 2
      /\ t3 \in Seq(Byte) /\ Len(t3) = 2 /\ t4 \in Seq(Byte) /\ Len(t4) = 4
      /\ t5 \in Seq(Byte) /\ Len(t5) = 4 /\ t6 \in Seq(Byte) /\ Len(t6) = 4
  <2>1. 30 + m \in Int /\ 0 \in Int /\ 2 \in 1 .. 8 /\ 4 \in 1 .. 8
    OBVIOUS
  <2> QED BY <1>1, <2>1, NetBytes
<1>7. Host(t1) = 30 + m /\ Host(t5) = 0
  <2>1. 30 + m \in 0 .. Radix ^ 4 - 1 /\ 4 \in 1 .. 8
    BY FieldsFit
  <2>2. 0 \in Byte
    BY RadixAssumption DEF Byte
  <2> QED BY <2>1, <2>2, HostNet, ByteNet
<1> HIDE DEF a0, t1, t2, t3, t4, t5, t6, t7
<1>11. /\ a1 \in Seq(Byte) /\ Len(a1) = 7 /\ Kept(a1, a0, 3, {})
       /\ Slice(a1, 3, 4) = t1
  <2>1. Joint(a1, a0, t1)
    BY <1>4, <1>6 DEF Joint
  <2> HIDE DEF a1
  <2>2. Both(a1, a0, t1)
    BY <2>1, BothJoined
  <2>3. 3 + 4 = 7
    OBVIOUS
  <2> QED BY <1>4, <1>6, <2>2, <2>3 DEF Both
<1> HIDE DEF a1
<1>12. /\ a2 \in Seq(Byte) /\ Len(a2) = 9 /\ Kept(a2, a1, 7, {})
       /\ Slice(a2, 7, 2) = t2
  <2>1. Joint(a2, a1, t2)
    BY <1>11, <1>6 DEF Joint
  <2> HIDE DEF a2
  <2>2. Both(a2, a1, t2)
    BY <2>1, BothJoined
  <2>3. 7 + 2 = 9
    OBVIOUS
  <2> QED BY <1>11, <1>6, <2>2, <2>3 DEF Both
<1> HIDE DEF a2
<1>13. /\ a3 \in Seq(Byte) /\ Len(a3) = 11 /\ Kept(a3, a2, 9, {})
       /\ Slice(a3, 9, 2) = t3
  <2>1. Joint(a3, a2, t3)
    BY <1>12, <1>6 DEF Joint
  <2> HIDE DEF a3
  <2>2. Both(a3, a2, t3)
    BY <2>1, BothJoined
  <2>3. 9 + 2 = 11
    OBVIOUS
  <2> QED BY <1>12, <1>6, <2>2, <2>3 DEF Both
<1> HIDE DEF a3
<1>14. /\ a4 \in Seq(Byte) /\ Len(a4) = 15 /\ Kept(a4, a3, 11, {})
       /\ Slice(a4, 11, 4) = t4
  <2>1. Joint(a4, a3, t4)
    BY <1>13, <1>6 DEF Joint
  <2> HIDE DEF a4
  <2>2. Both(a4, a3, t4)
    BY <2>1, BothJoined
  <2>3. 11 + 4 = 15
    OBVIOUS
  <2> QED BY <1>13, <1>6, <2>2, <2>3 DEF Both
<1> HIDE DEF a4
<1>15. /\ a5 \in Seq(Byte) /\ Len(a5) = 19 /\ Kept(a5, a4, 15, {})
       /\ Slice(a5, 15, 4) = t5
  <2>1. Joint(a5, a4, t5)
    BY <1>14, <1>6 DEF Joint
  <2> HIDE DEF a5
  <2>2. Both(a5, a4, t5)
    BY <2>1, BothJoined
  <2>3. 15 + 4 = 19
    OBVIOUS
  <2> QED BY <1>14, <1>6, <2>2, <2>3 DEF Both
<1> HIDE DEF a5
<1>16. /\ a6 \in Seq(Byte) /\ Len(a6) = 23 /\ Kept(a6, a5, 19, {})
       /\ Slice(a6, 19, 4) = t6
  <2>1. Joint(a6, a5, t6)
    BY <1>15, <1>6 DEF Joint
  <2> HIDE DEF a6
  <2>2. Both(a6, a5, t6)
    BY <2>1, BothJoined
  <2>3. 19 + 4 = 23
    OBVIOUS
  <2> QED BY <1>15, <1>6, <2>2, <2>3 DEF Both
<1> HIDE DEF a6
<1>17. Both(a7, a6, t7)
  <2>1. Joint(a7, a6, t7)
    BY <1>5, <1>16 DEF Joint
  <2> HIDE DEF a7
  <2> QED BY <2>1, BothJoined
<1>17a. a7 \in Seq(Byte) /\ Len(a7) = 25 /\ Kept(a7, a6, 23, {}) /\ a7[24] = h.enc_type
  <2> HIDE DEF a7
  <2>1. a7 \in Seq(Byte) /\ Len(a7) = 23 + 2 /\ Kept(a7, a6, 23, {})
    BY <1>5, <1>16, <1>17 DEF Both
  <2>2. a7[23 + 1] = t7[1]
    <3>1. 1 \in 1 .. 2
      OBVIOUS
    <3> QED BY <1>5, <1>16, <1>17, <3>1 DEF Both
  <2>3. 23 + 2 = 25 /\ 23 + 1 = 24
    OBVIOUS
  <2> QED BY <1>5, <2>1, <2>2, <2>3
<1> HIDE DEF a7
<1>18. Both(q, a7, t5)
  <2>1. Joint(q, a7, t5)
    BY <1>3, <1>6, <1>17a DEF Joint
  <2> QED BY <2>1, BothJoined
<1>19. /\ q \in Seq(Byte) /\ Len(q) = 29 /\ Kept(q, a7, 25, {})
       /\ \A i \in 1 .. 4 : q[25 + i] = t5[i]
  BY <1>6, <1>17a, <1>18 DEF Both
<1>20. Kept(q, a5, 19, {})
  <2>1. 25 \in Nat /\ 23 \in 0 .. 25 /\ 23 \in Nat /\ 19 \in 0 .. 23
    OBVIOUS
  <2>2. Kept(q, a6, 23, {})
    <3>1. Kept(q, a7, 25, {}) /\ Kept(a7, a6, 23, {})
      BY <1>17a, <1>19
    <3> QED BY <2>1, <3>1, KeptBefore
  <2> QED BY <1>16, <2>1, <2>2, KeptBefore
<1>21. Kept(q, a1, 7, {})
  <2>1. /\ 19 \in Nat /\ 15 \in 0 .. 19 /\ 15 \in Nat /\ 11 \in 0 .. 15 /\ 11 \in Nat
        /\ 9 \in 0 .. 11 /\ 9 \in Nat /\ 7 \in 0 .. 9
    OBVIOUS
  <2>2. Kept(q, a4, 15, {})
    BY <1>15, <1>20, <2>1, KeptBefore
  <2>3. Kept(q, a3, 11, {})
    BY <1>14, <2>1, <2>2, KeptBefore
  <2>4. Kept(q, a2, 9, {})
    BY <1>13, <2>1, <2>3, KeptBefore
  <2> QED BY <1>12, <2>1, <2>4, KeptBefore
<1>22. q[1] = SOH /\ q[2] = MAIN_VER /\ q[24] = h.enc_type
  <2>1. {1, 2} \subseteq 1 .. 3 /\ {1, 2} \subseteq 1 .. 7 /\ 24 \in 1 .. 25
    OBVIOUS
  <2>2. q[24] = a7[24]
    BY <1>19, <2>1 DEF Kept
  <2>3. q[1] = a1[1] /\ q[2] = a1[2]
    BY <1>21, <2>1 DEF Kept
  <2>4. a1[1] = a0[1] /\ a1[2] = a0[2]
    BY <1>11, <2>1 DEF Kept
  <2> QED BY <1>4, <1>17a, <2>2, <2>3, <2>4
<1>23. At(q, 3, 4) = 30 + m
  <2>1. 3 \in Nat /\ 4 \in Nat /\ 3 + 4 <= Len(a1) /\ Len(a1) <= Len(q) /\ Kept(q, a1, Len(a1), {})
    BY <1>11, <1>19, <1>21
  <2>2. Slice(q, 3, 4) = Slice(a1, 3, 4)
    BY <1>11, <1>19, <2>1, FirstFields
  <2> QED BY <1>7, <1>11, <2>2, AtSlice
<1>24. At(q, 15, 4) = 0
  <2>1. 15 \in Nat /\ 4 \in Nat /\ 15 + 4 <= Len(a5) /\ Len(a5) <= Len(q) /\ Kept(q, a5, Len(a5), {})
    BY <1>15, <1>19, <1>20
  <2>2. Slice(q, 15, 4) = Slice(a5, 15, 4)
    BY <1>15, <1>19, <2>1, FirstFields
  <2> QED BY <1>7, <1>15, <2>2, AtSlice
<1>25. \A i \in 1 .. 4 : q[25 + i] = 0
  <2>1. 4 \in 1 .. 8
    OBVIOUS
  <2>2. \A i \in 1 .. 4 : t5[i] = 0
    BY <2>1, NetZero DEF t5
  <2> QED BY <1>19, <2>2
<1>26. q[26] = 0
  <2>1. 1 \in 1 .. 4 /\ 25 + 1 = 26
    OBVIOUS
  <2> QED BY <1>25, <2>1
<1>27. At(q, 26, 3) = 0
  <2> DEFINE z == Net(0, 3)
  <2>1. 3 \in 1 .. 8 /\ 0 \in Int
    OBVIOUS
  <2>2. z \in Seq(Byte) /\ Len(z) = 3
    BY <2>1, NetBytes
  <2>3. \A i \in 1 .. 3 : z[i] = 0
    BY <2>1, NetZero
  <2>4. Host(z) = 0
    <3>1. 3 \in 0 .. 8
      OBVIOUS
    <3>2. Radix ^ 3 \in Nat \ {0}
      BY <3>1, Powers
    <3>3. 0 \in 0 .. Radix ^ 3 - 1
      BY <3>2
    <3> QED BY <2>1, <3>3, HostNet
  <2> HIDE DEF z
  <2>5. ASSUME NEW i \in 1 .. Len(z) PROVE q[26 + i] = z[i]
    <3>1. i \in 1 .. 3 /\ i + 1 \in 1 .. 4 /\ 25 + (i + 1) = 26 + i
      BY <2>2
    <3>2. q[25 + (i + 1)] = 0
      BY <1>25, <3>1
    <3> QED BY <2>3, <3>1, <3>2
  <2>6. 26 \in Nat /\ 26 + Len(z) <= Len(q)
    BY <1>19, <2>2
  <2>7. Slice(q, 26, Len(z)) = z
    BY <1>19, <2>2, <2>5, <2>6, WholeSlice
  <2> QED BY <2>2, <2>4, <2>7, AtSlice
<1> QED BY <1>19, <1>22, <1>23, <1>24, <1>26, <1>27

\* What a packet begins with, up to the end of its body.
Begins(b, h, body, n) ==
    /\ b[1] = SOH /\ b[2] = MAIN_VER
    /\ At(b, 15, 4) = 0 /\ b[24] = h.enc_type /\ b[26] = 0
    /\ Slice(b, 29, n - 30) = body

\* b is the header h and the body behind it.
HeadAndBody(b, h, body) == b = PackHeader(h, Len(body)) \o body

\* The header and the body.
LEMMA BodyBehind ==
    ASSUME NEW h \in Headers, NEW body \in Seq(Byte), NEW n \in Size, n = 30 + Len(body),
           NEW b, HeadAndBody(b, h, body)
    PROVE  /\ b \in Seq(Byte) /\ Len(b) = n - 1
           /\ Begins(b, h, body, n) /\ At(b, 3, 4) = n /\ At(b, 26, 3) = 0
<1> DEFINE m == Len(body)
           q == PackHeader(h, m)
<1>1. m \in Nat /\ n \in Nat /\ n - 30 = m
  BY SizeIs
<1>2. b = q \o body /\ n = 30 + m
  BY DEF HeadAndBody
<1> HIDE DEF q, m
<1>3. /\ q \in Seq(Byte) /\ Len(q) = 29 /\ q[1] = SOH /\ q[2] = MAIN_VER
      /\ At(q, 3, 4) = 30 + m /\ At(q, 15, 4) = 0 /\ At(q, 26, 3) = 0
      /\ q[24] = h.enc_type /\ q[26] = 0
  <2>1. q = PackHeader(h, m) /\ 30 + m \in Size
    BY <1>2 DEF q
  <2> QED BY <1>1, <2>1, HeaderIs
<1>4. Both(b, q, body)
  <2>1. Joint(b, q, body)
    BY <1>2, <1>3 DEF Joint
  <2> QED BY <2>1, BothJoined
<1>5. /\ b \in Seq(Byte) /\ Len(b) = 29 + m
      /\ Kept(b, q, Len(q), {}) /\ Kept(b, q, 29, {}) /\ Slice(b, 29, m) = body
  BY <1>3, <1>4 DEF Both, m
<1>6. b[1] = q[1] /\ b[2] = q[2] /\ b[24] = q[24] /\ b[26] = q[26]
  <2>1. {1, 2, 24, 26} \subseteq 1 .. 29
    OBVIOUS
  <2> QED BY <1>5, <2>1 DEF Kept
<1>7. At(b, 3, 4) = At(q, 3, 4) /\ At(b, 15, 4) = At(q, 15, 4) /\ At(b, 26, 3) = At(q, 26, 3)
  <2>1. b \in Seq(Byte) /\ q \in Seq(Byte) /\ Len(q) <= Len(b) /\ Kept(b, q, Len(q), {})
    BY <1>1, <1>3, <1>5
  <2>2. Slice(b, 3, 4) = Slice(q, 3, 4)
    <3>1. 3 \in Nat /\ 4 \in Nat /\ 3 + 4 <= Len(q)
      BY <1>3
    <3> QED BY <2>1, <3>1, FirstFields
  <2>3. Slice(b, 15, 4) = Slice(q, 15, 4)
    <3>1. 15 \in Nat /\ 4 \in Nat /\ 15 + 4 <= Len(q)
      BY <1>3
    <3> QED BY <2>1, <3>1, FirstFields
  <2>4. Slice(b, 26, 3) = Slice(q, 26, 3)
    <3>1. 26 \in Nat /\ 3 \in Nat /\ 26 + 3 <= Len(q)
      BY <1>3
    <3> QED BY <2>1, <3>1, FirstFields
  <2> QED BY <2>2, <2>3, <2>4, AtSlice
<1>8. Len(b) = n - 1
  BY <1>1, <1>2, <1>5
<1> QED BY <1>1, <1>2, <1>3, <1>5, <1>6, <1>7, <1>8 DEF Begins

\* A packet that begins like one does.
LEMMA BeginsKept ==
    ASSUME NEW h, NEW body, NEW n \in Size, NEW b \in Seq(Byte), Len(b) = n - 1, Begins(b, h, body, n),
           NEW q \in Seq(Byte), n - 1 <= Len(q), Kept(q, b, n - 1, Extents)
    PROVE  Begins(q, h, body, n)
<1>1. n \in Nat /\ n >= 31
  BY SizeIs
<1>2. {1, 2, 24, 26} \subseteq 1 .. n - 1 /\ {1, 2, 24, 26} \cap Extents = {}
  BY <1>1 DEF Extents
<1>3. Off(Extents, 15, 4) /\ Off(Extents, 29, n - 30)
  BY <1>1 DEF Off, Extents
<1>4. n - 1 \in Nat /\ n - 1 <= Len(b) /\ 15 \in Nat /\ 4 \in Nat /\ 15 + 4 <= n - 1
  BY <1>1
<1>5. 29 \in Nat /\ n - 30 \in Nat /\ 29 + (n - 30) <= n - 1
  BY <1>1
<1>6. Slice(q, 15, 4) = Slice(b, 15, 4)
  BY <1>3, <1>4, KeptSlice
<1>7. Slice(q, 29, n - 30) = Slice(b, 29, n - 30)
  BY <1>3, <1>4, <1>5, KeptSlice
<1>8. q[1] = b[1] /\ q[2] = b[2] /\ q[24] = b[24] /\ q[26] = b[26]
  BY <1>2 DEF Kept
<1> QED BY <1>6, <1>7, <1>8, AtSlice DEF Begins

\* A packet without a cookie, as GetPack makes it.
LEMMA PackIs ==
    ASSUME NEW h \in Headers, NEW body \in Seq(Byte), NEW n \in Size, n = 30 + Len(body),
           NEW q, q = GetPack(h, body)
    PROVE  Framed(q, n, <<>>) /\ Begins(q, h, body, n)
<1> DEFINE b == PackHeader(h, Len(body)) \o body
<1>1. /\ b \in Seq(Byte) /\ Len(b) = n - 1
      /\ Begins(b, h, body, n) /\ At(b, 3, 4) = n /\ At(b, 26, 3) = 0
  <2> HIDE DEF b
  <2>1. HeadAndBody(b, h, body)
    BY DEF b, HeadAndBody
  <2> QED BY <2>1, BodyBehind
<1>2. q = b \o <<EOT>>
  BY DEF GetPack
<1> HIDE DEF b
<1>3. q \in Seq(Byte) /\ Len(q) = n /\ q[Len(q)] = EOT /\ Kept(q, b, n - 1, {})
  BY <1>1, <1>2, MarkBehind
<1>4. n \in Nat /\ n >= 31 /\ n - 1 <= Len(q)
  BY <1>3, SizeIs
<1>5. Begins(q, h, body, n)
  <2>1. Kept(q, b, n - 1, Extents)
    BY <1>3 DEF Kept
  <2> QED BY <1>1, <1>3, <1>4, <2>1, BeginsKept
<1>6. At(q, 3, 4) = n /\ At(q, 26, 3) = 0
  <2>1. /\ 3 \in Nat /\ 4 \in Nat /\ 26 \in Nat /\ 3 + 4 <= Len(b) /\ 26 + 3 <= Len(b)
        /\ Len(b) <= Len(q) /\ Kept(q, b, Len(b), {})
    BY <1>1, <1>3, <1>4
  <2>2. Slice(q, 3, 4) = Slice(b, 3, 4)
    BY <1>1, <1>3, <2>1, FirstFields
  <2>3. Slice(q, 26, 3) = Slice(b, 26, 3)
    BY <1>1, <1>3, <2>1, FirstFields
  <2> QED BY <1>1, <2>2, <2>3, AtSlice
<1>7. Len(q) = n + CookieLen(<<>>)
  BY <1>3, <1>4 DEF CookieLen
<1> QED BY <1>3, <1>5, <1>6, <1>7 DEF Framed, Behind, Begins

\* A packet with a cookie, as GetPack makes it.
LEMMA CookiePackIs ==
    ASSUME NEW h \in Headers, NEW body \in Seq(Byte), NEW n \in Size, n = 30 + Len(body),
           NEW x \in Seq(Byte), Len(x) <= MaxWord, NEW r, r = GetPackCookie(h, body, x)
    PROVE  <<x>> \in OneCookie /\ Framed(r, n, <<x>>) /\ Begins(r, h, body, n)
<1> DEFINE b == PackHeader(h, Len(body)) \o body
           q == PackHeader(h, Len(body)) \o body \o Net(Len(x), 2) \o x \o <<EOT>>
<1>1. /\ b \in Seq(Byte) /\ Len(b) = n - 1
      /\ Begins(b, h, body, n)
  <2> HIDE DEF b, q
  <2>1. HeadAndBody(b, h, body)
    BY DEF b, HeadAndBody
  <2> QED BY <2>1, BodyBehind
<1>2. WithCookie(q, b, x)
  BY DEF WithCookie
<1>2a. r = SetPackLen(SetCookiePos(q, MSG_HEADER_LEN + Len(body)), Len(q))
  BY DEF GetPackCookie
<1> HIDE DEF b, q
<1>3. /\ <<x>> \in OneCookie
      /\ q \in Seq(Byte) /\ Len(q) = n + CookieLen(<<x>>) /\ q[Len(q)] = EOT
      /\ Behind(q, n, <<x>>) /\ Kept(q, b, n - 1, {})
  BY <1>1, <1>2, CookieBehind
<1>4. n \in Nat /\ n >= 31 /\ CookieLen(<<x>>) \in Nat /\ n - 1 <= Len(q)
  <2>1. n \in Nat /\ n >= 31 /\ CookieLen(<<x>>) \in Nat
    BY <1>3, SizeIs, CookieIs
  <2> QED BY <1>3, <2>1
<1>5. Begins(q, h, body, n)
  <2>1. Kept(q, b, n - 1, Extents)
    BY <1>3 DEF Kept
  <2> QED BY <1>1, <1>3, <1>4, <2>1, BeginsKept
<1>6. MSG_HEADER_LEN + Len(body) = n - 1 /\ <<x>> # <<>>
  <2>1. Len(body) \in Nat
    OBVIOUS
  <2> QED BY <1>4, <2>1 DEF MSG_HEADER_LEN
<1>7. Framed(r, n, <<x>>) /\ Kept(r, q, n - 1, Extents)
  <2> DEFINE c == <<x>>
             pos == n - 1
             len == Len(q)
  <2>1. r = SetPackLen(SetCookiePos(q, pos), len) /\ pos = (IF c = <<>> THEN 0 ELSE n - 1) /\ len = Len(q)
    BY <1>2a, <1>6
  <2>2. q[1] = SOH /\ q[2] = MAIN_VER
    BY <1>5 DEF Begins
  <2>3. c \in OneCookie /\ Len(q) = n + CookieLen(c) /\ Behind(q, n, c)
    BY <1>3
  <2> HIDE DEF c, pos, len
  <2>4. Framed(r, n, c) /\ Kept(r, q, n - 1, Extents)
    BY <1>3, <2>1, <2>2, <2>3, Stamped
  <2> QED BY <2>4 DEF c
<1>8. Begins(r, h, body, n)
  <2>1. Kept(r, b, n - 1, Extents)
    BY <1>3, <1>7 DEF Kept
  <2>2. r \in Seq(Byte) /\ Len(r) = n + CookieLen(<<x>>)
    BY <1>7 DEF Framed
  <2>3. n - 1 <= Len(r)
    BY <1>4, <2>2
  <2> QED BY <1>1, <2>1, <2>2, <2>3, BeginsKept
<1> QED BY <1>3, <1>7, <1>8

\* SetPackCmd and SetSequence, as the server calls them on its answer.
LEMMA StampIs ==
    ASSUME NEW n \in Size, NEW c \in OneCookie, NEW p, Framed(p, n, c), NEW main \in Nat, NEW sq \in Nat,
           NEW r, r = SetSequence(SetPackCmd(p, main, 0), sq)
    PROVE  /\ Framed(r, n, c) /\ Kept(r, p, n - 1, 8 .. 15)
           /\ Slice(r, 7, 2) = Net(main, 2) /\ Slice(r, 9, 2) = Net(0, 2) /\ Slice(r, 11, 4) = Net(sq, 4)
<1> DEFINE t == Net(main, 2)
           u == Net(0, 2)
           s == t \o u
           w == Net(sq, 4)
           q == Put(p, 7, s)
<1>1. /\ t \in Seq(Byte) /\ Len(t) = 2 /\ u \in Seq(Byte) /\ Len(u) = 2
      /\ w \in Seq(Byte) /\ Len(w) = 4
  <2>1. main \in Int /\ 0 \in Int /\ sq \in Int /\ 2 \in 1 .. 8 /\ 4 \in 1 .. 8
    OBVIOUS
  <2> QED BY <2>1, NetBytes
<1>2. r = Put(q, 11, w)
  BY DEF SetSequence, SetPackCmd
<1>3. n \in Nat /\ n >= 31
  BY SizeIs
<1> HIDE DEF t, u, w
<1>4. Both(s, t, u)
  <2>1. Joint(s, t, u)
    BY <1>1 DEF Joint
  <2> HIDE DEF s
  <2> QED BY <2>1, BothJoined
<1> HIDE DEF s
<1>5. /\ s \in Seq(Byte) /\ Len(s) = 4
      /\ \A i \in 1 .. 2 : s[i] = t[i] /\ s[2 + i] = u[i]
  BY <1>1, <1>4 DEF Both, Kept
<1>6. FrameHolds(q, p, n, c, 7, s, 4)
  <2>1. Off({1, 2} \cup Extents, 7, 4)
    BY DEF Off, Extents
  <2>2. FramePut(q, p, n, c, 7, s, 4)
    BY <1>3, <1>5, <2>1 DEF FramePut
  <2> QED BY <2>2, PutFrame
<1> HIDE DEF q
<1>7. Framed(q, n, c) /\ q \in Seq(Byte) /\ n - 1 <= Len(q) /\ \A i \in 1 .. 4 : q[7 + i] = s[i]
  BY <1>6 DEF FrameHolds
<1>8. FrameHolds(r, q, n, c, 11, w, 4)
  <2>1. Off({1, 2} \cup Extents, 11, 4)
    BY DEF Off, Extents
  <2>2. FramePut(r, q, n, c, 11, w, 4)
    BY <1>1, <1>2, <1>3, <1>7, <2>1 DEF FramePut
  <2> QED BY <2>2, PutFrame
<1>9. Framed(r, n, c) /\ Slice(r, 11, 4) = w /\ Kept(r, q, n - 1, 12 .. 15)
  <2>1. 11 + 1 = 12 /\ 11 + 4 = 15
    OBVIOUS
  <2> QED BY <1>8, <2>1 DEF FrameHolds
<1>10. Kept(r, p, n - 1, 8 .. 15)
  <2>1. 7 + 1 = 8 /\ 7 + 4 = 11 /\ (8 .. 11) \cup (12 .. 15) = 8 .. 15
    OBVIOUS
  <2>2. Kept(q, p, n - 1, 8 .. 11)
    BY <1>6, <2>1 DEF FrameHolds
  <2>3. Kept(r, p, n - 1, (8 .. 11) \cup (12 .. 15))
    BY <1>9, <2>2, KeptTwice
  <2> QED BY <2>1, <2>3
<1>11. Slice(q, 7, 2) = t
  <2>1. \A i \in 1 .. Len(t) : q[7 + i] = t[i]
    BY <1>1, <1>5, <1>7
  <2>2. 7 \in Nat /\ 7 + Len(t) <= Len(q)
    BY <1>1, <1>3, <1>7
  <2>3. Slice(q, 7, Len(t)) = t
    BY <1>1, <1>7, <2>1, <2>2, WholeSlice
  <2> QED BY <1>1, <2>3
<1>12. Slice(q, 9, 2) = u
  <2>1. ASSUME NEW i \in 1 .. Len(u) PROVE q[9 + i] = u[i]
    <3>1. i \in 1 .. 2 /\ 2 + i \in 1 .. 4 /\ 7 + (2 + i) = 9 + i
      BY <1>1
    <3>2. q[7 + (2 + i)] = s[2 + i]
      BY <1>7, <3>1
    <3> QED BY <1>5, <3>1, <3>2
  <2>2. 9 \in Nat /\ 9 + Len(u) <= Len(q)
    BY <1>1, <1>3, <1>7
  <2>3. Slice(q, 9, Len(u)) = u
    BY <1>1, <1>7, <2>1, <2>2, WholeSlice
  <2> QED BY <1>1, <2>3
<1>13. Off(12 .. 15, 7, 2) /\ Off(12 .. 15, 9, 2)
  BY DEF Off
<1>14. Slice(r, 7, 2) = t
  <2>1. 7 \in Nat /\ 2 \in Nat /\ 7 + 2 <= n - 1
    BY <1>3
  <2>2. Slice(r, 7, 2) = Slice(q, 7, 2)
    BY <1>7, <1>9, <1>13, <2>1, FrameSlice
  <2> QED BY <1>11, <2>2
<1>15. Slice(r, 9, 2) = u
  <2>1. 9 \in Nat /\ 2 \in Nat /\ 9 + 2 <= n - 1
    BY <1>3
  <2>2. Slice(r, 9, 2) = Slice(q, 9, 2)
    BY <1>7, <1>9, <1>13, <2>1, FrameSlice
  <2> QED BY <1>12, <2>2
<1> QED BY <1>9, <1>10, <1>14, <1>15 DEF t, u, w

\* A packet on its way as soon as both it and the one it was are stamped.
LEMMA StampTravels ==
    ASSUME NEW n \in Size, NEW c \in OneCookie, NEW k \in OneKey, NEW p, NEW o,
           Framed(p, n, c), Framed(o, n, <<>>), Written(p, 0), Carries(p, o, n, k),
           NEW main \in Nat, NEW sq \in Nat,
           NEW r, r = SetSequence(SetPackCmd(p, main, 0), sq),
           NEW e, e = SetSequence(SetPackCmd(o, main, 0), sq)
    PROVE  Travels(r, e, n, c, k, 0)
<1>1. <<>> \in OneCookie /\ 0 \in Byte /\ n \in Nat /\ n >= 31
  BY RadixAssumption, SizeIs DEF OneCookie, Byte
<1>2. /\ Framed(r, n, c) /\ Kept(r, p, n - 1, 8 .. 15)
      /\ Slice(r, 7, 2) = Net(main, 2) /\ Slice(r, 9, 2) = Net(0, 2) /\ Slice(r, 11, 4) = Net(sq, 4)
  BY StampIs
<1>3. /\ Framed(e, n, <<>>) /\ Kept(e, o, n - 1, 8 .. 15)
      /\ Slice(e, 7, 2) = Net(main, 2) /\ Slice(e, 9, 2) = Net(0, 2) /\ Slice(e, 11, 4) = Net(sq, 4)
  BY <1>1, StampIs
<1>4. SameCall(r, e)
  BY <1>2, <1>3 DEF SameCall
<1> DEFINE T == 8 .. 15
<1>5. Off(T, 15, 4) /\ Off(T, 25, 1) /\ Off(T, 23, 1)
  BY DEF Off
<1>6. Off(T, 29, n - 30)
  BY <1>1 DEF Off
<1>6a. Kept(r, p, n - 1, T) /\ Kept(e, o, n - 1, T)
  BY <1>2, <1>3
<1> HIDE DEF T
<1>7. Written(r, 0)
  BY <1>2, <1>5, <1>6a, WrittenKept
<1>8. Carries(r, o, n, k)
  BY <1>2, <1>5, <1>6, <1>6a, CarriesKept
<1>9. Slice(e, 29, n - 30) = Slice(o, 29, n - 30)
  <2>1. 29 \in Nat /\ n - 30 \in Nat /\ 29 + (n - 30) <= n - 1
    BY <1>1
  <2> QED BY <1>1, <1>3, <1>6, <1>6a, <2>1, FrameSlice
<1>10. Carries(r, e, n, k)
  BY <1>8, <1>9 DEF Carries
<1>11. e \in Seq(Byte) /\ Len(e) = n
  BY <1>1, <1>3 DEF Framed, CookieLen
<1> QED BY <1>1, <1>2, <1>4, <1>7, <1>10, <1>11 DEF Travels

\* A request sets out as it was made.
LEMMA RequestTravels ==
    ASSUME NEW h \in Headers, NEW body \in Seq(Byte), NEW n \in Size, n = 30 + Len(body),
           NEW q, q = GetPack(h, body)
    PROVE  Travels(q, q, n, <<>>, <<>>, 0)
<1>1. Framed(q, n, <<>>) /\ Begins(q, h, body, n)
  BY PackIs
<1>2. <<>> \in OneCookie /\ <<>> \in OneKey /\ 0 \in Byte /\ n \in Nat
  BY RadixAssumption, SizeIs DEF OneCookie, OneKey, Byte
<1>3. q \in Seq(Byte) /\ Len(q) = n
  BY <1>1, <1>2 DEF Framed, CookieLen
<1>4. Written(q, 0)
  BY <1>1 DEF Begins, Written
<1>5. SameCall(q, q) /\ Carries(q, q, n, <<>>)
  BY DEF SameCall, Carries
<1> QED BY <1>1, <1>2, <1>3, <1>4, <1>5 DEF Travels

\* The headers of the server's answers.
LEMMA AnswerHeaders ==
    ASSUME NEW tea, tea = [MsgHeader EXCEPT !.enc_type = ENC_TYPE_TEA]
    PROVE  /\ MsgHeader \in Headers /\ tea \in Headers
           /\ tea.enc_type = ENC_TYPE_TEA
BY DEF MsgHeader, Headers

\* A body under the mark of its packet.
LEMMA BeginsSay ==
    ASSUME NEW q, NEW h, NEW body, NEW n, Begins(q, h, body, n)
    PROVE  Written(q, 0) /\ q[24] = h.enc_type /\ Slice(q, 29, n - 30) = body
BY DEF Begins, Written

\* An answer that the server hands out plain, with a cookie, or encrypted.
LEMMA AnswerTravels ==
    ASSUME NEW body \in Seq(Byte), NEW n \in Size, n = 30 + Len(body),
           NEW main \in Nat, NEW sq \in Nat,
           NEW c \in OneCookie, NEW k \in OneKey, c = <<>> \/ k = <<>>,
           NEW tea, tea = [MsgHeader EXCEPT !.enc_type = ENC_TYPE_TEA],
           NEW p, p = (IF k # <<>> THEN GetPackKey(tea, body, k[1])
                       ELSE IF c # <<>> THEN GetPackCookie(MsgHeader, body, c[1])
                       ELSE GetPack(MsgHeader, body)),
           NEW o, o = GetPack(MsgHeader, body),
           NEW r, r = SetSequence(SetPackCmd(p, main, 0), sq),
           NEW e, e = SetSequence(SetPackCmd(o, main, 0), sq)
    PROVE  Travels(r, e, n, c, k, 0)
<1>0. MsgHeader \in Headers /\ tea \in Headers /\ tea.enc_type = ENC_TYPE_TEA
  BY AnswerHeaders
<1> DEFINE h == MsgHeader
<1> HIDE DEF h
<1>1. h \in Headers /\ o = GetPack(h, body)
  BY <1>0 DEF h
<1>2. Framed(o, n, <<>>) /\ Begins(o, h, body, n)
  BY <1>1, PackIs
<1>3. Slice(o, 29, n - 30) = body
  BY <1>2, BeginsSay
<1>4. Framed(p, n, c) /\ Written(p, 0) /\ Carries(p, o, n, k)
  <2>1. CASE k = <<>> /\ c = <<>>
    <3>1. p = o
      BY <2>1
    <3>2. Written(o, 0)
      BY <1>2, BeginsSay
    <3>3. Carries(p, o, n, k)
      BY <2>1, <3>1 DEF Carries
    <3> QED BY <1>2, <2>1, <3>1, <3>2, <3>3
  <2>2. CASE k = <<>> /\ c # <<>>
    <3>1. p = GetPackCookie(h, body, c[1])
      BY <2>2 DEF h
    <3>2. c[1] \in Seq(Byte) /\ Len(c[1]) <= MaxWord /\ c = <<c[1]>>
      BY <2>2, CookieIs
    <3>3. Framed(p, n, <<c[1]>>) /\ Begins(p, h, body, n)
      BY <1>1, <3>1, <3>2, CookiePackIs
    <3>4. Written(p, 0) /\ Slice(p, 29, n - 30) = body
      BY <3>3, BeginsSay
    <3>5. Carries(p, o, n, k)
      BY <1>3, <2>2, <3>4 DEF Carries
    <3> QED BY <3>2, <3>3, <3>4, <3>5
  <2>3. CASE k # <<>>
    <3>1. c = <<>> /\ k[1] \in Nat
      BY <2>3 DEF OneKey
    <3> DEFINE b == Xxtea(body, k[1], 1)
    <3>2. p = GetPack(tea, b)
      BY <1>0, <2>3 DEF GetPackKey
    <3> HIDE DEF b
    <3>3. b \in Seq(Byte) /\ Len(b) = Len(body)
      <4>1. 1 \in {1, -1}
        OBVIOUS
      <4> QED BY <3>1, <4>1, XxteaIs DEF b
    <3>4. n = 30 + Len(b)
      BY <3>3
    <3>5. Framed(p, n, <<>>) /\ Begins(p, tea, b, n)
      BY <1>0, <3>2, <3>3, <3>4, PackIs
    <3>6. Written(p, 0) /\ p[24] = tea.enc_type /\ Slice(p, 29, n - 30) = b
      BY <3>5 DEF Begins, Written
    <3>7. Carries(p, o, n, k)
      BY <1>0, <1>3, <2>3, <3>6 DEF Carries, b
    <3> QED BY <3>1, <3>5, <3>6, <3>7
  <2> QED BY <2>1, <2>2, <2>3
<1> QED BY <1>2, <1>4, StampTravels

-----------------------------------------------------------------------------
(* What requests and answers put in their packets                          *)

\* what a packer is called with
Chunks == Seq(Seq(Byte))

\* Calls, and one of them with a Word.
HasWord(x) == x \in Chunks /\ \E j \in 1 .. Len(x) : Len(x[j]) = 2

\* Calls behind calls.
LEMMA MoreChunks ==
    ASSUME NEW x \in Chunks, NEW y \in Chunks
    PROVE  x \o y \in Chunks
BY ConcatProperties DEF Chunks

\* A Word stays among calls when others precede it.
LEMMA WordBehind ==
    ASSUME NEW x \in Chunks, NEW y, HasWord(y)
    PROVE  HasWord(x \o y)
<1>1. y \in Chunks /\ \E j \in 1 .. Len(y) : Len(y[j]) = 2
  BY DEF HasWord
<1>2. PICK j \in 1 .. Len(y) : Len(y[j]) = 2
  BY <1>1
<1> DEFINE z == x \o y
<1>3. z \in Chunks
  BY <1>1, MoreChunks
<1>4. /\ Len(x) \in Nat /\ Len(y) \in Nat /\ Len(z) = Len(x) + Len(y)
      /\ \A i \in 1 .. Len(y) : z[Len(x) + i] = y[i]
  <2>1. x \in Seq(Seq(Byte)) /\ y \in Seq(Seq(Byte)) /\ z = x \o y
    BY <1>1 DEF Chunks
  <2>2. Len(x) \in Nat /\ Len(y) \in Nat
    BY <2>1
  <2> HIDE DEF z
  <2> QED BY <2>1, <2>2, JoinIs
<1> HIDE DEF z
<1>5. Len(x) + j \in 1 .. Len(z) /\ z[Len(x) + j] = y[j]
  BY <1>4
<1>6. \E i \in 1 .. Len(z) : Len(z[i]) = 2
  BY <1>2, <1>5
<1>7. HasWord(z)
  BY <1>3, <1>6 DEF HasWord
<1> QED BY <1>7 DEF z

\* What each element becomes is a list.
LEMMA ListOf ==
    ASSUME NEW T, NEW m \in Nat, NEW f, DOMAIN f = 1 .. m, f = [i \in 1 .. m |-> f[i]],
           \A i \in 1 .. m : f[i] \in T
    PROVE  f \in Seq(T)
<1>1. f \in [1 .. m -> T]
  OBVIOUS
<1> QED BY <1>1

\* Calls for each element, one after the other.
LEMMA FlatChunks ==
    ASSUME NEW s \in Seq(Chunks)
    PROVE  FlattenSeq(s) \in Chunks
<1>1. s \in Seq(Seq(Seq(Byte)))
  BY DEF Chunks
<1> DEFINE S == Seq(Byte)
<1>2. s \in Seq(Seq(S))
  BY <1>1
<1> HIDE DEF S
<1>3. FlattenSeq(s) \in Seq(S)
  BY <1>2, FlattenType
<1> QED BY <1>3 DEF S, Chunks

\* The calls of the packer with numbers.
LEMMA NumChunks ==
    ASSUME NEW v \in Nat
    PROVE  /\ PackByte(v) \in Seq(Byte) /\ PackWord(v) \in Seq(Byte) /\ PackDWord(v) \in Seq(Byte)
           /\ PackQWord(v) \in Seq(Byte) /\ PackReal(v) \in Seq(Byte)
           /\ Len(PackWord(v)) = 2
<1>0. v \in Int /\ 1 \in 1 .. 8 /\ 2 \in 1 .. 8 /\ 4 \in 1 .. 8 /\ 8 \in 1 .. 8 /\ (v \div 2) + 1 \in Int
  OBVIOUS
<1>1. /\ PackByte(v) \in Seq(Byte) /\ PackWord(v) \in Seq(Byte) /\ PackDWord(v) \in Seq(Byte)
      /\ PackQWord(v) \in Seq(Byte) /\ Len(PackWord(v)) = 2
  BY <1>0, NetBytes DEF PackByte, PackWord, PackDWord, PackQWord
<1>2. RealText(v) \in Seq(Byte)
  BY <1>0, NetBytes DEF RealText
<1>3. 0 \in Byte
  BY RadixAssumption DEF Byte
<1>4. <<0>> \in Seq(Byte)
  BY <1>3
<1>5. RealText(v) \o <<0>> \in Seq(Byte)
  BY <1>2, <1>4, ConcatProperties
<1>6. PackReal(v) \in Seq(Byte)
  BY <1>5 DEF PackReal, PackString, STR_END
<1> QED BY <1>1, <1>6

\* One call to three.
LEMMA FewChunks ==
    ASSUME NEW a \in Seq(Byte), NEW b \in Seq(Byte), NEW d \in Seq(Byte), NEW e \in Seq(Byte)
    PROVE  <<a>> \in Chunks /\ <<a, b>> \in Chunks /\ <<a, b, d>> \in Chunks /\ <<a, b, d, e>> \in Chunks
           /\ <<>> \in Chunks
BY DEF Chunks

\* The calls of PackTLV.
LEMMA TLVChunks ==
    ASSUME NEW t \in TLVs
    PROVE  PackTLV(t) \in Chunks
<1>1. /\ t.type \in Nat /\ t.length \in Nat /\ t.int \in Nat /\ t.real \in Nat /\ t.str \in Seq(Byte)
  BY DEF TLVs
<1>2. /\ PackByte(t.type) \in Seq(Byte) /\ PackDWord(t.length) \in Seq(Byte)
      /\ PackByte(t.int) \in Seq(Byte) /\ PackWord(t.int) \in Seq(Byte) /\ PackDWord(t.int) \in Seq(Byte)
      /\ PackQWord(t.int) \in Seq(Byte) /\ PackReal(t.real) \in Seq(Byte)
      /\ PackBinary(t.str) \in Seq(Byte)
  BY <1>1, NumChunks DEF PackBinary
<1>3. <<PackByte(t.type), PackDWord(t.length)>> \in Chunks
  BY <1>2, FewChunks
<1> DEFINE v == CASE t.type = TLV_BYTE  -> <<PackByte(t.int)>>
                  [] t.type = TLV_WORD  -> <<PackWord(t.int)>>
                  [] t.type = TLV_DWORD -> <<PackDWord(t.int)>>
                  [] t.type = TLV_QWORD -> <<PackQWord(t.int)>>
                  [] t.type = TLV_REAL  -> <<PackReal(t.real)>>
                  [] t.type \in {TLV_STRING, TLV_BINARY} -> <<PackBinary(t.str)>>
                  [] OTHER -> <<>>
<1>4. /\ <<PackByte(t.int)>> \in Chunks /\ <<PackWord(t.int)>> \in Chunks
      /\ <<PackDWord(t.int)>> \in Chunks /\ <<PackQWord(t.int)>> \in Chunks
      /\ <<PackReal(t.real)>> \in Chunks /\ <<PackBinary(t.str)>> \in Chunks /\ <<>> \in Chunks
  <2>1. <<>> \in Chunks /\ \A a \in Seq(Byte) : <<a>> \in Chunks
    BY DEF Chunks
  <2>2. <<PackByte(t.int)>> \in Chunks /\ <<PackWord(t.int)>> \in Chunks
    BY <1>2, <2>1
  <2>3. <<PackDWord(t.int)>> \in Chunks /\ <<PackQWord(t.int)>> \in Chunks
    BY <1>2, <2>1
  <2>4. <<PackReal(t.real)>> \in Chunks /\ <<PackBinary(t.str)>> \in Chunks
    BY <1>2, <2>1
  <2> QED BY <2>1, <2>2, <2>3, <2>4
<1>5. v \in Chunks
  BY <1>4 DEF TLV_BYTE, TLV_WORD, TLV_DWORD, TLV_QWORD, TLV_REAL, TLV_STRING, TLV_BINARY
<1> HIDE DEF v
<1>6. <<PackByte(t.type), PackDWord(t.length)>> \o v \in Chunks
  BY <1>3, <1>5, MoreChunks
<1> QED BY <1>6 DEF PackTLV, v

\* The members of a request object that all classes have.
Parts(r) ==
    /\ r.cookie \in Seq(Byte) /\ r.conds \in Seq(Conditions) /\ r.logic \in Seq(Byte)
    /\ r.rets \in Seq(Nat) /\ r.sets \in Seq(Conditions)
    /\ r.timeout \in Nat /\ r.limit \in Nat /\ r.status \in Nat

\* The calls for one condition, or one value to set.
LEMMA ConditionChunks ==
    ASSUME NEW c \in Conditions
    PROVE  /\ <<PackDWord(c.field), PackByte(c.op)>> \o PackTLV(c.data) \in Chunks
           /\ <<PackDWord(c.field), PackWord(c.op)>> \o PackTLV(c.data) \in Chunks
           /\ <<PackDWord(c.field)>> \o PackTLV(c.data) \in Chunks
<1>1. c.field \in Nat /\ c.op \in Nat /\ c.data \in TLVs
  BY DEF Conditions
<1>2. PackTLV(c.data) \in Chunks
  BY <1>1, TLVChunks
<1>3. PackDWord(c.field) \in Seq(Byte) /\ PackByte(c.op) \in Seq(Byte) /\ PackWord(c.op) \in Seq(Byte)
  BY <1>1, NumChunks
<1>4. /\ <<PackDWord(c.field), PackByte(c.op)>> \in Chunks
      /\ <<PackDWord(c.field), PackWord(c.op)>> \in Chunks
      /\ <<PackDWord(c.field)>> \in Chunks
  BY <1>3, FewChunks
<1> QED BY <1>2, <1>4, MoreChunks

\* The number of conditions, and the conditions.
LEMMA CondsChunks ==
    ASSUME NEW r, Parts(r)
    PROVE  PackConds(r) \in Chunks
<1>1. r.conds \in Seq(Conditions) /\ Len(r.conds) \in Nat
  BY DEF Parts
<1> DEFINE f == Each(r.conds, LAMBDA c : <<PackDWord(c.field), PackByte(c.op)>> \o PackTLV(c.data))
           m == Len(r.conds)
<1>2. f = [i \in 1 .. m |-> f[i]] /\ DOMAIN f = 1 .. m
  BY <1>1 DEF Each
<1>3. ASSUME NEW i \in 1 .. m PROVE f[i] \in Chunks
  <2>1. r.conds[i] \in Conditions
    BY <1>1
  <2>2. f[i] = <<PackDWord(r.conds[i].field), PackByte(r.conds[i].op)>> \o PackTLV(r.conds[i].data)
    BY <1>1 DEF Each
  <2> QED BY <2>1, <2>2, ConditionChunks
<1> HIDE DEF f
<1>4. f \in Seq(Chunks)
  BY <1>1, <1>2, <1>3, ListOf
<1>5. FlattenSeq(f) \in Chunks
  BY <1>4, FlatChunks
<1>6. PackWord(m) \in Seq(Byte)
  BY <1>1, NumChunks
<1>7. <<PackWord(m)>> \in Chunks
  BY <1>6, FewChunks
<1>8. <<PackWord(m)>> \o FlattenSeq(f) \in Chunks
  BY <1>5, <1>7, MoreChunks
<1> QED BY <1>8 DEF PackConds, f

\* The number of values to set, and the values.
LEMMA SetsChunks ==
    ASSUME NEW r, Parts(r)
    PROVE  PackSets(r) \in Chunks
<1>1. r.sets \in Seq(Conditions) /\ Len(r.sets) \in Nat
  BY DEF Parts
<1> DEFINE f == Each(r.sets, LAMBDA c : <<PackDWord(c.field)>> \o PackTLV(c.data))
           m == Len(r.sets)
<1>2. f = [i \in 1 .. m |-> f[i]] /\ DOMAIN f = 1 .. m
  BY <1>1 DEF Each
<1>3. ASSUME NEW i \in 1 .. m PROVE f[i] \in Chunks
  <2>1. r.sets[i] \in Conditions
    BY <1>1
  <2>2. f[i] = <<PackDWord(r.sets[i].field)>> \o PackTLV(r.sets[i].data)
    BY <1>1 DEF Each
  <2> QED BY <2>1, <2>2, ConditionChunks
<1> HIDE DEF f
<1>4. f \in Seq(Chunks)
  BY <1>1, <1>2, <1>3, ListOf
<1>5. FlattenSeq(f) \in Chunks
  BY <1>4, FlatChunks
<1>6. PackWord(m) \in Seq(Byte)
  BY <1>1, NumChunks
<1>7. <<PackWord(m)>> \in Chunks
  BY <1>6, FewChunks
<1>8. <<PackWord(m)>> \o FlattenSeq(f) \in Chunks
  BY <1>5, <1>7, MoreChunks
<1> QED BY <1>8 DEF PackSets, f

\* Bytes with their length before them.
LEMMA WithLengthChunks ==
    ASSUME NEW k \in Seq(Byte)
    PROVE  HasWord(WithLength(k))
<1> DEFINE n == Len(k) % (MaxWord + 1)
<1>1. k \in Seq(Byte) /\ Len(k) \in Nat
  OBVIOUS
<1>2. MaxWord \in Nat /\ MaxWord + 1 \in Nat \ {0}
  BY FieldsFit
<1>3. n \in Nat /\ n <= Len(k)
  <2> DEFINE l == Len(k)
             w == MaxWord + 1
  <2>1. l \in Nat /\ w \in Nat \ {0}
    BY <1>1, <1>2
  <2> HIDE DEF l, w
  <2>2. l % w \in 0 .. w - 1
    BY <2>1, ModRange
  <2>3. CASE l < w
    BY <2>1, <2>3, SmallMod DEF l, w
  <2>4. CASE ~(l < w)
    BY <2>1, <2>2, <2>4 DEF l, w
  <2> QED BY <2>3, <2>4
<1> HIDE DEF n
<1>4. SubSeq(k, 1, n) \in Seq(Byte)
  <2>1. \A i \in 1 .. n : k[i] \in Byte
    BY <1>1, <1>3
  <2> QED BY <1>1, <1>3, <2>1, SubSeqProperties
<1>5. PackWord(n) \in Seq(Byte) /\ Len(PackWord(n)) = 2
  BY <1>3, NumChunks
<1> DEFINE x == <<PackWord(n), SubSeq(k, 1, n)>>
<1>6. x \in Chunks
  BY <1>4, <1>5, FewChunks
<1>7. Len(x[1]) = 2 /\ 1 \in 1 .. Len(x)
  BY <1>5
<1>8. HasWord(x)
  BY <1>6, <1>7 DEF HasWord
<1>9. WithLength(k) = x
  BY DEF WithLength, PackBinary, n
<1> QED BY <1>8, <1>9

\* The cookie ends every request, with its length before it.
LEMMA CookieChunks ==
    ASSUME NEW r, r.cookie \in Seq(Byte)
    PROVE  HasWord(PackCookie(r))
BY WithLengthChunks DEF PackCookie

\* The logic expression, and the flag that the answer is waited for.
LEMMA LogicChunks ==
    ASSUME NEW r, Parts(r)
    PROVE  PackLogicExp(r) \in Chunks /\ SyncFlag(r) \in Chunks
<1>1. r.logic \in Seq(Byte)
  BY DEF Parts
<1>2. PackWord(0) \in Seq(Byte) /\ PackWord(1) \in Seq(Byte)
  BY NumChunks
<1>3. <<PackWord(0)>> \in Chunks /\ <<PackWord(1)>> \in Chunks
  BY <1>2, FewChunks
<1>4. PackLogicExp(r) \in Chunks
  BY <1>1, WithLengthChunks DEF PackLogicExp, HasWord
<1>5. SyncFlag(r) = <<PackWord(0)>> \/ SyncFlag(r) = <<PackWord(1)>>
  BY DEF SyncFlag, SYNC_FLAG_MASK
<1> QED BY <1>3, <1>4, <1>5

\* The fields a query asks for.
LEMMA RetsChunks ==
    ASSUME NEW r, Parts(r)
    PROVE  Each(r.rets, LAMBDA id : PackDWord(id)) \in Chunks
<1>1. r.rets \in Seq(Nat) /\ Len(r.rets) \in Nat
  BY DEF Parts
<1> DEFINE f == Each(r.rets, LAMBDA id : PackDWord(id))
           m == Len(r.rets)
<1>2. f = [i \in 1 .. m |-> f[i]] /\ DOMAIN f = 1 .. m
  BY <1>1 DEF Each
<1>3. ASSUME NEW i \in 1 .. m PROVE f[i] \in Seq(Byte)
  <2>1. r.rets[i] \in Nat
    BY <1>1
  <2>2. f[i] = PackDWord(r.rets[i])
    BY <1>1 DEF Each
  <2> QED BY <2>1, <2>2, NumChunks
<1> HIDE DEF f
<1>4. f \in Seq(Seq(Byte))
  <2> DEFINE S == Seq(Byte)
  <2>1. \A i \in 1 .. m : f[i] \in S
    BY <1>3
  <2> HIDE DEF S
  <2>2. f \in Seq(S)
    BY <1>1, <1>2, <2>1, ListOf
  <2> QED BY <2>2 DEF S
<1> QED BY <1>4 DEF f, Chunks

\* The calls of the class that finds by conditions, up to the cookie.
LEMMA FindChunks ==
    ASSUME NEW r, Parts(r)
    PROVE  HasWord(CondFindReq(r))
<1>1. r.conds \in Seq(Conditions) /\ Len(r.conds) \in Nat /\ r.limit \in Nat /\ r.status \in Nat
      /\ r.cookie \in Seq(Byte)
  BY DEF Parts
<1> DEFINE f == Each(r.conds, LAMBDA c : <<PackDWord(c.field), PackWord(c.op)>> \o PackTLV(c.data))
           m == Len(r.conds)
<1>2. f = [i \in 1 .. m |-> f[i]] /\ DOMAIN f = 1 .. m
  BY <1>1 DEF Each
<1>3. ASSUME NEW i \in 1 .. m PROVE f[i] \in Chunks
  <2>1. r.conds[i] \in Conditions
    BY <1>1
  <2>2. f[i] = <<PackDWord(r.conds[i].field), PackWord(r.conds[i].op)>> \o PackTLV(r.conds[i].data)
    BY <1>1 DEF Each
  <2> QED BY <2>1, <2>2, ConditionChunks
<1> HIDE DEF f
<1>4. f \in Seq(Chunks)
  BY <1>1, <1>2, <1>3, ListOf
<1>5. FlattenSeq(f) \in Chunks
  BY <1>4, FlatChunks
<1>6. PackWord(r.limit) \in Seq(Byte) /\ PackWord(r.status) \in Seq(Byte) /\ PackWord(m) \in Seq(Byte)
  BY <1>1, NumChunks
<1> DEFINE a == <<PackWord(r.limit), PackWord(r.status), PackWord(m)>>
<1>7. a \in Chunks
  BY <1>6, FewChunks
<1> HIDE DEF a
<1>8. a \o FlattenSeq(f) \in Chunks
  BY <1>5, <1>7, MoreChunks
<1>9. HasWord((a \o FlattenSeq(f)) \o PackCookie(r))
  BY <1>1, <1>8, CookieChunks, WordBehind
<1> QED BY <1>9 DEF CondFindReq, f, a

\* The calls of the other classes of simple requests.
LEMMA QueryChunks ==
    ASSUME NEW r, Parts(r)
    PROVE  HasWord(QueryReq(r))
<1>1. r.cookie \in Seq(Byte) /\ Len(r.rets) \in Nat
  BY DEF Parts
<1> DEFINE a == <<PackWord(IF r.primary THEN PRIMARY_KEY_FLAG_MASK ELSE 0)>>
           b == <<PackWord(Len(r.rets))>>
           d == Each(r.rets, LAMBDA id : PackDWord(id))
<1>2. a \in Chunks /\ b \in Chunks
  <2>1. PackWord(2) \in Seq(Byte) /\ PackWord(0) \in Seq(Byte) /\ PackWord(Len(r.rets)) \in Seq(Byte)
    BY <1>1, NumChunks
  <2>2. <<PackWord(2)>> \in Chunks /\ <<PackWord(0)>> \in Chunks /\ b \in Chunks
    BY <2>1, FewChunks
  <2>3. a = <<PackWord(2)>> \/ a = <<PackWord(0)>>
    BY DEF PRIMARY_KEY_FLAG_MASK
  <2> QED BY <2>2, <2>3
<1>3. d \in Chunks /\ PackConds(r) \in Chunks /\ PackLogicExp(r) \in Chunks
  BY RetsChunks, CondsChunks, LogicChunks
<1>4. HasWord(PackCookie(r))
  BY <1>1, CookieChunks
<1>q. QueryReq(r) = ((((a \o PackConds(r)) \o PackLogicExp(r)) \o b) \o d) \o PackCookie(r)
  BY DEF QueryReq
<1> HIDE DEF a, b, d
<1>5. a \o PackConds(r) \in Chunks
  BY <1>2, <1>3, MoreChunks
<1>6. (a \o PackConds(r)) \o PackLogicExp(r) \in Chunks
  BY <1>3, <1>5, MoreChunks
<1>7. ((a \o PackConds(r)) \o PackLogicExp(r)) \o b \in Chunks
  BY <1>2, <1>6, MoreChunks
<1>8. (((a \o PackConds(r)) \o PackLogicExp(r)) \o b) \o d \in Chunks
  BY <1>3, <1>7, MoreChunks
<1> QED BY <1>4, <1>8, <1>q, WordBehind

\* The calls of all simple requests.
LEMMA SimpleChunks ==
    ASSUME NEW r, Parts(r),
           r.header.main_cmd \in {INSERT_MAIN_CMD, UPDATE_MAIN_CMD, DELETE_MAIN_CMD, QUERY_MAIN_CMD,
                                  COUNT_MAIN_CMD, DELTA_MAIN_CMD, COND_FIND_MAIN_CMD}
    PROVE  HasWord(SimpleReq(r))
<1> DEFINE F == SyncFlag(r)
           C == PackConds(r)
           L == PackLogicExp(r)
           S == PackSets(r)
           K == PackCookie(r)
           Z == <<PackWord(0)>>
<1>1. F \in Chunks /\ C \in Chunks /\ L \in Chunks /\ S \in Chunks
  BY CondsChunks, LogicChunks, SetsChunks
<1>2. HasWord(K)
  <2>1. r.cookie \in Seq(Byte)
    BY DEF Parts
  <2> QED BY <2>1, CookieChunks
<1>3. Z \in Chunks
  <2>1. PackWord(0) \in Seq(Byte)
    BY NumChunks
  <2> QED BY <2>1, FewChunks
<1>4. /\ UpdateReq(r) = (((F \o C) \o L) \o S) \o K
      /\ InsertReq(r) = (F \o S) \o K
      /\ DeleteReq(r) = ((F \o C) \o L) \o K
      /\ CountReq(r) = ((Z \o C) \o L) \o K
  BY DEF UpdateReq, InsertReq, DeleteReq, CountReq
<1> HIDE DEF F, C, L, S, K, Z
<1>5. F \o C \in Chunks /\ F \o S \in Chunks /\ Z \o C \in Chunks
  BY <1>1, <1>3, MoreChunks
<1>6. (F \o C) \o L \in Chunks /\ (Z \o C) \o L \in Chunks
  BY <1>1, <1>5, MoreChunks
<1>7. ((F \o C) \o L) \o S \in Chunks
  BY <1>1, <1>6, MoreChunks
<1>8. HasWord(UpdateReq(r)) /\ HasWord(InsertReq(r)) /\ HasWord(DeleteReq(r)) /\ HasWord(CountReq(r))
  BY <1>2, <1>4, <1>5, <1>6, <1>7, WordBehind
<1>9. HasWord(QueryReq(r)) /\ HasWord(CondFindReq(r))
  BY QueryChunks, FindChunks
<1> HIDE DEF Parts
<1> QED
  BY <1>8, <1>9 DEF SimpleReq, INSERT_MAIN_CMD, UPDATE_MAIN_CMD, DELETE_MAIN_CMD, QUERY_MAIN_CMD,
                    COUNT_MAIN_CMD, DELTA_MAIN_CMD, COND_FIND_MAIN_CMD

\* The request objects of all classes.
AllRequests == SimpleRequests \cup DpComboRequests \cup AppComboRequests

\* The commands of simple requests.
SimpleCmds == {INSERT_MAIN_CMD, UPDATE_MAIN_CMD, DELETE_MAIN_CMD, QUERY_MAIN_CMD,
               COUNT_MAIN_CMD, DELTA_MAIN_CMD, COND_FIND_MAIN_CMD}

\* What a request object has, whatever its class.
LEMMA RequestIs ==
    ASSUME NEW headers, NEW objects, NEW r \in RequestsOf(headers, objects)
    PROVE  Parts(r) /\ r.header \in headers /\ r.subs \in objects
BY DEF RequestsOf, Parts

\* Headers of requests are headers.
LEMMA HeadersAre ==
    ASSUME NEW main, main \subseteq Nat, NEW sub \in Nat, NEW h \in HeadersOf(main, sub)
    PROVE  h \in Headers /\ h.main_cmd \in main /\ h.sub_cmd = sub
BY DEF HeadersOf, Headers

\* Simple requests.
LEMMA SimpleIs ==
    ASSUME NEW r \in SimpleRequests
    PROVE  Parts(r) /\ r.header \in Headers /\ r.header.main_cmd \in SimpleCmds
<1>1. SimpleCmds \subseteq Nat /\ 0 \in Nat
  BY DEF SimpleCmds, INSERT_MAIN_CMD, UPDATE_MAIN_CMD, DELETE_MAIN_CMD, QUERY_MAIN_CMD,
         COUNT_MAIN_CMD, DELTA_MAIN_CMD, COND_FIND_MAIN_CMD
<1>2. r \in RequestsOf(HeadersOf(SimpleCmds, 0), {<<>>})
  BY DEF SimpleRequests, SimpleCmds
<1>3. Parts(r) /\ r.header \in HeadersOf(SimpleCmds, 0)
  BY <1>2, RequestIs
<1> QED BY <1>1, <1>3, HeadersAre

\* Combo requests, of both classes.
LEMMA ComboIs ==
    ASSUME NEW r \in DpComboRequests \cup AppComboRequests
    PROVE  /\ Parts(r) /\ r.header \in Headers /\ r.header.main_cmd = COMBO_REQUEST_MAIN_CMD
           /\ r \in DpComboRequests => r.header.sub_cmd = 0 /\ r.subs \in Seq([table : Nat, req : SimpleRequests])
           /\ r \in AppComboRequests => /\ r.header.sub_cmd = COMBO_REQUEST_SUB_CMD
                                        /\ r.subs \in Seq([table : Nat, key : Nat, pack : Seq(Byte)])
<1> DEFINE M == {COMBO_REQUEST_MAIN_CMD}
           D == Seq([table : Nat, req : SimpleRequests])
           A == Seq([table : Nat, key : Nat, pack : Seq(Byte)])
<1>1. M \subseteq Nat /\ 0 \in Nat /\ COMBO_REQUEST_SUB_CMD \in Nat
  BY DEF COMBO_REQUEST_MAIN_CMD, COMBO_REQUEST_SUB_CMD
<1>2. \A h \in M : h = COMBO_REQUEST_MAIN_CMD
  OBVIOUS
<1>3. r \in DpComboRequests => r \in RequestsOf(HeadersOf(M, 0), D)
  BY DEF DpComboRequests
<1>4. r \in AppComboRequests => r \in RequestsOf(HeadersOf(M, COMBO_REQUEST_SUB_CMD), A)
  BY DEF AppComboRequests
<1> HIDE DEF M, D, A
<1>5. CASE r \in DpComboRequests
  <2>1. Parts(r) /\ r.header \in HeadersOf(M, 0) /\ r.subs \in D
    BY <1>3, <1>5, RequestIs
  <2>2. r.header \in Headers /\ r.header.main_cmd \in M /\ r.header.sub_cmd = 0
    BY <1>1, <2>1, HeadersAre
  <2>3. ~(r \in AppComboRequests)
    <3>1. ASSUME r \in AppComboRequests PROVE FALSE
      <4>1. r.header \in HeadersOf(M, COMBO_REQUEST_SUB_CMD)
        BY <1>4, <3>1, RequestIs
      <4>2. r.header.sub_cmd = COMBO_REQUEST_SUB_CMD
        BY <1>1, <4>1, HeadersAre
      <4> QED BY <2>2, <4>2 DEF COMBO_REQUEST_SUB_CMD
    <3> QED BY <3>1
  <2> QED BY <1>2, <2>1, <2>2, <2>3 DEF D
<1>6. CASE ~(r \in DpComboRequests)
  <2>1. Parts(r) /\ r.header \in HeadersOf(M, COMBO_REQUEST_SUB_CMD) /\ r.subs \in A
    BY <1>4, <1>6, RequestIs
  <2>2. r.header \in Headers /\ r.header.main_cmd \in M /\ r.header.sub_cmd = COMBO_REQUEST_SUB_CMD
    BY <1>1, <2>1, HeadersAre
  <2> QED BY <1>2, <1>6, <2>1, <2>2 DEF A
<1> QED BY <1>5, <1>6

\* q is n bytes.
Bytes(q, n) == q \in Seq(Byte) /\ Len(q) = n

\* Bytes behind bytes.
LEMMA BytesJoined ==
    ASSUME NEW q, NEW t, NEW n \in Nat, NEW m \in Nat, NEW k, k = n + m, Bytes(q, n), Bytes(t, m)
    PROVE  Bytes(q \o t, k)
<1>1. q \in Seq(Byte) /\ t \in Seq(Byte) /\ Len(q) = n /\ Len(t) = m
  BY DEF Bytes
<1> DEFINE S == Byte
           z == q \o t
<1>2. z \in Seq(S) /\ Len(z) = Len(q) + Len(t)
  <2>1. q \in Seq(S) /\ t \in Seq(S) /\ z = q \o t
    BY <1>1
  <2> HIDE DEF z, S
  <2> QED BY <2>1, JoinIs
<1> HIDE DEF z
<1>3. Bytes(z, k)
  BY <1>1, <1>2 DEF Bytes
<1> QED BY <1>3 DEF z

\* A packet is bytes, 30 more than its body.
LEMMA PackBytes ==
    ASSUME NEW h \in Headers, NEW body \in Seq(Byte), NEW q, q = GetPack(h, body)
    PROVE  q \in Seq(Byte) /\ Len(q) = 30 + Len(body)
<1> DEFINE m == Len(body)
<1>0. m \in Nat /\ body \in Seq(Byte)
  OBVIOUS
<1>1. /\ h.main_cmd \in Int /\ h.sub_cmd \in Int /\ h.seq \in Int /\ h.from_uin \in Int /\ h.to_uin \in Int
      /\ h.rev \in Int /\ h.soh \in Byte /\ h.main_ver \in Byte /\ h.sub_ver \in Byte
      /\ h.enc_type \in Byte /\ h.source_type \in Byte /\ EOT \in Byte
  BY RadixAssumption DEF Headers, Byte, SOH, MAIN_VER, SUB_VER, EOT, ENC_TYPE_NONE, ENC_TYPE_TEA
<1> DEFINE a0 == <<h.soh, h.main_ver, h.sub_ver>>
           t1 == Net(MSG_HEADER_LEN + m + 1, 4)
           t2 == Net(h.main_cmd, 2)
           t3 == Net(h.sub_cmd, 2)
           t4 == Net(h.seq, 4)
           t5 == Net(h.from_uin, 4)
           t6 == Net(h.to_uin, 4)
           t7 == <<h.enc_type, h.source_type>>
           t8 == Net(h.rev, 4)
           z == <<EOT>>
           a1 == a0 \o t1
           a2 == a1 \o t2
           a3 == a2 \o t3
           a4 == a3 \o t4
           a5 == a4 \o t5
           a6 == a5 \o t6
           a7 == a6 \o t7
           a8 == a7 \o t8
           a9 == a8 \o body
<1>2. Bytes(a0, 3) /\ Bytes(t7, 2) /\ Bytes(z, 1)
  BY <1>1 DEF Bytes
<1>3. /\ Bytes(t1, 4) /\ Bytes(t2, 2) /\ Bytes(t3, 2) /\ Bytes(t4, 4) /\ Bytes(t5, 4)
      /\ Bytes(t6, 4) /\ Bytes(t8, 4) /\ Bytes(body, m)
  <2>1. MSG_HEADER_LEN + m + 1 \in Int /\ 4 \in 1 .. 8 /\ 2 \in 1 .. 8
    BY <1>0 DEF MSG_HEADER_LEN
  <2> HIDE DEF m
  <2> QED BY <1>0, <1>1, <2>1, NetBytes DEF Bytes, m
<1>4. q = a9 \o z
  BY DEF GetPack, PackHeader
<1> HIDE DEF a0, t1, t2, t3, t4, t5, t6, t7, t8, z, m
<1>5. Bytes(a1, 7)
  BY <1>2, <1>3, 3 \in Nat, 4 \in Nat, 7 = 3 + 4, BytesJoined
<1> HIDE DEF a1
<1>6. Bytes(a2, 9)
  BY <1>3, <1>5, 7 \in Nat, 2 \in Nat, 9 = 7 + 2, BytesJoined
<1> HIDE DEF a2
<1>7. Bytes(a3, 11)
  BY <1>3, <1>6, 9 \in Nat, 2 \in Nat, 11 = 9 + 2, BytesJoined
<1> HIDE DEF a3
<1>8. Bytes(a4, 15)
  BY <1>3, <1>7, 11 \in Nat, 4 \in Nat, 15 = 11 + 4, BytesJoined
<1> HIDE DEF a4
<1>9. Bytes(a5, 19)
  BY <1>3, <1>8, 15 \in Nat, 4 \in Nat, 19 = 15 + 4, BytesJoined
<1> HIDE DEF a5
<1>10. Bytes(a6, 23)
  BY <1>3, <1>9, 19 \in Nat, 4 \in Nat, 23 = 19 + 4, BytesJoined
<1> HIDE DEF a6
<1>11. Bytes(a7, 25)
  BY <1>2, <1>10, 23 \in Nat, 2 \in Nat, 25 = 23 + 2, BytesJoined
<1> HIDE DEF a7
<1>12. Bytes(a8, 29)
  BY <1>3, <1>11, 25 \in Nat, 4 \in Nat, 29 = 25 + 4, BytesJoined
<1> HIDE DEF a8
<1>13. Bytes(a9, 29 + m)
  BY <1>0, <1>3, <1>12, 29 \in Nat, BytesJoined
<1> HIDE DEF a9
<1>14. Bytes(a9 \o z, 30 + m)
  <2>1. 29 + m \in Nat /\ 1 \in Nat /\ 30 + m = (29 + m) + 1
    BY <1>0
  <2> QED BY <1>2, <1>13, <2>1, BytesJoined
<1> QED BY <1>4, <1>14 DEF Bytes, m

\* A body is at least as long as any of the calls.
LEMMA FlatLong ==
    ASSUME NEW x \in Chunks, NEW j \in 1 .. Len(x)
    PROVE  GetBody(x) \in Seq(Byte) /\ Len(GetBody(x)) >= Len(x[j])
<1> DEFINE n == Len(x)
<1>0. x \in Seq(Seq(Byte)) /\ n \in Nat /\ j \in Nat /\ j >= 1 /\ j <= n
  BY DEF Chunks
<1>1. PICK F : Joins(F, Byte, x, n)
  BY <1>0, PrefixesExist
<1>2. FlattenSeq(x) = F[n]
  BY <1>0, <1>1, FlattenIs
<1>3. /\ F \in [0 .. n -> Seq(Byte)]
      /\ \A i \in 1 .. n : F[i] = F[i - 1] \o x[i]
  BY <1>1 DEF Joins
<1> DEFINE T == {i \in 0 .. n : i >= j => Len(F[i]) >= Len(x[j])}
<1>4. 0 \in T
  BY <1>0
<1>5. \A i \in 0 .. n - 1 : i \in T => i + 1 \in T
  <2> SUFFICES ASSUME NEW i \in 0 .. n - 1, i \in T PROVE i + 1 \in T
    OBVIOUS
  <2>1. i \in Nat /\ i + 1 \in 1 .. n /\ i + 1 \in 0 .. n /\ (i + 1) - 1 = i /\ i \in 0 .. n
    BY <1>0
  <2>2. F[i] \in Seq(Byte) /\ x[i + 1] \in Seq(Byte) /\ F[i + 1] = F[i] \o x[i + 1]
    <3>1. F[i] \in Seq(Byte) /\ F[i + 1] = F[(i + 1) - 1] \o x[i + 1]
      BY <1>3, <2>1
    <3>2. x[i + 1] \in Seq(Byte)
      BY <1>0, <2>1
    <3> QED BY <2>1, <3>1, <3>2
  <2>3. Len(F[i + 1]) = Len(F[i]) + Len(x[i + 1]) /\ Len(F[i]) \in Nat /\ Len(x[i + 1]) \in Nat
    <3>1. Len(F[i + 1]) = Len(F[i]) + Len(x[i + 1])
      BY <2>2, JoinIs
    <3> QED BY <2>2, <3>1
  <2>4. i + 1 >= j => Len(F[i + 1]) >= Len(x[j])
    <3>1. i + 1 >= j => i + 1 = j \/ i >= j
      BY <1>0, <2>1
    <3>2. i >= j => Len(F[i]) >= Len(x[j])
      OBVIOUS
    <3>3. x[j] \in Seq(Byte) /\ Len(x[j]) \in Nat
      BY <1>0
    <3>4. CASE i + 1 = j
      <4>1. Len(x[i + 1]) = Len(x[j])
        BY <3>4
      <4> DEFINE a == Len(F[i])
                 b == Len(x[i + 1])
                 d == Len(F[i + 1])
                 e == Len(x[j])
      <4>2. d = a + b /\ a \in Nat /\ b \in Nat /\ b = e
        BY <2>3, <4>1
      <4> HIDE DEF T, a, b, d, e
      <4>3. d >= e
        BY <4>2
      <4> QED BY <4>3 DEF d, e
    <3>5. CASE i >= j
      <4> DEFINE a == Len(F[i])
                 b == Len(x[i + 1])
                 d == Len(F[i + 1])
                 e == Len(x[j])
      <4>1. d = a + b /\ a \in Nat /\ b \in Nat /\ e \in Nat /\ a >= e
        BY <2>3, <3>2, <3>3, <3>5
      <4> HIDE DEF T, a, b, d, e
      <4>2. d >= e
        BY <4>1
      <4> QED BY <4>2 DEF d, e
    <3> QED BY <3>1, <3>4, <3>5
  <2> QED BY <2>1, <2>4
<1>6. n \in T
  <2> HIDE DEF T, n
  <2>1. 0 .. n \subseteq T
    BY <1>0, <1>4, <1>5, CountUp
  <2> QED BY <1>0, <2>1
<1>7. F[n] \in Seq(Byte) /\ Len(F[n]) >= Len(x[j])
  <2>1. n \in 0 .. n
    BY <1>0
  <2> QED BY <1>0, <1>3, <1>6, <2>1
<1> QED BY <1>2, <1>7 DEF GetBody

\* The body of calls among which is a Word.
LEMMA BodyIs ==
    ASSUME NEW x, HasWord(x)
    PROVE  GetBody(x) \in Seq(Byte) /\ Len(GetBody(x)) \in Nat /\ Len(GetBody(x)) >= 2
<1>1. x \in Chunks /\ \E j \in 1 .. Len(x) : Len(x[j]) = 2
  BY DEF HasWord
<1>2. PICK j \in 1 .. Len(x) : Len(x[j]) = 2
  BY <1>1
<1>3. GetBody(x) \in Seq(Byte) /\ Len(GetBody(x)) >= Len(x[j])
  BY <1>1, FlatLong
<1> QED BY <1>2, <1>3

\* The packet of a sub-request.
LEMMA SubBytes ==
    ASSUME NEW r \in SimpleRequests
    PROVE  SubPack(r) \in Seq(Byte) /\ r.header.to_uin \in Nat
<1>1. Parts(r) /\ r.header \in Headers /\ r.header.main_cmd \in SimpleCmds
  BY SimpleIs
<1>2. r.header.to_uin \in Nat
  BY <1>1 DEF Headers
<1>3. HasWord(SimpleReq(r))
  BY <1>1, SimpleChunks DEF SimpleCmds
<1>4. GetBody(SimpleReq(r)) \in Seq(Byte)
  BY <1>3, BodyIs
<1>5. GetPack(r.header, GetBody(SimpleReq(r))) \in Seq(Byte)
  BY <1>1, <1>4, PackBytes
<1>6. <<>> \in Seq(Byte)
  OBVIOUS
<1> QED BY <1>2, <1>5, <1>6 DEF SubPack

\* The calls for one part of a combo request.
LEMMA PartChunks ==
    ASSUME NEW table \in Nat, NEW route \in Nat, NEW p \in Seq(Byte)
    PROVE  <<PackDWord(table), PackDWord(route), PackDWord(Len(p)), PackBinary(p)>> \in Chunks
<1>1. Len(p) \in Nat /\ PackBinary(p) = p
  BY DEF PackBinary
<1>2. PackDWord(table) \in Seq(Byte) /\ PackDWord(route) \in Seq(Byte) /\ PackDWord(Len(p)) \in Seq(Byte)
  BY <1>1, NumChunks
<1> QED BY <1>1, <1>2, FewChunks

\* The parts between what a combo request begins and ends with.
LEMMA AroundParts ==
    ASSUME NEW r, Parts(r), NEW m \in Nat, NEW f \in Seq(Chunks)
    PROVE  HasWord(<<PackWord(r.timeout), PackWord(m)>> \o FlattenSeq(f) \o PackCookie(r))
<1>1. r.timeout \in Nat /\ r.cookie \in Seq(Byte)
  BY DEF Parts
<1> DEFINE a == <<PackWord(r.timeout), PackWord(m)>>
<1>2. a \in Chunks
  <2>1. PackWord(r.timeout) \in Seq(Byte) /\ PackWord(m) \in Seq(Byte)
    BY <1>1, NumChunks
  <2> QED BY <2>1, FewChunks
<1> HIDE DEF a
<1>3. FlattenSeq(f) \in Chunks
  BY FlatChunks
<1>4. a \o FlattenSeq(f) \in Chunks
  BY <1>2, <1>3, MoreChunks
<1>5. HasWord(PackCookie(r))
  BY <1>1, CookieChunks
<1>6. HasWord((a \o FlattenSeq(f)) \o PackCookie(r))
  BY <1>4, <1>5, WordBehind
<1> QED BY <1>6 DEF a

\* The calls of a DpComboReq.
LEMMA DpChunks ==
    ASSUME NEW r, Parts(r), r.subs \in Seq([table : Nat, req : SimpleRequests])
    PROVE  HasWord(ComboReq(r, LAMBDA s : s.req.header.to_uin, LAMBDA s : SubPack(s.req)))
<1> DEFINE f == Each(r.subs, LAMBDA s : LET p == SubPack(s.req)
                                         IN  <<PackDWord(s.table), PackDWord(s.req.header.to_uin),
                                               PackDWord(Len(p)), PackBinary(p)>>)
           m == Len(r.subs)
<1>1. m \in Nat
  OBVIOUS
<1>2. f = [i \in 1 .. m |-> f[i]] /\ DOMAIN f = 1 .. m
  BY <1>1 DEF Each
<1>3. ASSUME NEW i \in 1 .. m PROVE f[i] \in Chunks
  <2>1. r.subs[i] \in [table : Nat, req : SimpleRequests]
    <3> DEFINE R == [table : Nat, req : SimpleRequests]
               q == r.subs
    <3>1. q \in Seq(R) /\ i \in 1 .. Len(q)
      OBVIOUS
    <3> HIDE DEF R, q
    <3>2. q[i] \in R
      BY <3>1
    <3> QED BY <3>2 DEF R, q
  <2>2. r.subs[i].table \in Nat /\ r.subs[i].req \in SimpleRequests
    BY <2>1
  <2>3. SubPack(r.subs[i].req) \in Seq(Byte) /\ r.subs[i].req.header.to_uin \in Nat
    BY <2>2, SubBytes
  <2>4. f[i] = <<PackDWord(r.subs[i].table), PackDWord(r.subs[i].req.header.to_uin),
                 PackDWord(Len(SubPack(r.subs[i].req))), PackBinary(SubPack(r.subs[i].req))>>
    BY <1>1 DEF Each
  <2> HIDE DEF f
  <2> QED BY <2>2, <2>3, <2>4, PartChunks
<1>5. ComboReq(r, LAMBDA s : s.req.header.to_uin, LAMBDA s : SubPack(s.req))
        = <<PackWord(r.timeout), PackWord(m)>> \o FlattenSeq(f) \o PackCookie(r)
  BY DEF ComboReq
<1> HIDE DEF f
<1>4. f \in Seq(Chunks)
  BY <1>1, <1>2, <1>3, ListOf
<1> HIDE DEF m
<1> QED BY <1>1, <1>4, <1>5, AroundParts

\* The calls of an AppComboReq.
LEMMA AppChunks ==
    ASSUME NEW r, Parts(r), r.subs \in Seq([table : Nat, key : Nat, pack : Seq(Byte)])
    PROVE  HasWord(ComboReq(r, LAMBDA s : s.key, LAMBDA s : s.pack))
<1> DEFINE f == Each(r.subs, LAMBDA s : LET p == s.pack
                                         IN  <<PackDWord(s.table), PackDWord(s.key),
                                               PackDWord(Len(p)), PackBinary(p)>>)
           m == Len(r.subs)
<1>1. m \in Nat
  OBVIOUS
<1>2. f = [i \in 1 .. m |-> f[i]] /\ DOMAIN f = 1 .. m
  BY <1>1 DEF Each
<1>3. ASSUME NEW i \in 1 .. m PROVE f[i] \in Chunks
  <2>1. r.subs[i] \in [table : Nat, key : Nat, pack : Seq(Byte)]
    <3> DEFINE R == [table : Nat, key : Nat, pack : Seq(Byte)]
               q == r.subs
    <3>1. q \in Seq(R) /\ i \in 1 .. Len(q)
      OBVIOUS
    <3> HIDE DEF R, q
    <3>2. q[i] \in R
      BY <3>1
    <3> QED BY <3>2 DEF R, q
  <2>2. r.subs[i].table \in Nat /\ r.subs[i].key \in Nat /\ r.subs[i].pack \in Seq(Byte)
    BY <2>1
  <2>4. f[i] = <<PackDWord(r.subs[i].table), PackDWord(r.subs[i].key),
                 PackDWord(Len(r.subs[i].pack)), PackBinary(r.subs[i].pack)>>
    BY <1>1 DEF Each
  <2> HIDE DEF f
  <2> QED BY <2>2, <2>4, PartChunks
<1>5. ComboReq(r, LAMBDA s : s.key, LAMBDA s : s.pack)
        = <<PackWord(r.timeout), PackWord(m)>> \o FlattenSeq(f) \o PackCookie(r)
  BY DEF ComboReq
<1> HIDE DEF f
<1>4. f \in Seq(Chunks)
  BY <1>1, <1>2, <1>3, ListOf
<1> HIDE DEF m
<1> QED BY <1>1, <1>4, <1>5, AroundParts

\* The calls of every request.
LEMMA CallsAre ==
    ASSUME NEW r \in AllRequests
    PROVE  Parts(r) /\ r.header \in Headers /\ HasWord(PackCalls(r))
<1>1. CASE r \in SimpleRequests
  <2>1. Parts(r) /\ r.header \in Headers /\ r.header.main_cmd \in SimpleCmds
    BY <1>1, SimpleIs
  <2>2. HasWord(SimpleReq(r))
    BY <2>1, SimpleChunks DEF SimpleCmds
  <2>3. ~IsDpCombo(r) /\ ~IsAppCombo(r)
    BY <2>1 DEF IsDpCombo, IsAppCombo, SimpleCmds, COMBO_REQUEST_MAIN_CMD, INSERT_MAIN_CMD,
                UPDATE_MAIN_CMD, DELETE_MAIN_CMD, QUERY_MAIN_CMD, COUNT_MAIN_CMD, DELTA_MAIN_CMD,
                COND_FIND_MAIN_CMD
  <2> QED BY <2>1, <2>2, <2>3 DEF PackCalls
<1>2. CASE r \in DpComboRequests
  <2>1. /\ Parts(r) /\ r.header \in Headers /\ r.header.main_cmd = COMBO_REQUEST_MAIN_CMD
        /\ r.header.sub_cmd = 0 /\ r.subs \in Seq([table : Nat, req : SimpleRequests])
    BY <1>2, ComboIs
  <2>2. HasWord(ComboReq(r, LAMBDA s : s.req.header.to_uin, LAMBDA s : SubPack(s.req)))
    BY <2>1, DpChunks
  <2>3. IsDpCombo(r) /\ ~IsAppCombo(r)
    BY <2>1 DEF IsDpCombo, IsAppCombo, COMBO_REQUEST_SUB_CMD
  <2>4. PackCalls(r) = ComboReq(r, LAMBDA s : s.req.header.to_uin, LAMBDA s : SubPack(s.req))
    BY <2>3 DEF PackCalls
  <2> QED BY <2>1, <2>2, <2>4
<1>3. CASE r \in AppComboRequests
  <2>1. /\ Parts(r) /\ r.header \in Headers /\ r.header.main_cmd = COMBO_REQUEST_MAIN_CMD
        /\ r.header.sub_cmd = COMBO_REQUEST_SUB_CMD
        /\ r.subs \in Seq([table : Nat, key : Nat, pack : Seq(Byte)])
    BY <1>3, ComboIs
  <2>2. HasWord(ComboReq(r, LAMBDA s : s.key, LAMBDA s : s.pack))
    BY <2>1, AppChunks
  <2>3. IsAppCombo(r) /\ ~IsDpCombo(r)
    BY <2>1 DEF IsDpCombo, IsAppCombo
  <2>4. PackCalls(r) = ComboReq(r, LAMBDA s : s.key, LAMBDA s : s.pack)
    BY <2>3 DEF PackCalls
  <2> QED BY <2>1, <2>2, <2>4
<1> QED BY <1>1, <1>2, <1>3 DEF AllRequests

-----------------------------------------------------------------------------
(* Requests made in a buffer                                               *)

\* D has the packer f after each of the first k calls.
Tries(D, f, x, k) == /\ D = [i \in 0 .. k |-> D[i]]
                     /\ D[0] = f
                     /\ \A i \in 1 .. k : D[i] = FixedPack(D[i - 1], x[i])

\* There is such a D.
LEMMA TriesExist ==
    ASSUME NEW f, NEW x, NEW n \in Nat
    PROVE  \E D : Tries(D, f, x, n)
<1> DEFINE T == {k \in 0 .. n : \E D : Tries(D, f, x, k)}
<1>1. 0 \in T
  <2> DEFINE D == [i \in 0 .. 0 |-> f]
  <2>1. D = [i \in 0 .. 0 |-> D[i]] /\ D[0] = f
    OBVIOUS
  <2>2. \A i \in 1 .. 0 : D[i] = FixedPack(D[i - 1], x[i])
    OBVIOUS
  <2> HIDE DEF D
  <2>3. Tries(D, f, x, 0)
    BY <2>1, <2>2 DEF Tries
  <2> QED BY <2>3
<1>2. \A k \in 0 .. n - 1 : k \in T => k + 1 \in T
  <2> SUFFICES ASSUME NEW k \in 0 .. n - 1, k \in T PROVE \E D : Tries(D, f, x, k + 1)
    OBVIOUS
  <2>0. k \in Nat /\ k + 1 \in Nat
    OBVIOUS
  <2>1. PICK D : Tries(D, f, x, k)
    OBVIOUS
  <2> HIDE DEF T
  <2> DEFINE e == FixedPack(D[k], x[k + 1])
  <2>2. D[0] = f /\ \A i \in 1 .. k : D[i] = FixedPack(D[i - 1], x[i])
    BY <2>1 DEF Tries
  <2> DEFINE G == [i \in 0 .. k + 1 |-> IF i <= k THEN D[i] ELSE e]
  <2> HIDE DEF e
  <2>3. G = [i \in 0 .. k + 1 |-> G[i]] /\ (\A i \in 0 .. k : G[i] = D[i]) /\ G[k + 1] = e
    BY <2>0
  <2> HIDE DEF G
  <2>4. G[0] = f
    <3>1. 0 \in 0 .. k
      BY <2>0
    <3>2. G[0] = D[0]
      BY <2>3, <3>1
    <3> QED BY <2>2, <3>2
  <2>5. ASSUME NEW i \in 1 .. k + 1 PROVE G[i] = FixedPack(G[i - 1], x[i])
    <3>0. i - 1 \in 0 .. k /\ (i \in 1 .. k \/ i = k + 1)
      BY <2>0
    <3>1. G[i - 1] = D[i - 1]
      BY <2>3, <3>0
    <3>2. CASE i \in 1 .. k
      <4>1. i \in 0 .. k
        BY <3>2
      <4>2. G[i] = D[i]
        BY <2>3, <4>1
      <4> QED BY <2>2, <3>1, <3>2, <4>2
    <3>3. CASE i = k + 1
      <4>1. i - 1 = k
        BY <2>0, <3>3
      <4> QED BY <2>3, <3>1, <3>3, <4>1 DEF e
    <3> QED BY <3>0, <3>2, <3>3
  <2>6. Tries(G, f, x, k + 1)
    BY <2>3, <2>4, <2>5 DEF Tries
  <2> QED BY <2>6
<1>3. n \in T
  <2> HIDE DEF T
  <2>1. 0 .. n \subseteq T
    BY <1>1, <1>2, CountUp
  <2> QED BY <2>1
<1> QED BY <1>3

\* The last of them is the packer after all the calls.
LEMMA CallsTry ==
    ASSUME NEW f, NEW x \in Chunks
    PROVE  \E D : Tries(D, f, x, Len(x)) /\ FixedCalls(f, x) = D[Len(x)]
<1> DEFINE n == Len(x)
           IsDone(y) == y = [i \in 0 .. n |-> IF i = 0 THEN f ELSE FixedPack(y[i - 1], x[i])]
           g == CHOOSE y : IsDone(y)
<1>1. n \in Nat
  BY DEF Chunks
<1>2. PICK D : Tries(D, f, x, n)
  BY <1>1, TriesExist
<1>3. IsDone(D)
  <2>1. D = [i \in 0 .. n |-> D[i]] /\ D[0] = f /\ \A i \in 1 .. n : D[i] = FixedPack(D[i - 1], x[i])
    BY <1>2 DEF Tries
  <2>2. \A i \in 0 .. n : i # 0 => i \in 1 .. n
    BY <1>1
  <2>3. \A i \in 0 .. n : D[i] = IF i = 0 THEN f ELSE FixedPack(D[i - 1], x[i])
    BY <2>1, <2>2
  <2> QED BY <2>1, <2>3
<1>4. IsDone(g)
  BY <1>3
<1> HIDE DEF g
<1>5. Tries(g, f, x, n)
  <2>1. \A i \in 0 .. n : g[i] = IF i = 0 THEN f ELSE FixedPack(g[i - 1], x[i])
    BY <1>4
  <2>2. 0 \in 0 .. n /\ \A i \in 1 .. n : i \in 0 .. n /\ i # 0
    BY <1>1
  <2>3. g[0] = f /\ \A i \in 1 .. n : g[i] = FixedPack(g[i - 1], x[i])
    BY <2>1, <2>2
  <2>4. g = [i \in 0 .. n |-> g[i]]
    BY <1>4
  <2> QED BY <2>3, <2>4 DEF Tries
<1>6. FixedCalls(f, x) = g[n]
  BY DEF FixedCalls, g
<1> QED BY <1>5, <1>6

\* The packer has all of b if it fits in the buffer, and an error if it does not.
Fits(d, b, room) ==
    /\ d \in [body : Seq(Byte), len : Nat, err : Nat] /\ d.len = room
    /\ IF 29 + Len(b) <= room THEN d.err = 0 /\ d.body = b ELSE d.err = ERR_PROTOCOL

\* It stays so by a call.
LEMMA FixedPackFits ==
    ASSUME NEW d, NEW b \in Seq(Byte), NEW t \in Seq(Byte), NEW room \in Nat, Fits(d, b, room)
    PROVE  Fits(FixedPack(d, t), b \o t, room)
<1>1. /\ d \in [body : Seq(Byte), len : Nat, err : Nat] /\ d.len = room
      /\ d.body \in Seq(Byte) /\ Len(d.body) \in Nat
      /\ IF 29 + Len(b) <= room THEN d.err = 0 /\ d.body = b ELSE d.err = ERR_PROTOCOL
  BY DEF Fits
<1>2. /\ Len(b) \in Nat /\ Len(t) \in Nat
      /\ b \o t \in Seq(Byte) /\ Len(b \o t) = Len(b) + Len(t)
  <2>1. Len(b) \in Nat /\ Len(t) \in Nat
    OBVIOUS
  <2> DEFINE c == b \o t
  <2>2. c \in Seq(Byte) /\ Len(c) = Len(b) + Len(t)
    <3>1. c = b \o t
      OBVIOUS
    <3> HIDE DEF c
    <3> QED BY <3>1, JoinIs
  <2> QED BY <2>1, <2>2
<1> DEFINE left == LeftSpace(d)
<1>3. left = room - (29 + Len(d.body))
  BY <1>1 DEF LeftSpace, MSG_HEADER_LEN
<1> HIDE DEF left
<1>4. CASE left < Len(t)
  <2>1. FixedPack(d, t) = [d EXCEPT !.err = ERR_PROTOCOL]
    BY <1>4 DEF FixedPack, left
  <2>2. ~(29 + Len(b \o t) <= room)
    BY <1>1, <1>2, <1>3, <1>4
  <2>3. [d EXCEPT !.err = ERR_PROTOCOL] \in [body : Seq(Byte), len : Nat, err : Nat]
    BY <1>1 DEF ERR_PROTOCOL
  <2>4. [d EXCEPT !.err = ERR_PROTOCOL].err = ERR_PROTOCOL /\ [d EXCEPT !.err = ERR_PROTOCOL].len = room
    BY <1>1
  <2> QED BY <2>1, <2>2, <2>3, <2>4 DEF Fits
<1>5. CASE ~(left < Len(t))
  <2> DEFINE e == [d EXCEPT !.body = @ \o t]
  <2>1. FixedPack(d, t) = e
    BY <1>5 DEF FixedPack, left
  <2>2. e = [d EXCEPT !.body = d.body \o t]
    BY <1>1
  <2>3. d.body \o t \in Seq(Byte)
    BY <1>1, ConcatProperties
  <2>4. e \in [body : Seq(Byte), len : Nat, err : Nat] /\ e.len = room /\ e.err = d.err
        /\ e.body = d.body \o t
    BY <1>1, <2>2, <2>3
  <2> HIDE DEF e
  <2>5. CASE 29 + Len(b) <= room
    <3>1. d.err = 0 /\ d.body = b
      BY <1>1, <2>5
    <3>2. 29 + Len(b \o t) <= room
      BY <1>2, <1>3, <1>5, <3>1
    <3>3. Fits(e, b \o t, room)
      BY <2>4, <3>1, <3>2 DEF Fits
    <3> QED BY <2>1, <3>3
  <2>6. CASE ~(29 + Len(b) <= room)
    <3>1. d.err = ERR_PROTOCOL
      BY <1>1, <2>6
    <3>2. ~(29 + Len(b \o t) <= room)
      BY <1>2, <2>6
    <3>3. Fits(e, b \o t, room)
      BY <2>4, <3>1, <3>2 DEF Fits
    <3> QED BY <2>1, <3>3
  <2> QED BY <2>5, <2>6
<1> QED BY <1>4, <1>5

\* After all calls the packer has the body, or an error if the body does not fit.
LEMMA CallsFit ==
    ASSUME NEW x \in Chunks, NEW room \in Nat, room >= 30
    PROVE  Fits(FixedCalls(FixedInit(room), x), GetBody(x), room)
<1> DEFINE n == Len(x)
           f == FixedInit(room)
<1>0. x \in Seq(Seq(Byte)) /\ n \in Nat
  BY DEF Chunks
<1>1. PICK F : Joins(F, Byte, x, n)
  BY <1>0, PrefixesExist
<1>2. FlattenSeq(x) = F[n]
  BY <1>0, <1>1, FlattenIs
<1>3. F \in [0 .. n -> Seq(Byte)] /\ F[0] = <<>> /\ \A i \in 1 .. n : F[i] = F[i - 1] \o x[i]
  BY <1>1 DEF Joins
<1>4. PICK D : Tries(D, f, x, n) /\ FixedCalls(f, x) = D[n]
  BY CallsTry
<1>5. D[0] = f /\ \A i \in 1 .. n : D[i] = FixedPack(D[i - 1], x[i])
  BY <1>4 DEF Tries
<1> DEFINE T == {i \in 0 .. n : Fits(D[i], F[i], room)}
<1>6. 0 \in T
  <2>1. f = [body |-> <<>>, len |-> room, err |-> 0]
    BY DEF FixedInit, MSG_HEADER_LEN
  <2> HIDE DEF f
  <2>2. Fits(f, <<>>, room)
    BY <2>1 DEF Fits
  <2> QED BY <1>0, <1>3, <1>5, <2>2
<1> HIDE DEF f
<1>7. \A i \in 0 .. n - 1 : i \in T => i + 1 \in T
  <2> SUFFICES ASSUME NEW i \in 0 .. n - 1, i \in T PROVE i + 1 \in T
    OBVIOUS
  <2>1. i + 1 \in 1 .. n /\ i + 1 \in 0 .. n /\ (i + 1) - 1 = i /\ i \in 0 .. n
    BY <1>0
  <2>2. Fits(D[i], F[i], room)
    OBVIOUS
  <2>3. F[i] \in Seq(Byte) /\ x[i + 1] \in Seq(Byte)
    <3>1. F[i] \in Seq(Byte)
      BY <1>3, <2>1
    <3>2. x[i + 1] \in Seq(Byte)
      BY <1>0, <2>1
    <3> QED BY <3>1, <3>2
  <2>4. F[i + 1] = F[i] \o x[i + 1] /\ D[i + 1] = FixedPack(D[i], x[i + 1])
    <3>1. F[i + 1] = F[(i + 1) - 1] \o x[i + 1] /\ D[i + 1] = FixedPack(D[(i + 1) - 1], x[i + 1])
      BY <1>3, <1>5, <2>1
    <3> QED BY <2>1, <3>1
  <2> HIDE DEF T
  <2>5. Fits(FixedPack(D[i], x[i + 1]), F[i] \o x[i + 1], room)
    BY <2>2, <2>3, FixedPackFits
  <2> QED BY <2>1, <2>4, <2>5 DEF T
<1>8. n \in T
  <2> HIDE DEF T, n
  <2>1. 0 .. n \subseteq T
    BY <1>0, <1>6, <1>7, CountUp
  <2> QED BY <1>0, <2>1
<1>9. Fits(D[n], F[n], room)
  BY <1>8
<1> QED BY <1>2, <1>4, <1>9 DEF GetBody, f

\* What is made of a request r in a buffer: the packet, if the buffer holds all of
\* it but the end mark, and nothing otherwise.
AsString(r, room, m) ==
    LET s == MakeReq(r)
    IN  IF room >= MSG_HEADER_LEN + 1 /\ Len(s.pack) - 1 <= room
        THEN m.ret = s.ret /\ m.pack = s.pack
        ELSE m.ret = -1 /\ m.pack = <<>>

\* MakeReq in a buffer makes the packet that MakeReq in a string makes, or refuses.
LEMMA BufIs ==
    ASSUME NEW r \in AllRequests, NEW room \in Nat
    PROVE  AsString(r, room, MakeReqBuf(r, room))
<1> DEFINE m == MakeReqBuf(r, room)
           s == MakeReq(r)
           x == PackCalls(r)
           f == FixedCalls(FixedInit(room), x)
           b == GetBody(x)
           p == GetPack(r.header, b)
<1>1. r.header \in Headers /\ HasWord(x)
  BY CallsAre
<1>2. x \in Chunks /\ b \in Seq(Byte) /\ Len(b) \in Nat
  BY <1>1, BodyIs DEF HasWord
<1>3. p \in Seq(Byte) /\ Len(p) = 30 + Len(b)
  BY <1>1, <1>2, PackBytes
<1>4. FixedInit(room).err # 0 <=> ~(room >= 30)
  BY DEF FixedInit, MSG_HEADER_LEN, ERR_PROTOCOL
<1>m. m = IF FixedInit(room).err # 0 THEN [ret |-> -1, pack |-> <<>>]
          ELSE IF BadCond(r) THEN [ret |-> ERR_PROTOCOL, pack |-> <<>>]
          ELSE IF f.err # 0 THEN [ret |-> -1, pack |-> <<>>]
          ELSE [ret |-> Len(FixedGetPack(f, r.header)), pack |-> FixedGetPack(f, r.header)]
  BY DEF MakeReqBuf
<1>s. s = IF BadCond(r) THEN [ret |-> ERR_PROTOCOL, pack |-> <<>>] ELSE [ret |-> Len(p), pack |-> p]
  BY DEF MakeReq
<1> HIDE DEF m, s, p
<1> SUFFICES IF room >= 30 /\ Len(s.pack) - 1 <= room
             THEN m.ret = s.ret /\ m.pack = s.pack ELSE m.ret = -1 /\ m.pack = <<>>
  BY DEF AsString, MSG_HEADER_LEN, m, s
<1>5. CASE ~(room >= 30)
  <2>1. m = [ret |-> -1, pack |-> <<>>]
    BY <1>4, <1>5, <1>m
  <2> QED BY <1>5, <2>1
<1>6. CASE room >= 30 /\ BadCond(r)
  <2>1. m = [ret |-> ERR_PROTOCOL, pack |-> <<>>] /\ s = [ret |-> ERR_PROTOCOL, pack |-> <<>>]
    BY <1>4, <1>6, <1>m, <1>s
  <2>2. Len(s.pack) = 0
    BY <2>1
  <2> QED BY <1>6, <2>1, <2>2
<1>7. CASE room >= 30 /\ ~BadCond(r)
  <2>1. s = [ret |-> Len(p), pack |-> p]
    BY <1>7, <1>s
  <2>2. Len(s.pack) - 1 = 29 + Len(b)
    BY <1>2, <1>3, <2>1
  <2>3. Fits(f, b, room)
    BY <1>2, <1>7, CallsFit
  <2>4. IF 29 + Len(b) <= room THEN f.err = 0 /\ f.body = b ELSE f.err = ERR_PROTOCOL
    BY <2>3 DEF Fits
  <2> HIDE DEF f, b
  <2>5. CASE 29 + Len(b) <= room
    <3>1. FixedGetPack(f, r.header) = p
      BY <2>4, <2>5 DEF FixedGetPack, p
    <3>2. m = [ret |-> Len(p), pack |-> p]
      BY <1>4, <1>7, <1>m, <2>4, <2>5, <3>1
    <3> QED BY <1>7, <2>1, <2>2, <2>5, <3>2
  <2>6. CASE ~(29 + Len(b) <= room)
    <3>1. f.err # 0
      BY <2>4, <2>6 DEF ERR_PROTOCOL
    <3>2. m = [ret |-> -1, pack |-> <<>>]
      BY <1>4, <1>7, <1>m, <3>1
    <3> QED BY <1>7, <2>2, <2>6, <3>2
  <2> QED BY <2>5, <2>6
<1> QED BY <1>5, <1>6, <1>7

-----------------------------------------------------------------------------
(* The client, the relays and the server                                   *)

\* The packet is a request's, or its answer's, on its way.
OnItsWay == \E r \in Asked : req = <<r>> /\ Travels(pkt, orig, Len(orig), ck, key, resv)

\* What was made in a buffer is what a string would hold, or nothing.
AsMade == made.room \in Nat /\ \E r \in Asked : req = <<r>> /\ AsString(r, made.room, made)

\* The inductive invariant.
ClientIInv == /\ seq \in Nat
              /\ leg \in {"idle", "req", "rsp"}
              /\ leg # "idle" => OnItsWay
              /\ made.room # 0 => AsMade

\* What is assumed of requests.
LEMMA AskedIs ==
    ASSUME NEW r \in Asked
    PROVE  r \in AllRequests /\ Len(MakeReq(r).pack) <= Radix ^ 3
BY ClientAssumption DEF AllRequests

\* The packet of a request, made in a string.
LEMMA MadeTravels ==
    ASSUME NEW r \in Asked, NEW q, q = MakeReq(r).pack, q # <<>>
    PROVE  Travels(q, q, Len(q), <<>>, <<>>, 0)
<1>1. r \in AllRequests /\ Len(q) <= Radix ^ 3
  BY AskedIs
<1>2. r.header \in Headers /\ HasWord(PackCalls(r))
  BY <1>1, CallsAre
<1> DEFINE b == GetBody(PackCalls(r))
           h == r.header
<1>3. b \in Seq(Byte) /\ Len(b) \in Nat /\ Len(b) >= 2
  BY <1>2, BodyIs
<1>4. q = GetPack(h, b)
  BY DEF MakeReq
<1> HIDE DEF b, h
<1>5. h \in Headers
  BY <1>2 DEF h
<1>6. Len(q) = 30 + Len(b)
  BY <1>3, <1>4, <1>5, PackBytes
<1>7. Radix ^ 3 \in Nat
  <2>1. 3 \in 0 .. 8
    OBVIOUS
  <2> QED BY <2>1, Powers
<1>8. Len(q) \in Size
  BY <1>1, <1>3, <1>6, <1>7 DEF Size
<1> QED BY <1>3, <1>4, <1>5, <1>6, <1>8, RequestTravels

\* An empty buffer packet or one made in a string.
LEMMA BufPack ==
    ASSUME NEW r \in AllRequests, NEW room \in Nat
    PROVE  MakeReqBuf(r, room).pack \in {<<>>, MakeReq(r).pack}
<1>1. AsString(r, room, MakeReqBuf(r, room))
  BY BufIs
<1> QED BY <1>1 DEF AsString

\* The client makes a request.
LEMMA MakeStep ==
    ASSUME ClientIInv, NEW R \in Requests, NEW n \in BufLens \cup {0}, Make(R, n)
    PROVE  ClientIInv'
<1> DEFINE r == R[seq]
           m == IF n = 0 THEN MakeReq(r) ELSE MakeReqBuf(r, n)
<1>1. /\ seq' = seq + 1 /\ req' = <<r>>
      /\ made' = [ret |-> m.ret, pack |-> m.pack, room |-> n]
      /\ leg' = (IF m.pack = <<>> THEN "idle" ELSE "req")
      /\ pkt' = m.pack /\ orig' = m.pack /\ ck' = <<>> /\ key' = <<>> /\ resv' = 0
      /\ seq < MaxSeq
  BY DEF Make
<1>2. seq \in Nat /\ MaxSeq \in Nat /\ n \in Nat
  BY ClientAssumption DEF ClientIInv
<1>3. r \in Asked
  <2>1. seq \in 0 .. MaxSeq - 1
    BY <1>1, <1>2
  <2> QED BY <2>1 DEF Asked
<1> HIDE DEF r
<1>4. r \in AllRequests
  BY <1>3, AskedIs
<1>5. m.pack \in {<<>>, MakeReq(r).pack}
  <2>1. MakeReqBuf(r, n).pack \in {<<>>, MakeReq(r).pack}
    BY <1>2, <1>4, BufPack
  <2> QED BY <2>1
<1>6. n # 0 => AsString(r, n, m)
  BY <1>2, <1>4, BufIs
<1> HIDE DEF m
<1>7. seq' \in Nat /\ leg' \in {"idle", "req", "rsp"}
  BY <1>1, <1>2
<1>8. leg' # "idle" => OnItsWay'
  <2> SUFFICES ASSUME leg' # "idle" PROVE OnItsWay'
    OBVIOUS
  <2> DEFINE q == m.pack
  <2>1. q # <<>> /\ q = MakeReq(r).pack
    BY <1>1, <1>5
  <2> HIDE DEF q
  <2>2. Travels(q, q, Len(q), <<>>, <<>>, 0)
    BY <1>3, <2>1, MadeTravels
  <2>3. pkt' = q /\ orig' = q /\ ck' = <<>> /\ key' = <<>> /\ resv' = 0
    BY <1>1 DEF q
  <2>4. Travels(pkt, orig, Len(orig), ck, key, resv)'
    BY <2>2, <2>3
  <2> QED BY <1>1, <1>3, <2>4 DEF OnItsWay
<1>9. (made.room)' # 0 => AsMade'
  <2> SUFFICES ASSUME (made.room)' # 0 PROVE AsMade'
    OBVIOUS
  <2>1. made'.room = n /\ made'.ret = m.ret /\ made'.pack = m.pack
    BY <1>1
  <2>2. AsString(r, n, m)
    BY <1>6, <2>1
  <2>3. AsString(r, made'.room, made')
    BY <2>1, <2>2 DEF AsString
  <2> QED BY <1>1, <1>2, <1>3, <2>1, <2>3 DEF AsMade
<1> QED BY <1>7, <1>8, <1>9 DEF ClientIInv

\* What a relay does leaves all as it is but the packet, and the packet on its way.
LEMMA RelayStep ==
    ASSUME ClientIInv, leg # "idle", seq' = seq, req' = req, made' = made, leg' = leg,
           Travels(pkt', orig', Len(orig'), ck', key', resv')
    PROVE  ClientIInv'
<1>1. PICK r \in Asked : req = <<r>>
  BY DEF ClientIInv, OnItsWay
<1>2. OnItsWay'
  BY <1>1 DEF OnItsWay
<1>3. (made.room)' # 0 => AsMade'
  BY DEF ClientIInv, AsMade
<1> QED BY <1>2, <1>3 DEF ClientIInv

\* A packet on its way is one, whatever is on it.
LEMMA WayIs ==
    ASSUME ClientIInv, leg # "idle"
    PROVE  /\ Travels(pkt, orig, Len(orig), ck, key, resv)
           /\ Len(orig) \in Size /\ ck \in OneCookie /\ key \in OneKey
           /\ Framed(pkt, Len(orig), ck)
           /\ \E r \in Asked : req = <<r>>
<1>1. OnItsWay
  BY DEF ClientIInv
<1>2. Travels(pkt, orig, Len(orig), ck, key, resv) /\ \E r \in Asked : req = <<r>>
  BY <1>1 DEF OnItsWay
<1> QED BY <1>2 DEF Travels

\* A relay puts its cookie on.
LEMMA CookieStep ==
    ASSUME ClientIInv, NEW c \in Cookies, RelayCookie(c)
    PROVE  ClientIInv'
<1> DEFINE n == Len(orig)
           s == SetCookie(pkt, Room, c)
<1>1. /\ leg # "idle" /\ pkt' = s.p /\ ck' = (IF s.ret > 0 THEN <<c>> ELSE ck)
      /\ seq' = seq /\ req' = req /\ made' = made /\ leg' = leg /\ orig' = orig /\ resv' = resv
      /\ key' = key
  BY DEF RelayCookie
<1>2. /\ Travels(pkt, orig, n, ck, key, resv) /\ n \in Size /\ ck \in OneCookie
      /\ Framed(pkt, n, ck)
  BY <1>1, WayIs
<1>3. c \in Seq(Byte) /\ Len(c) <= MaxWord /\ Room \in Nat
  BY ClientAssumption
<1> HIDE DEF n
<1>4. \/ ~(s.ret > 0) /\ s.p = pkt
      \/ /\ s.ret > 0 /\ <<c>> \in OneCookie
         /\ Framed(s.p, n, <<c>>) /\ Kept(s.p, pkt, n - 1, Extents)
  BY <1>2, <1>3, SetCookieIs
<1> HIDE DEF s
<1>5. Travels(pkt', orig, n, ck', key, resv)
  <2>1. CASE ~(s.ret > 0) /\ s.p = pkt
    <3>1. pkt' = pkt /\ ck' = ck
      BY <1>1, <2>1
    <3> QED BY <1>2, <3>1
  <2>2. CASE /\ s.ret > 0 /\ <<c>> \in OneCookie
             /\ Framed(s.p, n, <<c>>) /\ Kept(s.p, pkt, n - 1, Extents)
    <3> DEFINE d == <<c>>
               q == s.p
    <3>1. pkt' = q /\ ck' = d /\ d \in OneCookie /\ Framed(q, n, d) /\ Kept(q, pkt, n - 1, Extents)
      BY <1>1, <2>2
    <3> HIDE DEF d, q
    <3>2. Travels(q, orig, n, d, key, resv)
      BY <1>2, <3>1, CookieTravels
    <3> QED BY <3>1, <3>2
  <2> QED BY <1>4, <2>1, <2>2
<1>6. Travels(pkt', orig', Len(orig'), ck', key', resv')
  BY <1>1, <1>5 DEF n
<1> QED BY <1>1, <1>6, RelayStep

\* A relay takes the cookie off.
LEMMA DelCookieStep ==
    ASSUME ClientIInv, RelayDelCookie
    PROVE  ClientIInv'
<1> DEFINE n == Len(orig)
           q == DelCookie(pkt)
           d == <<>>
<1>1. /\ leg # "idle" /\ pkt' = q /\ ck' = d
      /\ seq' = seq /\ req' = req /\ made' = made /\ leg' = leg /\ orig' = orig /\ resv' = resv
      /\ key' = key
  BY DEF RelayDelCookie
<1>2. /\ Travels(pkt, orig, n, ck, key, resv) /\ n \in Size /\ ck \in OneCookie
      /\ Framed(pkt, n, ck)
  BY <1>1, WayIs
<1> HIDE DEF n
<1>3. Framed(q, n, d) /\ Kept(q, pkt, n - 1, Extents)
  BY <1>2, DelCookieIs
<1>4. d \in OneCookie
  BY DEF OneCookie
<1> HIDE DEF d, q
<1>5. Travels(q, orig, n, d, key, resv)
  BY <1>2, <1>3, <1>4, CookieTravels
<1>6. Travels(pkt', orig', Len(orig'), ck', key', resv')
  BY <1>1, <1>5 DEF n
<1> QED BY <1>1, <1>6, RelayStep

\* A relay writes to the header.
LEMMA HeaderStep ==
    ASSUME ClientIInv, NEW v \in Reserves, RelayHeader(v)
    PROVE  ClientIInv'
<1>1. /\ leg # "idle" /\ pkt' = SetReserve(SetUins(pkt, v, v), v) /\ resv' = v
      /\ seq' = seq /\ req' = req /\ made' = made /\ leg' = leg /\ orig' = orig /\ ck' = ck
      /\ key' = key
  BY DEF RelayHeader
<1>2. Travels(pkt, orig, Len(orig), ck, key, resv)
  BY <1>1, WayIs
<1>3. v \in Byte
  BY ClientAssumption
<1>4. Travels(SetReserve(SetUins(pkt, v, v), v), orig, Len(orig), ck, key, v)
  BY <1>2, <1>3, HeaderTravels
<1>5. Travels(pkt', orig', Len(orig'), ck', key', resv')
  BY <1>1, <1>4
<1> QED BY <1>1, <1>5, RelayStep

\* A relay encrypts the body.
LEMMA EncryptStep ==
    ASSUME ClientIInv, NEW k \in Keys, RelayEncrypt(k)
    PROVE  ClientIInv'
<1>1. /\ leg # "idle" /\ pkt' = EncryptPack(SetEncType(pkt, ENC_TYPE_TEA), k) /\ key' = <<k>>
      /\ seq' = seq /\ req' = req /\ made' = made /\ leg' = leg /\ orig' = orig /\ ck' = ck
      /\ resv' = resv /\ ck = <<>> /\ key = <<>>
  BY DEF RelayEncrypt
<1>2. Travels(pkt, orig, Len(orig), <<>>, <<>>, resv)
  <2>1. Travels(pkt, orig, Len(orig), ck, key, resv)
    BY <1>1, WayIs
  <2> QED BY <1>1, <2>1
<1>3. k \in Nat
  BY ClientAssumption
<1>4. Travels(EncryptPack(SetEncType(pkt, ENC_TYPE_TEA), k), orig, Len(orig), <<>>, <<k>>, resv)
  BY <1>2, <1>3, EncryptTravels
<1>5. Travels(pkt', orig', Len(orig'), ck', key', resv')
  BY <1>1, <1>4
<1> QED BY <1>1, <1>5, RelayStep

\* A relay decrypts it.
LEMMA DecryptStep ==
    ASSUME ClientIInv, RelayDecrypt
    PROVE  ClientIInv'
<1> DEFINE q == SetEncType(Decrypt(UnPackerInit(pkt), key[1]).u.data, ENC_TYPE_NONE)
<1>1. /\ leg # "idle" /\ pkt' = q /\ key' = <<>>
      /\ seq' = seq /\ req' = req /\ made' = made /\ leg' = leg /\ orig' = orig /\ ck' = ck
      /\ resv' = resv /\ ck = <<>> /\ key # <<>>
  BY DEF RelayDecrypt
<1>2. Travels(pkt, orig, Len(orig), <<>>, key, resv)
  <2>1. Travels(pkt, orig, Len(orig), ck, key, resv)
    BY <1>1, WayIs
  <2> QED BY <1>1, <2>1
<1>3. Travels(q, orig, Len(orig), <<>>, <<>>, resv)
  BY <1>1, <1>2, DecryptTravels
<1> HIDE DEF q
<1>4. Travels(pkt', orig', Len(orig'), ck', key', resv')
  BY <1>1, <1>3
<1> QED BY <1>1, <1>4, RelayStep

\* The body of an answer, with the cookie of its request behind it.
LEMMA AnswerBodyIs ==
    ASSUME NEW r \in Asked, NEW a \in Answers(r), NEW b, b = GetBody(AnswerBody(r, a) \o PackCookie(r))
    PROVE  b \in Seq(Byte) /\ 30 + Len(b) \in Size
<1>1. r \in AllRequests
  BY AskedIs
<1>2. Parts(r)
  BY <1>1, CallsAre
<1>3. HasWord(PackCookie(r))
  BY <1>2, CookieChunks DEF Parts
<1>4. AnswerBody(r, a) \in Chunks /\ Len(GetPack(MsgHeader, b)) <= Radix ^ 3
  BY ServerAssumption DEF Chunks
<1>5. HasWord(AnswerBody(r, a) \o PackCookie(r))
  BY <1>3, <1>4, WordBehind
<1>6. b \in Seq(Byte) /\ Len(b) \in Nat /\ Len(b) >= 2
  BY <1>5, BodyIs
<1> DEFINE h == MsgHeader
           q == GetPack(h, b)
<1>7. h \in Headers
  BY AnswerHeaders
<1> HIDE DEF h
<1>8. Len(q) = 30 + Len(b)
  <2>1. q = GetPack(h, b)
    OBVIOUS
  <2> HIDE DEF q
  <2> QED BY <1>6, <1>7, <2>1, PackBytes
<1>9. Len(q) <= Radix ^ 3
  BY <1>4 DEF h
<1> HIDE DEF q
<1>10. Radix ^ 3 \in Nat
  <2>1. 3 \in 0 .. 8
    OBVIOUS
  <2> QED BY <2>1, Powers
<1> QED BY <1>6, <1>8, <1>9, <1>10 DEF Size

\* The server answers.
LEMMA AnswerStep ==
    ASSUME ClientIInv, leg = "req", NEW a \in Answers(req[1]),
           NEW c \in OneCookie, NEW k \in OneKey, c = <<>> \/ k = <<>>, Answer(a, c, k)
    PROVE  ClientIInv'
<1>1. PICK r \in Asked : req = <<r>>
  BY WayIs
<1>2. req[1] = r /\ a \in Answers(r)
  BY <1>1
<1> DEFINE b == GetBody(AnswerBody(r, a) \o PackCookie(r))
           main == r.header.main_cmd
           sq == r.header.seq
           tea == [MsgHeader EXCEPT !.enc_type = ENC_TYPE_TEA]
           p == IF k # <<>> THEN GetPackKey(tea, b, k[1])
                ELSE IF c # <<>> THEN GetPackCookie(MsgHeader, b, c[1])
                ELSE GetPack(MsgHeader, b)
           o == GetPack(MsgHeader, b)
           n == 30 + Len(b)
<1>3. /\ leg' = "rsp" /\ resv' = 0
      /\ orig' = SetSequence(SetPackCmd(o, main, 0), sq)
      /\ pkt' = SetSequence(SetPackCmd(p, main, 0), sq)
      /\ ck' = c /\ key' = k /\ made' = NotMade /\ seq' = seq /\ req' = req
  BY <1>2 DEF Answer
<1>4. b \in Seq(Byte) /\ n \in Size
  BY <1>2, AnswerBodyIs
<1>5. main \in Nat /\ sq \in Nat
  <2>1. r \in AllRequests
    BY AskedIs
  <2>2. r.header \in Headers
    BY <2>1, CallsAre
  <2> QED BY <2>2 DEF Headers
<1> HIDE DEF b, main, sq
<1> DEFINE e == SetSequence(SetPackCmd(o, main, 0), sq)
           q == SetSequence(SetPackCmd(p, main, 0), sq)
<1>6. Travels(q, e, n, c, k, 0)
  <2> HIDE DEF n, p, o, tea, e, q
  <2> QED BY <1>4, <1>5, AnswerTravels DEF n, p, o, tea, e, q
<1> HIDE DEF n, p, o, tea, e, q
<1>7. Len(e) = n
  BY <1>6 DEF Travels
<1>8. Travels(pkt', orig', Len(orig'), ck', key', resv')
  BY <1>3, <1>6, <1>7 DEF e, q
<1>9. OnItsWay'
  BY <1>1, <1>3, <1>8 DEF OnItsWay
<1>10. made'.room = 0
  BY <1>3 DEF NotMade
<1> QED BY <1>3, <1>9, <1>10 DEF ClientIInv

\* The client parses the answer.
LEMMA ParseStep ==
    ASSUME ClientIInv, NEW fresh, NEW cut, NEW more, Parse(fresh, cut, more)
    PROVE  ClientIInv'
<1>1. leg' = "idle" /\ seq' = seq /\ req' = req /\ made' = made
  BY DEF Parse
<1>2. (made.room)' # 0 => AsMade'
  BY <1>1 DEF ClientIInv, AsMade
<1> QED BY <1>1, <1>2 DEF ClientIInv

\* The invariant holds at the start.
LEMMA ClientInit ==
    ASSUME Init
    PROVE  ClientIInv
BY DEF Init, ClientIInv, NotMade

\* A cookie of a relay, and a key.
LEMMA OnesAre ==
    /\ <<>> \in OneCookie /\ <<>> \in OneKey
    /\ \A c \in Cookies : <<c>> \in OneCookie
    /\ \A k \in Keys : <<k>> \in OneKey
BY ClientAssumption DEF OneCookie, OneKey

\* Every step keeps it.
LEMMA ClientNext ==
    ASSUME ClientIInv, [Next]_vars
    PROVE  ClientIInv'
<1>1. CASE \E R \in Requests, n \in BufLens \cup {0} : Make(R, n)
  BY <1>1, MakeStep
<1>2. CASE \E c \in Cookies : RelayCookie(c)
  BY <1>2, CookieStep
<1>3. CASE RelayDelCookie
  BY <1>3, DelCookieStep
<1>4. CASE \E v \in Reserves : RelayHeader(v)
  BY <1>4, HeaderStep
<1>5. CASE \E k \in Keys : RelayEncrypt(k)
  BY <1>5, EncryptStep
<1>6. CASE RelayDecrypt
  BY <1>6, DecryptStep
<1>7. CASE /\ leg = "req"
           /\ \E a \in Answers(req[1]) :
                 \/ Answer(a, <<>>, <<>>)
                 \/ \E c \in Cookies : Answer(a, <<c>>, <<>>)
                 \/ \E k \in Keys : Answer(a, <<>>, <<k>>)
  <2>1. PICK a \in Answers(req[1]) : \/ Answer(a, <<>>, <<>>)
                                     \/ \E c \in Cookies : Answer(a, <<c>>, <<>>)
                                     \/ \E k \in Keys : Answer(a, <<>>, <<k>>)
    BY <1>7
  <2>2. leg = "req"
    BY <1>7
  <2>3. CASE Answer(a, <<>>, <<>>)
    <3>1. <<>> \in OneCookie /\ <<>> \in OneKey
      BY OnesAre
    <3> QED BY <2>2, <2>3, <3>1, AnswerStep
  <2>4. CASE \E c \in Cookies : Answer(a, <<c>>, <<>>)
    <3>1. PICK c \in Cookies : Answer(a, <<c>>, <<>>)
      BY <2>4
    <3>2. <<c>> \in OneCookie /\ <<>> \in OneKey
      BY OnesAre
    <3> QED BY <2>2, <3>1, <3>2, AnswerStep
  <2>5. CASE \E k \in Keys : Answer(a, <<>>, <<k>>)
    <3>1. PICK k \in Keys : Answer(a, <<>>, <<k>>)
      BY <2>5
    <3>2. <<>> \in OneCookie /\ <<k>> \in OneKey
      BY OnesAre
    <3> QED BY <2>2, <3>1, <3>2, AnswerStep
  <2> QED BY <2>1, <2>3, <2>4, <2>5
<1>8. CASE \E fresh \in BOOLEAN, cut \in {0, 1}, more \in {<<>>, <<SOH, MAIN_VER>>} :
              (cut = 0 \/ more = <<>>) /\ Parse(fresh, cut, more)
  BY <1>8, ParseStep
<1>9. CASE UNCHANGED vars
  <2>1. /\ seq' = seq /\ req' = req /\ made' = made /\ leg' = leg /\ pkt' = pkt /\ orig' = orig
        /\ ck' = ck /\ key' = key /\ resv' = resv
    BY <1>9 DEF vars
  <2> QED BY <2>1 DEF ClientIInv, AsMade, OnItsWay
<1> QED BY <1>1, <1>2, <1>3, <1>4, <1>5, <1>6, <1>7, <1>8, <1>9 DEF Next

\* The invariant always holds: whatever was made, and wherever the packet is,
\* it is the one that set out, with the relays' cookie, key and reserve on it.
THEOREM ClientInvariant == Spec => []ClientIInv
<1>1. Init => ClientIInv
  BY ClientInit
<1>2. ClientIInv /\ [Next]_vars => ClientIInv'
  BY ClientNext
<1> QED BY <1>1, <1>2, PTL DEF Spec

\* Relays that call SetCookie, DelCookie, SetUins, SetReserve, EncryptPack and
\* Decrypt leave a packet that CheckPack accepts, with the body, the command and
\* the sequence number it set out with, from which GetCookie takes the cookie
\* that was last put on it.
THEOREM TransitKeepsPackets == Spec => []TransitIntact
<1>1. ClientIInv => TransitIntact
  <2> SUFFICES ASSUME ClientIInv, leg # "idle" PROVE TransitIntact
    BY DEF TransitIntact
  <2>1. Travels(pkt, orig, Len(orig), ck, key, resv)
    BY WayIs
  <2> QED BY <2>1, TravelsIntact DEF TransitIntact
<1> QED BY <1>1, ClientInvariant, PTL

\* How long the packet in a string is.
LEMMA MadeLength ==
    ASSUME NEW r \in AllRequests
    PROVE  Len(MakeReq(r).pack) \in Nat
<1> DEFINE x == PackCalls(r)
           p == GetPack(r.header, GetBody(x))
<1>1. r.header \in Headers /\ HasWord(x)
  BY CallsAre
<1>2. GetBody(x) \in Seq(Byte)
  BY <1>1, BodyIs DEF HasWord
<1>3. p \in Seq(Byte)
  BY <1>1, <1>2, PackBytes
<1>4. MakeReq(r).pack = <<>> \/ MakeReq(r).pack = p
  BY DEF MakeReq
<1> QED BY <1>3, <1>4

\* MakeReq with a FixedPacker makes the packet that MakeReq with a Packer makes if
\* the buffer holds it, and otherwise returns -1 without one, unless the packet is
\* one byte longer than the buffer.
THEOREM BuffersAsStrings == Spec => []BufferAsString
<1>1. ClientIInv => BufferAsString
  <2> SUFFICES ASSUME ClientIInv, made.room # 0 PROVE BufferAsString
    BY DEF BufferAsString
  <2>1. PICK r \in Asked : req = <<r>> /\ AsString(r, made.room, made)
    BY DEF ClientIInv, AsMade
  <2>2. req[1] = r /\ made.room \in Nat
    BY <2>1 DEF ClientIInv, AsMade
  <2>3. Len(MakeReq(r).pack) \in Nat
    BY <2>1, AskedIs, MadeLength
  <2> DEFINE s == MakeReq(r)
             n == Len(s.pack)
  <2>4. IF made.room >= MSG_HEADER_LEN + 1 /\ n - 1 <= made.room
        THEN made.ret = s.ret /\ made.pack = s.pack
        ELSE made.ret = -1 /\ made.pack = <<>>
    BY <2>1 DEF AsString
  <2>5. n \in Nat
    BY <2>3
  <2> HIDE DEF n
  <2>6. n <= made.room => n - 1 <= made.room
    BY <2>2, <2>5
  <2>7. ~(n <= made.room) /\ n # made.room + 1 => ~(n - 1 <= made.room)
    BY <2>2, <2>5
  <2> QED BY <2>2, <2>4, <2>6, <2>7 DEF BufferAsString, n
<1> QED BY <1>1, ClientInvariant, PTL
=============================================================================
