----------------------------- MODULE Heap_proofs -----------------------------
(***************************************************************************)
(* Machine-checked proofs about the heap (BuddyCache over Buddy), for every *)
(* size and number of levels of a region, any number of processors and any  *)
(* number of calls.                                                         *)
(***************************************************************************)
EXTENDS BuddyCache, WellFoundedInduction, TLAPS

(* Numbers *****************************************************************)
\* A set of numbers has a least one.
LEMMA LeastNumber ==
  ASSUME NEW T, T \subseteq Nat, T # {}
  PROVE  \E m \in T : \A i \in T : m <= i
<1>1. PICK m \in T : \A i \in T : ~ (<<i, m>> \in OpToRel(<, Nat))
  BY NatLessThanWellFounded, WFMin
<1>2. ASSUME NEW i \in T PROVE m <= i
  <2>1. m \in Nat /\ i \in Nat
    OBVIOUS
  <2>2. ~ (i < m)
    BY <1>1, <2>1 DEF OpToRel
  <2>3. QED BY <2>1, <2>2
<1>3. QED BY <1>2

\* A set of numbers below a bound has a greatest one, and Max is it.
LEMMA GreatestNumber ==
  ASSUME NEW n \in Nat, NEW T, T \subseteq 0 .. n, T # {}
  PROVE  Max(T) \in T /\ \A i \in T : i <= Max(T)
<1> DEFINE D == {n - i : i \in T}
<1>1. D \subseteq Nat /\ D # {}
  <2>1. ASSUME NEW i \in T PROVE n - i \in Nat
    OBVIOUS
  <2>2. QED BY <2>1
<1>2. PICK d \in D : \A e \in D : d <= e
  <2> HIDE DEF D
  <2>1. QED BY <1>1, LeastNumber
<1>3. PICK i \in T : d = n - i
  BY <1>2
<1>4. ASSUME NEW j \in T PROVE i >= j
  <2>1. n - i <= n - j
    BY <1>2, <1>3
  <2>2. QED BY <2>1
<1>5. Max(T) \in T /\ \A j \in T : Max(T) >= j
  BY <1>4 DEF Max
<1>6. QED BY <1>5

\* Division with remainder, and that it is unique.
LEMMA Remainder ==
  ASSUME NEW D \in Nat \ {0}, NEW a \in Nat
  PROVE  a \div D \in Nat /\ a % D \in 0 .. D - 1 /\ a = D * (a \div D) + (a % D)
<1>1. a \div D \in Int /\ a % D \in 0 .. D - 1 /\ a = D * (a \div D) + (a % D)
  BY Z3
<1>2. ASSUME a \div D <= -1 PROVE FALSE
  <2>1. D * (a \div D) <= -D
    BY <1>1, <1>2, Z3
  <2>2. QED BY <1>1, <2>1
<1>3. QED BY <1>1, <1>2

LEMMA RemainderUnique ==
  ASSUME NEW D \in Nat \ {0}, NEW q \in Int, NEW k \in Int, NEW r \in 0 .. D - 1, NEW s \in 0 .. D - 1,
         D * q + r = D * k + s
  PROVE  q = k /\ r = s
<1>1. D * (q - k) = s - r
  BY Z3
<1>2. CASE q - k >= 1
  <2>1. D * (q - k) >= D
    BY <1>2, Z3
  <2>2. QED BY <1>1, <2>1
<1>3. CASE k - q >= 1
  <2>1. D * (q - k) <= -D
    BY <1>3, Z3
  <2>2. QED BY <1>1, <2>1
<1>4. CASE q = k
  BY <1>4
<1>5. QED
  BY <1>2, <1>3, <1>4

\* The quotient that one finds is the one.
LEMMA Quotient ==
  ASSUME NEW D \in Nat \ {0}, NEW q \in Nat, NEW r \in 0 .. D - 1, NEW a, a = D * q + r
  PROVE  a \in Nat /\ a \div D = q /\ a % D = r
<1>1. D * q \in Nat
  BY Z3
<1>2. a \in Nat
  BY <1>1
<1>3. a \div D \in Nat /\ a % D \in 0 .. D - 1 /\ a = D * (a \div D) + (a % D)
  BY <1>2, Remainder
<1>4. QED BY <1>2, <1>3, RemainderUnique

(* Sizes *******************************************************************)
\* What the definition of Pow2 says.
LEMMA Doubling ==
  /\ Pow2[0] = 1
  /\ \A n \in 1 .. Levels : Pow2[n] = 2 * Pow2[n - 1]
  /\ \A n \in 0 .. Levels : Pow2[n] \in Nat \ {0}
<1> DEFINE Go(f, n) == IF n = 0 THEN 1 ELSE 2 * f[n - 1]
           T == {m \in Nat : ~ \E f : f = [n \in 0 .. m |-> Go(f, n)]}
<1>0. Levels \in Nat
  BY BuddyAssumption
<1>1. T = {}
  <2>1. SUFFICES ASSUME T # {} PROVE FALSE
    OBVIOUS
  <2>2. PICK m \in T : \A k \in T : m <= k
    BY <2>1, LeastNumber
  <2>3. m \in Nat /\ ~ \E f : f = [n \in 0 .. m |-> Go(f, n)]
    OBVIOUS
  <2>4. CASE m = 0
    <3> DEFINE f == [n \in 0 .. 0 |-> 1]
    <3>1. f = [n \in 0 .. 0 |-> Go(f, n)]
      OBVIOUS
    <3>2. QED BY <2>3, <2>4, <3>1
  <2>5. CASE m # 0
    <3>1. m - 1 \in Nat /\ m - 1 \notin T
      <4> HIDE DEF T
      <4>1. m - 1 \in Nat /\ ~(m <= m - 1)
        BY <2>3, <2>5
      <4>2. QED BY <2>2, <4>1
    <3>2. PICK g : g = [n \in 0 .. m - 1 |-> Go(g, n)]
      BY <3>1
    <3> DEFINE f == [n \in 0 .. m |-> Go(g, n)]
    <3>3. ASSUME NEW n \in 0 .. m PROVE Go(g, n) = Go(f, n)
      <4>1. CASE n = 0
        BY <4>1
      <4>2. CASE n # 0
        <5>1. n - 1 \in 0 .. m - 1 /\ n - 1 \in 0 .. m
          BY <2>3, <4>2
        <5>2. g[n - 1] = Go(g, n - 1)
          BY <3>2, <5>1
        <5>3. f[n - 1] = Go(g, n - 1)
          BY <5>1
        <5> HIDE DEF f
        <5>4. QED BY <4>2, <5>2, <5>3
      <4>3. QED BY <4>1, <4>2
    <3>4. f = [n \in 0 .. m |-> Go(f, n)]
      BY <3>3
    <3> HIDE DEF f
    <3>5. QED BY <2>3, <3>4
  <2>6. QED BY <2>4, <2>5
<1>2. \E f : f = [n \in 0 .. Levels |-> Go(f, n)]
  BY <1>0, <1>1
<1>3. Pow2 = [n \in 0 .. Levels |-> Go(Pow2, n)]
  <2>1. Pow2 = CHOOSE f : f = [n \in 0 .. Levels |-> Go(f, n)]
    BY DEF Pow2
  <2>2. QED BY <1>2, <2>1
<1>4. \A n \in 0 .. Levels : Pow2[n] = IF n = 0 THEN 1 ELSE 2 * Pow2[n - 1]
  BY <1>3
<1>5. Pow2[0] = 1 /\ \A n \in 1 .. Levels : Pow2[n] = 2 * Pow2[n - 1]
  BY <1>0, <1>4
<1> DEFINE B == {n \in 0 .. Levels : Pow2[n] \notin Nat \ {0}}
<1>6. B = {}
  <2>1. SUFFICES ASSUME B # {} PROVE FALSE
    OBVIOUS
  <2>2. B \subseteq Nat
    BY <1>0
  <2>3. PICK n \in B : \A k \in B : n <= k
    BY <2>1, <2>2, LeastNumber
  <2>4. n # 0
    BY <1>5
  <2>5. n - 1 \in 0 .. Levels /\ n \in 1 .. Levels /\ ~(n <= n - 1)
    BY <1>0, <2>4
  <2>6. n - 1 \notin B
    <3> HIDE DEF B
    <3>1. QED BY <2>3, <2>5
  <2>7. Pow2[n - 1] \in Nat \ {0} /\ Pow2[n] = 2 * Pow2[n - 1]
    BY <1>5, <2>5, <2>6
  <2>8. Pow2[n] \in Nat \ {0}
    BY <2>7
  <2>9. QED BY <2>8
<1>7. QED BY <1>5, <1>6

\* Smaller levels are fewer: what doubles has at least doubled.
LEMMA PowersGrow ==
  ASSUME NEW m \in 0 .. Levels, NEW n \in 0 .. Levels, m < n
  PROVE  2 * Pow2[m] <= Pow2[n]
<1> DEFINE B == {k \in m + 1 .. Levels : ~(2 * Pow2[m] <= Pow2[k])}
<1>0. Levels \in Nat /\ m \in Nat
  BY BuddyAssumption
<1>1. SUFFICES B = {}
  BY <1>0
<1>2. SUFFICES ASSUME B # {} PROVE FALSE
  OBVIOUS
<1>3. B \subseteq Nat
  BY <1>0
<1>4. PICK k \in B : \A j \in B : k <= j
  BY <1>2, <1>3, LeastNumber
<1>5. k \in m + 1 .. Levels /\ ~(2 * Pow2[m] <= Pow2[k])
  OBVIOUS
<1>6. Pow2[m] \in Nat /\ Pow2[k - 1] \in Nat /\ Pow2[k] = 2 * Pow2[k - 1]
  <2>1. k \in 1 .. Levels /\ k - 1 \in 0 .. Levels
    BY <1>0, <1>5
  <2>2. QED BY <2>1, Doubling
<1>7. CASE k = m + 1
  BY <1>0, <1>5, <1>6, <1>7
<1>8. CASE k # m + 1
  <2>1. k - 1 \in m + 1 .. Levels /\ ~(k <= k - 1)
    BY <1>0, <1>5, <1>8
  <2>2. 2 * Pow2[m] <= Pow2[k - 1]
    <3>1. k - 1 \notin B
      <4> HIDE DEF B
      <4>1. QED BY <1>4, <2>1
    <3>2. QED BY <2>1, <3>1
  <2>3. QED BY <1>5, <1>6, <2>2
<1>9. QED BY <1>7, <1>8

\* The sizes of the levels: all of the region, and half of the level above.
LEMMA SizesHalve ==
  /\ Cap \in Nat \ {0}
  /\ SizeAt(0) = Cap
  /\ \A l \in 0 .. Levels - 1 : SizeAt(l) \in Nat \ {0} /\ SizeAt(l) * Pow2[l] = Cap
  /\ \A l \in 1 .. Levels - 1 : SizeAt(l - 1) = 2 * SizeAt(l)
<1> DEFINE Q(l) == MinSize * Pow2[Levels - 1 - l]
           B == {l \in 0 .. Levels - 1 : ~(Q(l) * Pow2[l] = Cap)}
<1>0. Levels \in Nat /\ Levels - 1 \in Nat /\ MinSize \in Nat \ {0}
  BY BuddyAssumption
<1>1. ASSUME NEW l \in 0 .. Levels - 1 PROVE Q(l) \in Nat \ {0}
  <2>1. Pow2[Levels - 1 - l] \in Nat \ {0}
    <3>1. Levels - 1 - l \in 0 .. Levels
      BY <1>0
    <3>2. QED BY <3>1, Doubling
  <2> DEFINE p == Pow2[Levels - 1 - l]
  <2> HIDE DEF p
  <2>2. MinSize * p \in Nat \ {0}
    <3>1. p \in Nat \ {0}
      BY <2>1 DEF p
    <3>2. QED BY <1>0, <3>1, Z3
  <2>3. QED BY <2>2 DEF p
<1>2. ASSUME NEW l \in 1 .. Levels - 1 PROVE Q(l - 1) = 2 * Q(l)
  <2>1. Levels - 1 - (l - 1) \in 1 .. Levels /\ Levels - 1 - l \in 0 .. Levels
        /\ Levels - 1 - (l - 1) - 1 = Levels - 1 - l
    BY <1>0
  <2>2. Pow2[Levels - 1 - (l - 1)] = 2 * Pow2[Levels - 1 - l] /\ Pow2[Levels - 1 - l] \in Nat
    BY <2>1, Doubling
  <2> DEFINE p == Pow2[Levels - 1 - l]
  <2> HIDE DEF p
  <2>3. MinSize * (2 * p) = 2 * (MinSize * p)
    <3>1. p \in Nat
      BY <2>2 DEF p
    <3>2. QED BY <1>0, <3>1, Z3
  <2>4. QED BY <2>2, <2>3 DEF p
<1>3. B = {}
  <2>1. SUFFICES ASSUME B # {} PROVE FALSE
    OBVIOUS
  <2>2. B \subseteq Nat
    BY <1>0
  <2>3. PICK l \in B : \A k \in B : l <= k
    BY <2>1, <2>2, LeastNumber
  <2>4. l \in 0 .. Levels - 1 /\ ~(Q(l) * Pow2[l] = Cap)
    OBVIOUS
  <2>5. CASE l = 0
    <3>1. Levels - 1 - 0 = Levels - 1 /\ Pow2[0] = 1
      BY <1>0, Doubling
    <3>2. Q(0) * Pow2[0] = Cap
      <4>1. Q(0) \in Nat
        BY <1>0, <1>1
      <4>2. Q(0) = Cap
        BY <3>1 DEF Cap
      <4> HIDE DEF Q
      <4>3. QED BY <3>1, <4>1, <4>2
    <3>3. QED BY <2>4, <2>5, <3>2
  <2>6. CASE l # 0
    <3>1. l - 1 \in 0 .. Levels - 1 /\ l \in 1 .. Levels - 1 /\ l \in 1 .. Levels /\ ~(l <= l - 1)
      BY <1>0, <2>4, <2>6
    <3>2. l - 1 \notin B
      <4> HIDE DEF B
      <4>1. QED BY <2>3, <3>1
    <3>3. Q(l - 1) * Pow2[l - 1] = Cap
      BY <3>1, <3>2
    <3>4. Q(l - 1) = 2 * Q(l) /\ Q(l) \in Nat /\ Pow2[l] = 2 * Pow2[l - 1] /\ Pow2[l - 1] \in Nat
      <4>1. l - 1 \in 0 .. Levels
        BY <1>0, <3>1
      <4>2. QED BY <1>1, <1>2, <2>4, <3>1, <4>1, Doubling
    <3> DEFINE q == Q(l)
               p == Pow2[l - 1]
    <3> HIDE DEF q, p, Q
    <3>5. (2 * q) * p = q * (2 * p)
      <4>1. q \in Nat /\ p \in Nat
        BY <3>4 DEF q, p
      <4>2. QED BY <4>1, Z3
    <3>6. QED BY <2>4, <3>3, <3>4, <3>5 DEF q, p
  <2>7. QED BY <2>5, <2>6
<1>4. ASSUME NEW l \in 0 .. Levels - 1
      PROVE  SizeAt(l) = Q(l) /\ Q(l) * Pow2[l] = Cap
  <2>1. Q(l) * Pow2[l] = Cap
    BY <1>3
  <2>2. Pow2[l] \in Nat \ {0} /\ Q(l) \in Nat
    <3>1. l \in 0 .. Levels
      BY <1>0
    <3>2. QED BY <1>1, <3>1, Doubling
  <2> DEFINE q == Q(l)
             p == Pow2[l]
  <2> HIDE DEF q, p
  <2>3. Cap = p * q + 0 /\ p \in Nat \ {0} /\ q \in Nat /\ 0 \in 0 .. p - 1
    <3>1. p \in Nat \ {0} /\ q \in Nat /\ q * p = Cap
      BY <2>1, <2>2 DEF q, p
    <3>2. p * q + 0 = q * p
      BY <3>1, Z3
    <3>3. QED BY <3>1, <3>2
  <2>4. Cap \div p = q
    BY <2>3, Quotient
  <2>5. QED BY <2>1, <2>4 DEF SizeAt, q, p
<1>5. SizeAt(0) = Cap
  <2>1. 0 \in 0 .. Levels - 1 /\ Levels - 1 - 0 = Levels - 1
    BY <1>0
  <2>2. QED BY <1>4, <2>1 DEF Cap
<1>6. Cap \in Nat \ {0}
  <2>1. 0 \in 0 .. Levels - 1
    BY <1>0
  <2>2. QED BY <1>1, <1>4, <1>5, <2>1
<1>7. \A l \in 0 .. Levels - 1 : SizeAt(l) \in Nat \ {0} /\ SizeAt(l) * Pow2[l] = Cap
  BY <1>1, <1>4
<1>8. ASSUME NEW l \in 1 .. Levels - 1 PROVE SizeAt(l - 1) = 2 * SizeAt(l)
  <2>1. l \in 0 .. Levels - 1 /\ l - 1 \in 0 .. Levels - 1
    BY <1>0
  <2>2. QED BY <1>2, <1>4, <2>1
<1>9. QED BY <1>5, <1>6, <1>7, <1>8

(* Blocks ******************************************************************)
\* The block of level l that x lies in, counted from the left, and its bytes.
Pos(x, l) == x \div SizeAt(l)
Rest(x, l) == x % SizeAt(l)
Addresses == 0 .. Cap - 1
Cell(l, x) == {y \in Addresses : Pos(y, l) = Pos(x, l)}
Blocks == {b \in (1 .. Levels - 1) \X Addresses : Start(b[2], b[1]) = b[2]}

LEMMA PosOf ==
  ASSUME NEW l \in 0 .. Levels - 1, NEW x \in Addresses
  PROVE  /\ Pos(x, l) \in 0 .. Pow2[l] - 1
         /\ Rest(x, l) \in 0 .. SizeAt(l) - 1
         /\ x = SizeAt(l) * Pos(x, l) + Rest(x, l)
<1> DEFINE s == SizeAt(l)
           p == Pow2[l]
           q == Pos(x, l)
           r == Rest(x, l)
<1>1. s \in Nat \ {0} /\ s * p = Cap /\ p \in Nat \ {0}
  <2>1. l \in 0 .. Levels
    BY BuddyAssumption
  <2>2. QED BY <2>1, SizesHalve, Doubling
<1>2. x \in Nat /\ x < Cap
  BY SizesHalve DEF Addresses
<1> HIDE DEF s, p
<1>3. q \in Nat /\ r \in 0 .. s - 1 /\ x = s * q + r
  <2>1. s \in Nat \ {0} /\ x \in Nat
    BY <1>1, <1>2
  <2>2. x \div s \in Nat /\ x % s \in 0 .. s - 1 /\ x = s * (x \div s) + (x % s)
    BY <2>1, Remainder
  <2>3. QED BY <2>2 DEF Pos, Rest, s
<1> HIDE DEF q, r
<1>4. ASSUME q >= p PROVE FALSE
  <2>1. s * q >= s * p
    BY <1>1, <1>3, <1>4, Z3
  <2>2. s * q \in Nat
    BY <1>1, <1>3, Z3
  <2>3. QED BY <1>1, <1>2, <1>3, <2>1, <2>2
<1>5. QED BY <1>1, <1>3, <1>4 DEF s, p, q, r

\* An address is a block and a rest in one way.
LEMMA PosFound ==
  ASSUME NEW l \in 0 .. Levels - 1, NEW q \in 0 .. Pow2[l] - 1, NEW r \in 0 .. SizeAt(l) - 1,
         NEW x, x = SizeAt(l) * q + r
  PROVE  x \in Addresses /\ Pos(x, l) = q /\ Rest(x, l) = r
<1> DEFINE s == SizeAt(l)
           p == Pow2[l]
<1>1. s \in Nat \ {0} /\ s * p = Cap /\ p \in Nat \ {0}
  <2>1. l \in 0 .. Levels
    BY BuddyAssumption
  <2>2. QED BY <2>1, SizesHalve, Doubling
<1>2. q \in 0 .. p - 1 /\ r \in 0 .. s - 1 /\ x = s * q + r
  OBVIOUS
<1> HIDE DEF s, p
<1>3. x \in Nat /\ x \div s = q /\ x % s = r
  <2>1. q \in Nat
    BY <1>1, <1>2
  <2>2. QED BY <1>1, <1>2, <2>1, Quotient
<1>4. x <= Cap - 1
  <2>1. s * (q + 1) <= s * p
    BY <1>1, <1>2, Z3
  <2>2. s * (q + 1) = s * q + s
    BY <1>1, <1>2, Z3
  <2>3. s * q \in Nat
    BY <1>1, <1>2, Z3
  <2>4. QED BY <1>1, <1>2, <2>1, <2>2, <2>3
<1>5. QED BY <1>1, <1>3, <1>4 DEF s, Pos, Rest, Addresses

\* The two halves of a block: the bytes of the one above are those of the two.
LEMMA PosAbove ==
  ASSUME NEW l \in 1 .. Levels - 1, NEW x \in Addresses
  PROVE  Pos(x, l) = 2 * Pos(x, l - 1) \/ Pos(x, l) = 2 * Pos(x, l - 1) + 1
<1> DEFINE s == SizeAt(l)
           q == Pos(x, l)
           r == Rest(x, l)
<1>0. Levels \in Nat /\ l \in 0 .. Levels - 1 /\ l - 1 \in 0 .. Levels - 1 /\ l \in 1 .. Levels
  BY BuddyAssumption
<1>1. q \in 0 .. Pow2[l] - 1 /\ r \in 0 .. s - 1 /\ x = s * q + r
  BY <1>0, PosOf
<1>2. s \in Nat \ {0} /\ SizeAt(l - 1) = 2 * s /\ Pow2[l] = 2 * Pow2[l - 1] /\ Pow2[l - 1] \in Nat
  <2>1. l - 1 \in 0 .. Levels
    BY <1>0
  <2>2. QED BY <1>0, <2>1, SizesHalve, Doubling
<1> HIDE DEF s, q, r
<1>3. q \in Nat
  BY <1>1, <1>2
<1>4. PICK k \in Nat : q = 2 * k \/ q = 2 * k + 1
  <2>1. 2 \in Nat \ {0}
    OBVIOUS
  <2>2. q \div 2 \in Nat /\ q % 2 \in 0 .. 1 /\ q = 2 * (q \div 2) + (q % 2)
    BY <1>3, <2>1, Remainder
  <2>3. QED BY <2>2
<1>5. k \in 0 .. Pow2[l - 1] - 1
  BY <1>1, <1>2, <1>4
<1>6. ASSUME q = 2 * k PROVE Pos(x, l - 1) = k
  <2>1. s * (2 * k) = (2 * s) * k
    BY <1>2, Z3
  <2>2. x = SizeAt(l - 1) * k + r /\ r \in 0 .. SizeAt(l - 1) - 1
    BY <1>1, <1>2, <1>6, <2>1
  <2>3. QED BY <1>0, <1>5, <2>2, PosFound
<1>7. ASSUME q = 2 * k + 1 PROVE Pos(x, l - 1) = k
  <2>1. s * (2 * k + 1) = (2 * s) * k + s
    BY <1>2, Z3
  <2>2. (2 * s) * k \in Nat
    BY <1>2, Z3
  <2>3. x = SizeAt(l - 1) * k + (s + r) /\ s + r \in 0 .. SizeAt(l - 1) - 1
    BY <1>1, <1>2, <1>7, <2>1, <2>2
  <2>4. QED BY <1>0, <1>5, <2>3, PosFound
<1>8. QED BY <1>3, <1>4, <1>6, <1>7 DEF q

\* Who shares a block of a level shares those of all levels above.
LEMMA SharedAbove ==
  ASSUME NEW m \in 0 .. Levels - 1, NEW l \in 0 .. Levels - 1, m <= l,
         NEW x \in Addresses, NEW y \in Addresses, Pos(x, l) = Pos(y, l)
  PROVE  Pos(x, m) = Pos(y, m)
<1> DEFINE B == {n \in 0 .. l : Pos(x, n) # Pos(y, n)}
<1>0. Levels \in Nat /\ l \in Nat
  BY BuddyAssumption
<1>1. SUFFICES B = {}
  BY <1>0
<1>2. SUFFICES ASSUME B # {} PROVE FALSE
  OBVIOUS
<1>3. Max(B) \in B /\ \A i \in B : i <= Max(B)
  <2> HIDE DEF B
  <2>1. B \subseteq 0 .. l
    BY DEF B
  <2>2. QED BY <1>0, <1>2, <2>1, GreatestNumber
<1> DEFINE n == Max(B)
<1> HIDE DEF n
<1>4. n \in 0 .. l /\ Pos(x, n) # Pos(y, n)
  BY <1>3 DEF n
<1>5. n + 1 \in 1 .. l /\ n + 1 \in 1 .. Levels - 1 /\ ~(n + 1 <= n) /\ n + 1 - 1 = n
  BY <1>0, <1>4
<1>6. Pos(x, n + 1) = Pos(y, n + 1)
  <2>1. n + 1 \notin B
    <3> HIDE DEF B
    <3>1. QED BY <1>3, <1>5 DEF n
  <2>2. QED BY <1>0, <1>5, <2>1
<1>7. Pos(x, n) \in Nat /\ Pos(y, n) \in Nat
  <2>1. n \in 0 .. Levels - 1 /\ n \in 0 .. Levels
    BY <1>0, <1>4
  <2>2. QED BY <2>1, PosOf, Doubling
<1>8. (Pos(x, n + 1) = 2 * Pos(x, n) \/ Pos(x, n + 1) = 2 * Pos(x, n) + 1)
      /\ (Pos(y, n + 1) = 2 * Pos(y, n) \/ Pos(y, n + 1) = 2 * Pos(y, n) + 1)
  <2> DEFINE k == n + 1
  <2>1. k \in 1 .. Levels - 1 /\ k - 1 = n
    BY <1>0, <1>4, <1>5
  <2> HIDE DEF k
  <2>2. /\ Pos(x, k) = 2 * Pos(x, k - 1) \/ Pos(x, k) = 2 * Pos(x, k - 1) + 1
        /\ Pos(y, k) = 2 * Pos(y, k - 1) \/ Pos(y, k) = 2 * Pos(y, k - 1) + 1
    BY <2>1, PosAbove
  <2>3. QED BY <2>1, <2>2 DEF k
<1>9. QED BY <1>4, <1>6, <1>7, <1>8

\* Where the block around x starts.
LEMMA StartOf ==
  ASSUME NEW l \in 0 .. Levels - 1, NEW x \in Addresses
  PROVE  /\ Start(x, l) \in Addresses
         /\ Start(x, l) = SizeAt(l) * Pos(x, l)
         /\ Pos(Start(x, l), l) = Pos(x, l)
         /\ Start(Start(x, l), l) = Start(x, l)
<1> DEFINE s == SizeAt(l)
           q == Pos(x, l)
           r == Rest(x, l)
           a == Start(x, l)
<1>1. q \in 0 .. Pow2[l] - 1 /\ r \in 0 .. s - 1 /\ x = s * q + r
  BY PosOf
<1>2. s \in Nat \ {0} /\ Pow2[l] \in Nat
  <2>1. l \in 0 .. Levels
    BY BuddyAssumption
  <2>2. QED BY <2>1, SizesHalve, Doubling
<1>3. a = x - r
  BY DEF Start, Rest
<1> HIDE DEF s, q, r, a
<1>4. s * q \in Nat
  <2>1. q \in Nat
    BY <1>1, <1>2
  <2>2. QED BY <1>2, <2>1, Z3
<1>5. a = s * q /\ a = s * q + 0 /\ 0 \in 0 .. s - 1
  BY <1>1, <1>2, <1>3, <1>4
<1>6. a \in Addresses /\ Pos(a, l) = q /\ Rest(a, l) = 0
  BY <1>1, <1>5, PosFound DEF s
<1>7. Start(a, l) = a
  <2>1. a \in Nat
    BY <1>4, <1>5
  <2>2. QED BY <1>6, <2>1 DEF Start, Rest
<1>8. QED BY <1>5, <1>6, <1>7 DEF a, s, q

\* The bytes of a block are those that share it.
LEMMA CellIsBytes ==
  ASSUME NEW l \in 0 .. Levels - 1, NEW x \in Addresses, Start(x, l) = x
  PROVE  Cell(l, x) = x .. x + SizeAt(l) - 1
<1> DEFINE s == SizeAt(l)
           q == Pos(x, l)
<1>1. s \in Nat \ {0} /\ Pow2[l] \in Nat
  <2>1. l \in 0 .. Levels
    BY BuddyAssumption
  <2>2. QED BY <2>1, SizesHalve, Doubling
<1>2. q \in 0 .. Pow2[l] - 1 /\ x = s * q
  BY PosOf, StartOf
<1>3. s * q \in Nat
  BY <1>1, <1>2, Z3
<1>4. ASSUME NEW y \in x .. x + s - 1 PROVE y \in Cell(l, x)
  <2>1. y - x \in 0 .. s - 1 /\ y = s * q + (y - x)
    BY <1>1, <1>2, <1>3
  <2> HIDE DEF s, q
  <2>2. y \in Addresses /\ Pos(y, l) = q
    BY <1>2, <2>1, PosFound DEF s
  <2>3. QED BY <2>2 DEF Cell, q
<1>5. ASSUME NEW y \in Cell(l, x) PROVE y \in x .. x + s - 1
  <2>1. y \in Addresses /\ Pos(y, l) = q
    BY DEF Cell
  <2> DEFINE r == Rest(y, l)
  <2>2. r \in 0 .. s - 1 /\ y = s * q + r
    BY <2>1, PosOf
  <2> HIDE DEF s, q, r
  <2>4. QED BY <1>1, <1>2, <1>3, <2>2
<1>6. QED BY <1>4, <1>5

\* A block that starts at x at one level does at every level below.
LEMMA StartsBelow ==
  ASSUME NEW m \in 0 .. Levels - 1, NEW l \in 0 .. Levels - 1, m <= l,
         NEW x \in Addresses, Start(x, m) = x
  PROVE  Start(x, l) = x
<1> DEFINE B == {n \in m .. l : Start(x, n) # x}
<1>0. Levels \in Nat /\ l \in Nat /\ m \in Nat
  BY BuddyAssumption
<1>1. SUFFICES B = {}
  BY <1>0
<1>2. SUFFICES ASSUME B # {} PROVE FALSE
  OBVIOUS
<1>3. B \subseteq Nat
  BY <1>0
<1>4. PICK n \in B : \A i \in B : n <= i
  BY <1>2, <1>3, LeastNumber
<1>5. n \in m .. l /\ Start(x, n) # x
  OBVIOUS
<1> DEFINE k == n - 1
<1>6. k \in m .. l /\ k \in 0 .. Levels - 1 /\ ~(n <= k) /\ n \in 1 .. Levels - 1 /\ n \in 0 .. Levels - 1
  <2>1. n # m
    BY <1>5
  <2>2. QED BY <1>0, <1>5, <2>1
<1> HIDE DEF k
<1>7. Start(x, k) = x
  <2>1. k \notin B
    <3> HIDE DEF B
    <3>1. QED BY <1>4, <1>6
  <2>2. QED BY <1>6, <2>1
<1> DEFINE s == SizeAt(n)
           p == Pos(x, k)
<1>8. SizeAt(k) = 2 * s /\ s \in Nat \ {0}
  BY <1>6, SizesHalve DEF k
<1>9. x = (2 * s) * p /\ p \in 0 .. Pow2[k] - 1
  BY <1>6, <1>7, <1>8, StartOf, PosOf
<1>10. Pow2[n] = 2 * Pow2[k] /\ Pow2[k] \in Nat
  <2>1. n \in 1 .. Levels /\ k \in 0 .. Levels
    BY <1>0, <1>6
  <2>2. QED BY <2>1, Doubling DEF k
<1> HIDE DEF s, p
<1>11. x = s * (2 * p) + 0 /\ 2 * p \in 0 .. Pow2[n] - 1 /\ 0 \in 0 .. s - 1
  <2>1. p \in Nat
    BY <1>9, <1>10
  <2>2. (2 * s) * p = s * (2 * p) /\ s * (2 * p) \in Nat
    BY <1>8, <2>1, Z3
  <2>3. QED BY <1>8, <1>9, <1>10, <2>1, <2>2
<1>12. Rest(x, n) = 0 /\ x \in Nat
  <2>1. Rest(x, n) = 0
    BY <1>6, <1>11, PosFound DEF s
  <2>2. QED BY <2>1, SizesHalve DEF Addresses
<1>13. Start(x, n) = x
  BY <1>12 DEF Start, Rest
<1>14. QED BY <1>5, <1>13

\* The buddy of the block around x is the other half of the block above.
LEMMA BuddyIsOther ==
  ASSUME NEW l \in 1 .. Levels - 1, NEW x \in Addresses
  PROVE  /\ BuddyOf(x, l) \in Addresses
         /\ Start(BuddyOf(x, l), l) = BuddyOf(x, l)
         /\ Pos(BuddyOf(x, l), l - 1) = Pos(x, l - 1)
         /\ Pos(BuddyOf(x, l), l) # Pos(x, l)
         /\ Start(x, l - 1) = x => BuddyOf(x, l) = x + SizeAt(l)
<1> DEFINE k == l - 1
           s == SizeAt(l)
           h == Pos(x, k)
           p == Pos(x, l)
           b == BuddyOf(x, l)
           st == Start(x, l)
<1>0. Levels \in Nat /\ l \in 0 .. Levels - 1 /\ k \in 0 .. Levels - 1 /\ k \in 0 .. Levels /\ l \in 1 .. Levels
  BY BuddyAssumption
<1>1. s \in Nat \ {0} /\ Pow2[l] = 2 * Pow2[k] /\ Pow2[k] \in Nat \ {0}
  BY <1>0, SizesHalve, Doubling
<1>2. h \in 0 .. Pow2[k] - 1 /\ (p = 2 * h \/ p = 2 * h + 1) /\ st = s * p
  BY <1>0, PosOf, PosAbove, StartOf
<1>3. b = IF (Pow2[l] + p - 1) % 2 = 1 THEN st + s ELSE st - s
  BY DEF BuddyOf, BlockIndex, Pos
<1>4. Start(x, k) = x => x = (2 * s) * h
  <2>1. SizeAt(k) = 2 * s
    BY SizesHalve
  <2>2. QED BY <1>0, <2>1, StartOf
<1>5. \A y : y \in Addresses /\ (Pos(y, l) = 2 * h \/ Pos(y, l) = 2 * h + 1) => Pos(y, k) = h
  <2>1. TAKE y
  <2>2. HAVE y \in Addresses /\ (Pos(y, l) = 2 * h \/ Pos(y, l) = 2 * h + 1)
  <2>3. Pos(y, k) \in Nat /\ (Pos(y, l) = 2 * Pos(y, k) \/ Pos(y, l) = 2 * Pos(y, k) + 1)
    BY <1>0, <1>1, <2>2, PosOf, PosAbove
  <2> DEFINE py == Pos(y, l)
             pk == Pos(y, k)
  <2> HIDE DEF py, pk, h
  <2>4. h \in Nat /\ pk \in Nat /\ (py = 2 * pk \/ py = 2 * pk + 1) /\ (py = 2 * h \/ py = 2 * h + 1)
    BY <1>1, <1>2, <2>2, <2>3 DEF py, pk, h
  <2>5. QED BY <2>4 DEF pk, h
<1>6. \A q \in 0 .. Pow2[l] - 1 : s * q \in Addresses /\ Pos(s * q, l) = q /\ Start(s * q, l) = s * q
  <2>1. TAKE q \in 0 .. Pow2[l] - 1
  <2>2. 0 \in 0 .. s - 1 /\ q \in Nat
    BY <1>1
  <2>3. s * q \in Nat
    BY <1>1, <2>2, Z3
  <2> DEFINE a == s * q
  <2>4. a = s * q + 0
    BY <2>3
  <2> HIDE DEF a
  <2>5. a \in Addresses /\ Pos(a, l) = q /\ Rest(a, l) = 0
    BY <1>0, <2>1, <2>2, <2>4, PosFound
  <2>6. a \in Nat
    BY <2>3 DEF a
  <2>7. Start(a, l) = a
    BY <2>5, <2>6 DEF Start, Rest
  <2>8. QED BY <2>5, <2>7 DEF a
<1> HIDE DEF k, s, h, p, b, st
<1>7. h \in Nat /\ p \in Nat
  BY <1>1, <1>2
<1>8. CASE p = 2 * h
  <2> DEFINE m == Pow2[k] + h
  <2>1. m - 1 \in Nat /\ Pow2[l] + p - 1 = 2 * (m - 1) + 1
    BY <1>1, <1>7, <1>8
  <2>2. (Pow2[l] + p - 1) % 2 = 1
    <3> HIDE DEF m
    <3>1. 2 \in Nat \ {0} /\ 1 \in 0 .. 2 - 1
      OBVIOUS
    <3>2. QED BY <2>1, <3>1, Quotient
  <2>3. b = st + s
    BY <1>3, <2>2
  <2>4. s * (2 * h) + s = s * (2 * h + 1)
    BY <1>1, <1>7, Z3
  <2>5. b = s * (2 * h + 1)
    BY <1>2, <1>8, <2>3, <2>4
  <2>6. 2 * h + 1 \in 0 .. Pow2[l] - 1
    BY <1>1, <1>2, <1>7
  <2>7. b \in Addresses /\ Pos(b, l) = 2 * h + 1 /\ Start(b, l) = b
    BY <1>6, <2>5, <2>6
  <2>8. Pos(b, k) = h /\ Pos(b, l) # p
    BY <1>5, <1>7, <1>8, <2>7
  <2>9. Start(x, k) = x => b = x + s
    <3>1. (2 * s) * h = s * (2 * h)
      BY <1>1, <1>7, Z3
    <3>2. QED BY <1>2, <1>4, <1>8, <2>3, <3>1
  <2>10. QED BY <2>7, <2>8, <2>9 DEF k, h, p, b, s
<1>9. CASE p = 2 * h + 1
  <2> DEFINE m == Pow2[k] + h
  <2>1. m \in Nat /\ Pow2[l] + p - 1 = 2 * m + 0
    BY <1>1, <1>7, <1>9
  <2>2. (Pow2[l] + p - 1) % 2 = 0
    <3> HIDE DEF m
    <3>1. 2 \in Nat \ {0} /\ 0 \in 0 .. 2 - 1
      OBVIOUS
    <3>2. QED BY <2>1, <3>1, Quotient
  <2>3. b = st - s
    BY <1>3, <2>2
  <2>4. s * (2 * h + 1) - s = s * (2 * h)
    BY <1>1, <1>7, Z3
  <2>5. b = s * (2 * h)
    BY <1>2, <1>9, <2>3, <2>4
  <2>6. 2 * h \in 0 .. Pow2[l] - 1
    BY <1>1, <1>2, <1>7
  <2>7. b \in Addresses /\ Pos(b, l) = 2 * h /\ Start(b, l) = b
    BY <1>6, <2>5, <2>6
  <2>8. Pos(b, k) = h /\ Pos(b, l) # p
    BY <1>5, <1>7, <1>9, <2>7
  <2>9. Start(x, k) # x
    <3>1. ASSUME Start(x, k) = x PROVE FALSE
      <4>1. Start(x, l) = x
        <5>1. k <= l
          BY <1>0 DEF k
        <5>2. QED BY <1>0, <3>1, <5>1, StartsBelow
      <4>2. (2 * s) * h = s * (2 * h + 1)
        BY <1>2, <1>4, <1>9, <3>1, <4>1 DEF st
      <4>3. s * (2 * h + 1) = (2 * s) * h + s /\ (2 * s) * h \in Nat
        BY <1>1, <1>7, Z3
      <4>4. QED BY <1>1, <4>2, <4>3
    <3>2. QED BY <3>1
  <2>10. QED BY <2>7, <2>8, <2>9 DEF k, h, p, b, s
<1>10. QED BY <1>2, <1>8, <1>9

\* A block has two halves: x or its buddy.
LEMMA TwoHalves ==
  ASSUME NEW l \in 1 .. Levels - 1, NEW x \in Addresses, NEW y \in Addresses,
         Pos(y, l - 1) = Pos(x, l - 1)
  PROVE  Pos(y, l) = Pos(x, l) \/ Pos(y, l) = Pos(BuddyOf(x, l), l)
<1> DEFINE b == BuddyOf(x, l)
<1>1. b \in Addresses /\ Pos(b, l - 1) = Pos(x, l - 1) /\ Pos(b, l) # Pos(x, l)
  BY BuddyIsOther
<1> HIDE DEF b
<1>2. Pos(x, l - 1) \in Nat
  <2>1. l - 1 \in 0 .. Levels - 1 /\ l - 1 \in 0 .. Levels
    BY BuddyAssumption
  <2>2. QED BY <2>1, PosOf, Doubling
<1>3. /\ Pos(x, l) = 2 * Pos(x, l - 1) \/ Pos(x, l) = 2 * Pos(x, l - 1) + 1
      /\ Pos(b, l) = 2 * Pos(b, l - 1) \/ Pos(b, l) = 2 * Pos(b, l - 1) + 1
      /\ Pos(y, l) = 2 * Pos(y, l - 1) \/ Pos(y, l) = 2 * Pos(y, l - 1) + 1
  BY <1>1, PosAbove
<1>4. QED BY <1>1, <1>2, <1>3 DEF b

\* A merge bit is of one pair of buddies.
LEMMA IndexOfOne ==
  ASSUME NEW l \in 0 .. Levels - 1, NEW m \in 0 .. Levels - 1, NEW x \in Addresses, NEW y \in Addresses,
         BlockIndex(x, l) = BlockIndex(y, m)
  PROVE  l = m /\ Pos(x, l) = Pos(y, m)
<1>0. Levels \in Nat /\ l \in 0 .. Levels /\ m \in 0 .. Levels
  BY BuddyAssumption
<1>1. Pow2[l] + Pos(x, l) - 1 = Pow2[m] + Pos(y, m) - 1
  BY DEF BlockIndex, Pos
<1>2. Pos(x, l) \in 0 .. Pow2[l] - 1 /\ Pos(y, m) \in 0 .. Pow2[m] - 1
  BY PosOf
<1>3. Pow2[l] \in Nat /\ Pow2[m] \in Nat
  BY <1>0, Doubling
<1>4. CASE l < m
  <2>1. 2 * Pow2[l] <= Pow2[m]
    BY <1>0, <1>4, PowersGrow
  <2>2. QED BY <1>1, <1>2, <1>3, <2>1
<1>5. CASE m < l
  <2>1. 2 * Pow2[m] <= Pow2[l]
    BY <1>0, <1>5, PowersGrow
  <2>2. QED BY <1>1, <1>2, <1>3, <2>1
<1>6. CASE l = m
  BY <1>1, <1>2, <1>3, <1>6
<1>7. QED BY <1>0, <1>4, <1>5, <1>6

LEMMA IndexInRange ==
  ASSUME NEW l \in 1 .. Levels - 1, NEW x \in Addresses
  PROVE  BlockIndex(x, l - 1) \in 0 .. Pow2[Levels - 1] - 2
<1> DEFINE k == l - 1
<1>0. Levels \in Nat /\ k \in 0 .. Levels - 1 /\ k \in 0 .. Levels /\ Levels - 1 \in 0 .. Levels /\ k < Levels - 1
  BY BuddyAssumption
<1> HIDE DEF k
<1>1. Pos(x, k) \in 0 .. Pow2[k] - 1 /\ Pow2[k] \in Nat \ {0} /\ Pow2[Levels - 1] \in Nat
  BY <1>0, PosOf, Doubling
<1>2. 2 * Pow2[k] <= Pow2[Levels - 1]
  BY <1>0, PowersGrow
<1>3. BlockIndex(x, k) = Pow2[k] + Pos(x, k) - 1
  BY DEF BlockIndex, Pos
<1>4. BlockIndex(x, k) \in 0 .. Pow2[Levels - 1] - 2
  BY <1>1, <1>2, <1>3
<1>5. QED BY <1>4 DEF k

(* The bytes of blocks *****************************************************)
CellOf(b) == Cell(b[1], b[2])

LEMMA CellBasics ==
  ASSUME NEW l \in 0 .. Levels - 1, NEW x \in Addresses
  PROVE  /\ Cell(l, x) \subseteq Addresses
         /\ x \in Cell(l, x)
         /\ Start(x, l) \in Cell(l, x)
         /\ Cell(l, Start(x, l)) = Cell(l, x)
         /\ \A y \in Addresses : y \in Cell(l, x) <=> Pos(y, l) = Pos(x, l)
  BY StartOf DEF Cell

\* Blocks that share a byte lie in each other.
LEMMA CellsNest ==
  ASSUME NEW m \in 0 .. Levels - 1, NEW l \in 0 .. Levels - 1, m <= l,
         NEW x \in Addresses, NEW y \in Addresses, NEW z, z \in Cell(m, x), z \in Cell(l, y)
  PROVE  Cell(l, y) \subseteq Cell(m, x)
<1>1. z \in Addresses /\ Pos(z, m) = Pos(x, m) /\ Pos(z, l) = Pos(y, l)
  BY DEF Cell
<1>2. ASSUME NEW a \in Cell(l, y) PROVE a \in Cell(m, x)
  <2>1. a \in Addresses /\ Pos(a, l) = Pos(z, l)
    BY <1>1 DEF Cell
  <2>2. Pos(a, m) = Pos(z, m)
    BY <1>1, <2>1, SharedAbove
  <2>3. QED BY <1>1, <2>1, <2>2 DEF Cell
<1>3. QED BY <1>2

\* Blocks of a level that share a byte are the same.
LEMMA SameBlock ==
  ASSUME NEW b \in Blocks, NEW d \in Blocks, b[1] = d[1], Pos(b[2], b[1]) = Pos(d[2], b[1])
  PROVE  b = d
<1>1. b[1] \in 1 .. Levels - 1 /\ b[2] \in Addresses /\ b = <<b[1], b[2]>> /\ Start(b[2], b[1]) = b[2]
      /\ d[2] \in Addresses /\ d = <<d[1], d[2]>> /\ Start(d[2], d[1]) = d[2]
  BY DEF Blocks
<1>2. b[1] \in 0 .. Levels - 1
  BY <1>1, BuddyAssumption
<1>3. b[2] = SizeAt(b[1]) * Pos(b[2], b[1]) /\ d[2] = SizeAt(b[1]) * Pos(d[2], b[1])
  BY <1>1, <1>2, StartOf
<1>4. QED BY <1>1, <1>3

\* The buddies on the way from the block of level m around x down to that of level n.
OnTheWay(x, m, n) == {<<l, BuddyOf(x, l)>> : l \in m + 1 .. n}

LEMMA WayIsBlocks ==
  ASSUME NEW m \in 0 .. Levels - 1, NEW n \in 0 .. Levels - 1, m <= n, NEW x \in Addresses
  PROVE  /\ OnTheWay(x, m, n) \subseteq Blocks
         /\ \A b \in OnTheWay(x, m, n) :
              /\ b[1] \in m + 1 .. n /\ b = <<b[1], BuddyOf(x, b[1])>>
              /\ Pos(b[2], b[1] - 1) = Pos(x, b[1] - 1)
              /\ CellOf(b) \subseteq Cell(b[1] - 1, x)
              /\ CellOf(b) \cap Cell(b[1], x) = {}
<1>0. Levels \in Nat
  BY BuddyAssumption
<1>1. ASSUME NEW b \in OnTheWay(x, m, n)
      PROVE  /\ b \in Blocks
             /\ b[1] \in m + 1 .. n /\ b = <<b[1], BuddyOf(x, b[1])>>
             /\ Pos(b[2], b[1] - 1) = Pos(x, b[1] - 1)
             /\ CellOf(b) \subseteq Cell(b[1] - 1, x)
             /\ CellOf(b) \cap Cell(b[1], x) = {}
  <2>1. PICK l \in m + 1 .. n : b = <<l, BuddyOf(x, l)>>
    BY DEF OnTheWay
  <2>2. l \in 1 .. Levels - 1 /\ l \in 0 .. Levels - 1 /\ l - 1 \in 0 .. Levels - 1 /\ l - 1 <= l
    BY <1>0, <2>1
  <2> DEFINE y == BuddyOf(x, l)
  <2>3. y \in Addresses /\ Start(y, l) = y /\ Pos(y, l - 1) = Pos(x, l - 1) /\ Pos(y, l) # Pos(x, l)
    BY <2>2, BuddyIsOther
  <2>4. b = <<l, y>>
    BY <2>1
  <2> HIDE DEF y
  <2>5. b \in Blocks
    BY <2>2, <2>3, <2>4 DEF Blocks
  <2>6. Cell(l, y) \subseteq Cell(l - 1, x)
    <3>1. y \in Cell(l - 1, x) /\ y \in Cell(l, y)
      BY <2>2, <2>3, CellBasics
    <3>2. QED BY <2>2, <2>3, <3>1, CellsNest
  <2>7. Cell(l, y) \cap Cell(l, x) = {}
    BY <2>3 DEF Cell
  <2>8. b[1] = l /\ b[2] = y /\ CellOf(b) = Cell(l, y)
    BY <2>4 DEF CellOf
  <2>9. QED BY <2>1, <2>3, <2>4, <2>5, <2>6, <2>7, <2>8 DEF y
<1>2. QED BY <1>1

\* The block at the top is that at the end of the way and the buddies on it.
LEMMA WayCovers ==
  ASSUME NEW m \in 0 .. Levels - 1, NEW n \in 0 .. Levels - 1, m <= n, NEW x \in Addresses
  PROVE  Cell(m, x) = Cell(n, x) \cup UNION {CellOf(b) : b \in OnTheWay(x, m, n)}
<1>0. Levels \in Nat /\ m \in Nat /\ n \in Nat
  BY BuddyAssumption
<1>1. Cell(n, x) \subseteq Cell(m, x)
  <2>1. x \in Cell(m, x) /\ x \in Cell(n, x)
    BY CellBasics
  <2>2. QED BY <2>1, CellsNest
<1>2. ASSUME NEW b \in OnTheWay(x, m, n) PROVE CellOf(b) \subseteq Cell(m, x)
  <2>1. b[1] \in m + 1 .. n /\ CellOf(b) \subseteq Cell(b[1] - 1, x)
    BY WayIsBlocks
  <2> DEFINE k == b[1] - 1
  <2>2. k \in 0 .. Levels - 1 /\ m <= k
    BY <1>0, <2>1
  <2> HIDE DEF k
  <2>3. x \in Cell(m, x) /\ x \in Cell(k, x)
    BY <2>2, CellBasics
  <2>4. Cell(k, x) \subseteq Cell(m, x)
    BY <2>2, <2>3, CellsNest
  <2>5. QED BY <2>1, <2>4 DEF k
<1>3. ASSUME NEW y \in Cell(m, x), y \notin Cell(n, x)
      PROVE  \E b \in OnTheWay(x, m, n) : y \in CellOf(b)
  <2>1. y \in Addresses /\ Pos(y, m) = Pos(x, m)
    BY DEF Cell
  <2> DEFINE T == {l \in m .. n : Pos(y, l) # Pos(x, l)}
  <2>2. T # {} /\ T \subseteq Nat
    BY <1>0, <1>3, <2>1 DEF Cell
  <2>3. PICK l \in T : \A i \in T : l <= i
    BY <2>2, LeastNumber
  <2>4. l \in m .. n /\ Pos(y, l) # Pos(x, l)
    OBVIOUS
  <2>5. l # m
    BY <2>1, <2>4
  <2> DEFINE k == l - 1
  <2>6. k \in m .. n /\ l \in m + 1 .. n /\ ~(l <= k) /\ l \in 1 .. Levels - 1 /\ l \in 0 .. Levels - 1
    BY <1>0, <2>4, <2>5
  <2>7. Pos(y, l - 1) = Pos(x, l - 1)
    <3>1. k \notin T
      <4> HIDE DEF T, k
      <4>1. QED BY <2>3, <2>6
    <3>2. QED BY <2>6, <3>1
  <2>8. Pos(y, l) = Pos(BuddyOf(x, l), l)
    BY <2>1, <2>4, <2>6, <2>7, TwoHalves
  <2>9. <<l, BuddyOf(x, l)>> \in OnTheWay(x, m, n)
    BY <2>6 DEF OnTheWay
  <2>10. y \in CellOf(<<l, BuddyOf(x, l)>>)
    BY <2>1, <2>8 DEF CellOf, Cell
  <2>11. QED BY <2>9, <2>10
<1>4. QED BY <1>1, <1>2, <1>3

\* What is on the way is apart, and apart from its end.
LEMMA WayIsApart ==
  ASSUME NEW m \in 0 .. Levels - 1, NEW n \in 0 .. Levels - 1, m <= n, NEW x \in Addresses
  PROVE  /\ \A b \in OnTheWay(x, m, n) : CellOf(b) \cap Cell(n, x) = {}
         /\ \A b, d \in OnTheWay(x, m, n) : b # d => CellOf(b) \cap CellOf(d) = {} /\ b[1] # d[1]
<1>0. Levels \in Nat /\ m \in Nat /\ n \in Nat
  BY BuddyAssumption
<1>1. ASSUME NEW j \in 0 .. Levels - 1, NEW k \in 0 .. Levels - 1, j <= k
      PROVE  Cell(k, x) \subseteq Cell(j, x)
  <2>1. x \in Cell(j, x) /\ x \in Cell(k, x)
    BY CellBasics
  <2>2. QED BY <1>1, <2>1, CellsNest
<1>2. ASSUME NEW b \in OnTheWay(x, m, n)
      PROVE  /\ b[1] \in m + 1 .. n /\ b = <<b[1], BuddyOf(x, b[1])>>
             /\ CellOf(b) \subseteq Cell(b[1] - 1, x) /\ CellOf(b) \cap Cell(b[1], x) = {}
  BY WayIsBlocks
<1>3. ASSUME NEW b \in OnTheWay(x, m, n) PROVE CellOf(b) \cap Cell(n, x) = {}
  <2>1. b[1] \in 0 .. Levels - 1 /\ b[1] <= n
    BY <1>0, <1>2
  <2>2. Cell(n, x) \subseteq Cell(b[1], x)
    BY <1>1, <2>1
  <2>3. QED BY <1>2, <2>2
<1>4. ASSUME NEW b \in OnTheWay(x, m, n), NEW d \in OnTheWay(x, m, n), b[1] < d[1]
      PROVE  CellOf(b) \cap CellOf(d) = {}
  <2>1. b[1] \in 0 .. Levels - 1 /\ d[1] - 1 \in 0 .. Levels - 1 /\ b[1] <= d[1] - 1
    BY <1>0, <1>2, <1>4
  <2>2. Cell(d[1] - 1, x) \subseteq Cell(b[1], x)
    BY <1>1, <2>1
  <2>3. QED BY <1>2, <2>2
<1>5. ASSUME NEW b \in OnTheWay(x, m, n), NEW d \in OnTheWay(x, m, n), b # d
      PROVE  CellOf(b) \cap CellOf(d) = {} /\ b[1] # d[1]
  <2>1. b[1] # d[1]
    BY <1>2, <1>5
  <2>2. b[1] \in Nat /\ d[1] \in Nat
    BY <1>0, <1>2
  <2>3. b[1] < d[1] \/ d[1] < b[1]
    BY <2>1, <2>2
  <2>4. QED BY <1>4, <2>1, <2>3
<1>6. QED BY <1>3, <1>5

(* Regions *****************************************************************)
Cover(free) == UNION {CellOf(b) : b \in free}
\* A block of the pair of level l around x is free.
HalfFree(free, x, l) == \E b \in free : b[1] = l /\ Pos(b[2], l - 1) = Pos(x, l - 1)
BitsOf(free) == {BlockIndex(b[2], b[1] - 1) : b \in free}

\* Free blocks are blocks, apart, and no two are buddies; the bits are those of
\* the pairs with a free half; and the first byte, of the header, is not free.
FreeIsSound(free) ==
  /\ free \subseteq Blocks
  /\ \A b, d \in free : b # d => CellOf(b) \cap CellOf(d) = {}
  /\ \A b, d \in free : b[1] = d[1] /\ Pos(b[2], b[1] - 1) = Pos(d[2], b[1] - 1) => b = d
  /\ 0 \notin Cover(free)
RegionIsSound(r) ==
  /\ r = [free |-> r.free, bits |-> r.bits]
  /\ FreeIsSound(r.free)
  /\ r.bits = BitsOf(r.free)

LEMMA BlockFacts ==
  ASSUME NEW b \in Blocks
  PROVE  /\ b[1] \in 1 .. Levels - 1 /\ b[1] \in 0 .. Levels - 1 /\ b[1] - 1 \in 0 .. Levels - 1
         /\ b[2] \in Addresses /\ b = <<b[1], b[2]>> /\ Start(b[2], b[1]) = b[2]
         /\ b[2] \in CellOf(b) /\ CellOf(b) \subseteq Addresses
<1>1. b[1] \in 1 .. Levels - 1 /\ b[2] \in Addresses /\ b = <<b[1], b[2]>> /\ Start(b[2], b[1]) = b[2]
  BY DEF Blocks
<1>2. b[1] \in 0 .. Levels - 1 /\ b[1] - 1 \in 0 .. Levels - 1
  BY <1>1, BuddyAssumption
<1>3. b[2] \in CellOf(b) /\ CellOf(b) \subseteq Addresses
  BY <1>1, <1>2, CellBasics DEF CellOf
<1>4. QED BY <1>1, <1>2, <1>3

\* The bit of a pair is set exactly while a half of it is free.
LEMMA BitOfPair ==
  ASSUME NEW free, free \subseteq Blocks, NEW l \in 1 .. Levels - 1, NEW x \in Addresses
  PROVE  BlockIndex(x, l - 1) \in BitsOf(free) <=> HalfFree(free, x, l)
<1>0. l - 1 \in 0 .. Levels - 1
  BY BuddyAssumption
<1>1. ASSUME NEW b \in free, BlockIndex(x, l - 1) = BlockIndex(b[2], b[1] - 1)
      PROVE  b[1] = l /\ Pos(b[2], l - 1) = Pos(x, l - 1)
  <2>1. b[1] - 1 \in 0 .. Levels - 1 /\ b[1] \in 1 .. Levels - 1 /\ b[2] \in Addresses
    BY BlockFacts
  <2> DEFINE k == l - 1
             j == b[1] - 1
  <2>2. k \in 0 .. Levels - 1 /\ j \in 0 .. Levels - 1 /\ BlockIndex(x, k) = BlockIndex(b[2], j)
    BY <1>0, <1>1, <2>1
  <2> HIDE DEF k, j
  <2>3. k = j /\ Pos(x, k) = Pos(b[2], j)
    BY <2>1, <2>2, IndexOfOne
  <2>4. b[1] = l
    BY <2>1, <2>3 DEF k, j
  <2>5. QED BY <2>3, <2>4 DEF k, j
<1>2. ASSUME NEW b \in free, b[1] = l, Pos(b[2], l - 1) = Pos(x, l - 1)
      PROVE  BlockIndex(x, l - 1) = BlockIndex(b[2], b[1] - 1)
  BY <1>2 DEF BlockIndex, Pos
<1>3. QED BY <1>1, <1>2 DEF BitsOf, HalfFree

\* From free to then, of the levels K the pairs around x get or lose their free
\* half, and nothing else changes.
HalvesChange(free, then, x, K) ==
  /\ \A b \in Blocks : ~(b[1] \in K /\ Pos(b[2], b[1] - 1) = Pos(x, b[1] - 1))
                          => (b \in then <=> b \in free)
  /\ \A l \in K : HalfFree(then, x, l) <=> ~HalfFree(free, x, l)

LEMMA TogglePairs ==
  ASSUME NEW free, free \subseteq Blocks, NEW then, then \subseteq Blocks,
         NEW x \in Addresses, NEW K, K \subseteq 1 .. Levels - 1,
         HalvesChange(free, then, x, K)
  PROVE  Toggle(BitsOf(free), Pairs(x, K)) = BitsOf(then)
<1>0. /\ \A b \in Blocks : ~(b[1] \in K /\ Pos(b[2], b[1] - 1) = Pos(x, b[1] - 1))
                              => (b \in then <=> b \in free)
      /\ \A l \in K : HalfFree(then, x, l) <=> ~HalfFree(free, x, l)
  BY DEF HalvesChange
<1>1. ASSUME NEW l \in K
      PROVE  BlockIndex(x, l - 1) \in BitsOf(then) <=> BlockIndex(x, l - 1) \notin BitsOf(free)
  <2>1. l \in 1 .. Levels - 1
    OBVIOUS
  <2>2. BlockIndex(x, l - 1) \in BitsOf(then) <=> HalfFree(then, x, l)
    BY <2>1, BitOfPair
  <2>3. BlockIndex(x, l - 1) \in BitsOf(free) <=> HalfFree(free, x, l)
    BY <2>1, BitOfPair
  <2>4. QED BY <1>0, <2>2, <2>3
<1>2. ASSUME NEW b \in Blocks, BlockIndex(b[2], b[1] - 1) \notin Pairs(x, K)
      PROVE  b \in then <=> b \in free
  <2>1. ~(b[1] \in K /\ Pos(b[2], b[1] - 1) = Pos(x, b[1] - 1))
    <3>1. ASSUME b[1] \in K, Pos(b[2], b[1] - 1) = Pos(x, b[1] - 1) PROVE FALSE
      <4>1. BlockIndex(b[2], b[1] - 1) = BlockIndex(x, b[1] - 1)
        BY <3>1 DEF BlockIndex, Pos
      <4>2. QED BY <1>2, <3>1, <4>1 DEF Pairs
    <3>2. QED BY <3>1
  <2>2. QED BY <1>0, <2>1
<1>3. ASSUME NEW i, i \notin Pairs(x, K) PROVE i \in BitsOf(then) <=> i \in BitsOf(free)
  BY <1>2, <1>3 DEF BitsOf
<1>4. ASSUME NEW i \in Pairs(x, K) PROVE i \in BitsOf(then) <=> i \notin BitsOf(free)
  BY <1>1 DEF Pairs
<1>5. ASSUME NEW i PROVE i \in Toggle(BitsOf(free), Pairs(x, K)) <=> i \in BitsOf(then)
  BY <1>3, <1>4 DEF Toggle
<1>6. QED BY <1>5

\* Free blocks that share a byte are the same.
LEMMA MeetsFree ==
  ASSUME NEW free, FreeIsSound(free), NEW b \in free, NEW d \in free,
         NEW y, y \in CellOf(b), y \in CellOf(d)
  PROVE  b = d
  BY DEF FreeIsSound

\* The nearest level that has a block.
LEMMA PlacesAre ==
  ASSUME NEW r, FreeIsSound(r.free), NEW level \in 1 .. Levels - 1, NEW off \in Places(r, level),
         NEW from, from = Max(Sources(r, level))
  PROVE  /\ from \in 1 .. level /\ <<from, off>> \in r.free
         /\ off \in Addresses /\ Start(off, from) = off
<1>1. Sources(r, level) # {}
  BY DEF Places
<1>2. Sources(r, level) \subseteq 0 .. level /\ level \in Nat
  BY BuddyAssumption DEF Sources
<1>3. from \in Sources(r, level)
  BY <1>1, <1>2, GreatestNumber
<1>4. PICK b \in r.free : b[1] = from /\ b[2] = off
  BY <1>1 DEF Places
<1>5. b \in Blocks
  BY DEF FreeIsSound
<1>6. b = <<from, off>> /\ off \in Addresses /\ Start(off, from) = off
  BY <1>4, <1>5, BlockFacts
<1>7. QED BY <1>3, <1>6 DEF Sources

\* Cutting a block takes the bytes of the piece, and no others, from what is free.
LEMMA AllocIsSound ==
  ASSUME NEW r, RegionIsSound(r), NEW level \in 1 .. Levels - 1, NEW off \in Places(r, level),
         NEW q, q = AllocBlock(r, off, level)
  PROVE  /\ RegionIsSound(q)
         /\ <<level, off>> \in Blocks
         /\ Cell(level, off) \subseteq Cover(r.free)
         /\ Cover(q.free) = Cover(r.free) \ Cell(level, off)
<1> DEFINE from == Max(Sources(r, level))
           f == <<from, off>>
           N == OnTheWay(off, from, level)
           free == r.free
           then == (free \ {f}) \cup N
           K == from .. level
<1>0. Levels \in Nat
  BY BuddyAssumption
<1>1. FreeIsSound(free) /\ r.bits = BitsOf(free)
  BY DEF RegionIsSound
<1>2. from \in 1 .. level /\ f \in free /\ off \in Addresses /\ Start(off, from) = off
  BY <1>1, PlacesAre
<1>3. q = [free |-> then, bits |-> Toggle(r.bits, Pairs(off, K))]
  <2>1. ASSUME NEW l \in from + 1 .. level PROVE off + SizeAt(l) = BuddyOf(off, l)
    <3>1. l \in 1 .. Levels - 1 /\ l - 1 \in 0 .. Levels - 1 /\ from \in 0 .. Levels - 1 /\ from <= l - 1
      BY <1>0, <1>2, <2>1
    <3>2. Start(off, l - 1) = off
      BY <1>2, <3>1, StartsBelow
    <3>3. QED BY <1>2, <3>1, <3>2, BuddyIsOther
  <2>2. {<<l, off + SizeAt(l)>> : l \in from + 1 .. level} = N
    BY <2>1 DEF OnTheWay
  <2>3. QED BY <2>2 DEF AllocBlock
<1> HIDE DEF from, N, K
<1>4. from \in 0 .. Levels - 1 /\ level \in 0 .. Levels - 1 /\ from <= level /\ f \in Blocks
      /\ CellOf(f) = Cell(from, off) /\ free \subseteq Blocks
  BY <1>0, <1>1, <1>2 DEF FreeIsSound, CellOf
<1>5. /\ N \subseteq Blocks
      /\ \A b \in N : /\ b[1] \in from + 1 .. level /\ Pos(b[2], b[1] - 1) = Pos(off, b[1] - 1)
                      /\ CellOf(b) \cap Cell(level, off) = {}
      /\ \A b, d \in N : b # d => CellOf(b) \cap CellOf(d) = {} /\ b[1] # d[1]
      /\ CellOf(f) = Cell(level, off) \cup Cover(N)
      /\ \A l \in from + 1 .. level : \E b \in N : b[1] = l
  <2>1. N \subseteq Blocks
        /\ \A b \in N : b[1] \in from + 1 .. level /\ Pos(b[2], b[1] - 1) = Pos(off, b[1] - 1)
    BY <1>2, <1>4, WayIsBlocks DEF N
  <2>2. /\ \A b \in N : CellOf(b) \cap Cell(level, off) = {}
        /\ \A b, d \in N : b # d => CellOf(b) \cap CellOf(d) = {} /\ b[1] # d[1]
    BY <1>2, <1>4, WayIsApart DEF N
  <2>3. CellOf(f) = Cell(level, off) \cup Cover(N)
    BY <1>2, <1>4, WayCovers DEF N, Cover
  <2>4. ASSUME NEW l \in from + 1 .. level PROVE \E b \in N : b[1] = l
    <3>1. <<l, BuddyOf(off, l)>> \in N
      BY DEF N, OnTheWay
    <3>2. QED BY <3>1
  <2>5. QED BY <2>1, <2>2, <2>3, <2>4
<1>6. then \subseteq Blocks
  BY <1>4, <1>5
<1>7. ASSUME NEW b \in free, NEW d \in N PROVE b # f => CellOf(b) \cap CellOf(d) = {}
  <2>1. CellOf(d) \subseteq CellOf(f)
    BY <1>5 DEF Cover
  <2>2. b # f => CellOf(b) \cap CellOf(f) = {}
    BY <1>1, <1>2 DEF FreeIsSound
  <2>3. QED BY <2>1, <2>2
<1>8. ASSUME NEW b \in free, NEW l \in from + 1 .. level, b[1] = l, Pos(b[2], l - 1) = Pos(off, l - 1)
      PROVE  FALSE
  <2>1. b \in Blocks /\ b[2] \in Addresses /\ b[2] \in CellOf(b)
    BY <1>4, BlockFacts
  <2> DEFINE k == l - 1
  <2>2. k \in 0 .. Levels - 1 /\ from <= k /\ Pos(b[2], k) = Pos(off, k)
    BY <1>0, <1>2, <1>8
  <2> HIDE DEF k
  <2>3. Pos(b[2], from) = Pos(off, from)
    BY <1>2, <1>4, <2>1, <2>2, SharedAbove
  <2>4. b[2] \in CellOf(f)
    BY <1>4, <2>1, <2>3 DEF Cell
  <2>5. b = f
    BY <1>1, <1>2, <2>1, <2>4, MeetsFree
  <2>6. QED BY <1>2, <1>8, <2>5
<1>9. \A b, d \in then : b # d => CellOf(b) \cap CellOf(d) = {}
  <2>1. \A b, d \in free : b # d => CellOf(b) \cap CellOf(d) = {}
    BY <1>1 DEF FreeIsSound
  <2>2. QED BY <1>5, <1>7, <2>1
<1>10. \A b, d \in then : b[1] = d[1] /\ Pos(b[2], b[1] - 1) = Pos(d[2], b[1] - 1) => b = d
  <2>1. \A b, d \in free : b[1] = d[1] /\ Pos(b[2], b[1] - 1) = Pos(d[2], b[1] - 1) => b = d
    BY <1>1 DEF FreeIsSound
  <2>2. ASSUME NEW b \in free, NEW d \in N, b[1] = d[1], Pos(b[2], b[1] - 1) = Pos(d[2], b[1] - 1)
        PROVE  FALSE
    BY <1>5, <1>8, <2>2
  <2>3. QED BY <1>5, <2>1, <2>2
<1>11. Cell(level, off) \subseteq Cover(free)
  BY <1>2, <1>5 DEF Cover
<1>12. Cover(then) = Cover(free) \ Cell(level, off)
  <2>1. ASSUME NEW y \in Cover(then) PROVE y \in Cover(free) /\ y \notin Cell(level, off)
    <3>1. PICK b \in then : y \in CellOf(b)
      BY DEF Cover
    <3>2. CASE b \in N
      <4>1. y \in CellOf(f) /\ y \notin Cell(level, off)
        BY <1>5, <3>1, <3>2 DEF Cover
      <4>2. QED BY <1>2, <4>1 DEF Cover
    <3>3. CASE b \in free \ {f}
      <4>1. CellOf(b) \cap CellOf(f) = {}
        BY <1>1, <1>2, <3>3 DEF FreeIsSound
      <4>2. QED BY <1>5, <3>1, <3>3, <4>1 DEF Cover
    <3>4. QED BY <3>2, <3>3
  <2>2. ASSUME NEW y \in Cover(free), y \notin Cell(level, off) PROVE y \in Cover(then)
    <3>1. PICK b \in free : y \in CellOf(b)
      BY DEF Cover
    <3>2. QED BY <1>5, <2>2, <3>1 DEF Cover
  <2>3. QED BY <2>1, <2>2
<1>13. FreeIsSound(then)
  <2>1. 0 \notin Cover(free)
    BY <1>1 DEF FreeIsSound
  <2>2. QED BY <1>6, <1>9, <1>10, <1>12, <2>1 DEF FreeIsSound
<1>14. Toggle(BitsOf(free), Pairs(off, K)) = BitsOf(then)
  <2>1. K \subseteq 1 .. Levels - 1
    BY <1>0, <1>2, <1>4 DEF K
  <2>2. ASSUME NEW b \in Blocks, ~(b[1] \in K /\ Pos(b[2], b[1] - 1) = Pos(off, b[1] - 1))
        PROVE  b \in then <=> b \in free
    <3>1. b # f
      BY <1>2, <1>4, <2>2 DEF K
    <3>2. b \notin N
      <4>1. ASSUME b \in N PROVE FALSE
        <5>1. b[1] \in K
          BY <1>2, <1>5, <4>1 DEF K
        <5>2. QED BY <1>5, <2>2, <4>1, <5>1
      <4>2. QED BY <4>1
    <3>3. QED BY <3>1, <3>2
  <2>3. ASSUME NEW l \in K PROVE HalfFree(then, off, l) <=> ~HalfFree(free, off, l)
    <3>1. CASE l = from
      <4>1. HalfFree(free, off, l)
        BY <1>2, <3>1 DEF HalfFree
      <4>2. ASSUME NEW b \in then, b[1] = l, Pos(b[2], l - 1) = Pos(off, l - 1) PROVE FALSE
        <5>1. b \notin N
          BY <1>2, <1>5, <3>1, <4>2
        <5>2. b \in free /\ b # f
          BY <5>1
        <5>3. b[1] = f[1] /\ Pos(b[2], b[1] - 1) = Pos(f[2], b[1] - 1)
          BY <3>1, <4>2
        <5>4. b = f
          BY <1>1, <1>2, <5>2, <5>3 DEF FreeIsSound
        <5>5. QED BY <5>2, <5>4
      <4>3. QED BY <4>1, <4>2 DEF HalfFree
    <3>2. CASE l # from
      <4>1. l \in from + 1 .. level
        BY <1>2, <3>2 DEF K
      <4>2. ~HalfFree(free, off, l)
        BY <1>8, <4>1 DEF HalfFree
      <4>3. HalfFree(then, off, l)
        BY <1>5, <4>1 DEF HalfFree
      <4>4. QED BY <4>2, <4>3
    <3>3. QED BY <3>1, <3>2
  <2> HIDE DEF then
  <2>4. HalvesChange(free, then, off, K)
    BY <2>2, <2>3 DEF HalvesChange
  <2>5. QED BY <1>2, <1>4, <1>6, <2>1, <2>4, TogglePairs
<1>15. <<level, off>> \in Blocks
  <2>1. Start(off, level) = off
    BY <1>2, <1>4, StartsBelow
  <2>2. QED BY <1>2, <2>1 DEF Blocks
<1>16. RegionIsSound(q) /\ q.free = then
  <2> HIDE DEF then, free
  <2>1. q = [free |-> then, bits |-> BitsOf(then)]
    BY <1>1, <1>3, <1>14
  <2>2. QED BY <1>13, <2>1 DEF RegionIsSound
<1>17. QED BY <1>11, <1>12, <1>15, <1>16

\* Giving a block back adds its bytes, and no others, to what is free.
LEMMA FreeBlockIsSound ==
  ASSUME NEW r, RegionIsSound(r), NEW level \in 1 .. Levels - 1, NEW off, <<level, off>> \in Blocks,
         Cell(level, off) \cap Cover(r.free) = {}, 0 \notin Cell(level, off),
         NEW q, q = FreeBlock(r, off, level)
  PROVE  /\ RegionIsSound(q)
         /\ Cover(q.free) = Cover(r.free) \cup Cell(level, off)
<1> DEFINE S == {l \in 0 .. level : l = 0 \/ BlockIndex(off, l - 1) \notin r.bits}
           stop == Max(S)
           N == OnTheWay(off, stop, level)
           new == <<stop, Start(off, stop)>>
           free == r.free
           then == (free \ N) \cup {new}
           K == stop .. level
<1>0. Levels \in Nat /\ level \in Nat /\ level \in 0 .. Levels - 1
  BY BuddyAssumption
<1>1. FreeIsSound(free) /\ r.bits = BitsOf(free) /\ free \subseteq Blocks
  BY DEF RegionIsSound, FreeIsSound
<1>2. off \in Addresses /\ Start(off, level) = off /\ off \in Cell(level, off)
  <2>1. off \in Addresses /\ Start(off, level) = off
    BY BlockFacts
  <2>2. QED BY <1>0, <2>1, CellBasics
<1>3. stop \in S /\ \A l \in S : l <= stop
  <2>1. S \subseteq 0 .. level /\ 0 \in S
    BY <1>0
  <2> HIDE DEF S
  <2>2. QED BY <1>0, <2>1, GreatestNumber
<1>4. q = [free |-> (free \ N) \cup {<<l, Start(off, l)>> : l \in {stop} \ {0}},
           bits |-> Toggle(r.bits, Pairs(off, K \ {0}))]
  BY DEF FreeBlock, OnTheWay
<1>5. stop \in 0 .. level /\ (stop # 0 => BlockIndex(off, stop - 1) \notin r.bits)
      /\ \A l \in stop + 1 .. level : BlockIndex(off, l - 1) \in r.bits
  <2>1. stop \in 0 .. level /\ (stop # 0 => BlockIndex(off, stop - 1) \notin r.bits)
    BY <1>3
  <2>2. ASSUME NEW l \in stop + 1 .. level PROVE BlockIndex(off, l - 1) \in r.bits
    <3>1. l \in 0 .. level /\ l # 0 /\ ~(l <= stop)
      BY <1>0, <2>1
    <3>2. l \notin S
      <4> HIDE DEF S, stop
      <4>1. QED BY <1>3, <3>1
    <3>3. QED BY <3>1, <3>2
  <2>3. QED BY <2>1, <2>2
<1> HIDE DEF S, stop, N, K
<1>6. stop \in 0 .. Levels - 1 /\ stop <= level
  BY <1>0, <1>5
\* The buddies that merge are all free.
<1>7. N \subseteq free
  <2>1. ASSUME NEW l \in stop + 1 .. level PROVE <<l, BuddyOf(off, l)>> \in free
    <3>1. l \in 1 .. Levels - 1 /\ l \in 0 .. Levels - 1 /\ l <= level
      BY <1>0, <1>6, <2>1
    <3>2. HalfFree(free, off, l)
      BY <1>1, <1>2, <1>5, <2>1, <3>1, BitOfPair
    <3>3. PICK b \in free : b[1] = l /\ Pos(b[2], l - 1) = Pos(off, l - 1)
      BY <3>2 DEF HalfFree
    <3>4. b \in Blocks /\ b[2] \in Addresses /\ b = <<l, b[2]>>
      BY <1>1, <3>3, BlockFacts
    <3>5. Pos(b[2], l) # Pos(off, l)
      <4>1. ASSUME Pos(b[2], l) = Pos(off, l) PROVE FALSE
        <5>1. off \in CellOf(b)
          BY <1>2, <3>3, <4>1 DEF CellOf, Cell
        <5>2. QED BY <1>2, <3>3, <5>1 DEF Cover
      <4>2. QED BY <4>1
    <3> DEFINE y == BuddyOf(off, l)
    <3>6. y \in Addresses /\ Start(y, l) = y
      BY <1>2, <3>1, BuddyIsOther
    <3>7. Pos(b[2], l) = Pos(y, l)
      BY <1>2, <3>1, <3>3, <3>4, <3>5, TwoHalves
    <3> HIDE DEF y
    <3>8. <<l, y>> \in Blocks
      BY <3>1, <3>6 DEF Blocks
    <3>9. b = <<l, y>>
      BY <3>3, <3>4, <3>7, <3>8, SameBlock
    <3>10. QED BY <3>3, <3>9 DEF y
  <2>2. QED BY <2>1 DEF N, OnTheWay
<1>8. Cell(stop, off) = Cell(level, off) \cup Cover(N)
  BY <1>0, <1>2, <1>6, WayCovers DEF N, Cover
\* All of the region would have to be free.
<1>9. stop # 0
  <2>1. ASSUME stop = 0 PROVE FALSE
    <3>1. 0 \in Addresses
      BY SizesHalve DEF Addresses
    <3>2. Pos(0, 0) \in 0 .. 0 /\ Pos(off, 0) \in 0 .. 0
      <4>1. Pow2[0] - 1 = 0 /\ 0 \in 0 .. Levels - 1
        BY <1>0, Doubling
      <4>2. QED BY <1>2, <3>1, <4>1, PosOf
    <3>3. 0 \in Cell(stop, off)
      BY <2>1, <3>1, <3>2 DEF Cell
    <3>4. 0 \notin Cover(N)
      BY <1>1, <1>7 DEF FreeIsSound, Cover
    <3>5. QED BY <1>8, <3>3, <3>4
  <2>2. QED BY <2>1
<1>10. stop \in 1 .. Levels - 1 /\ stop - 1 \in 0 .. Levels - 1
  BY <1>0, <1>6, <1>9
<1>11. new \in Blocks /\ CellOf(new) = Cell(stop, off) /\ Pos(new[2], stop - 1) = Pos(off, stop - 1)
  <2> DEFINE a == Start(off, stop)
  <2>1. a \in Addresses /\ Start(a, stop) = a /\ Pos(a, stop) = Pos(off, stop) /\ Cell(stop, a) = Cell(stop, off)
    BY <1>2, <1>6, StartOf, CellBasics
  <2> HIDE DEF a
  <2>2. <<stop, a>> \in Blocks /\ CellOf(<<stop, a>>) = Cell(stop, off)
    BY <1>10, <2>1 DEF Blocks, CellOf
  <2> DEFINE k == stop - 1
  <2>3. k \in 0 .. Levels - 1 /\ k <= stop
    BY <1>10
  <2> HIDE DEF k
  <2>4. Pos(a, k) = Pos(off, k)
    BY <1>2, <1>6, <2>1, <2>3, SharedAbove
  <2>5. QED BY <2>2, <2>4 DEF a, k
<1>12. then \subseteq Blocks
  BY <1>1, <1>11
<1>13. ASSUME NEW b \in free, b \notin N PROVE CellOf(b) \cap CellOf(new) = {}
  <2>1. CellOf(b) \cap Cell(level, off) = {}
    BY DEF Cover
  <2>2. ASSUME NEW d \in N PROVE CellOf(b) \cap CellOf(d) = {}
    BY <1>1, <1>7, <1>13 DEF FreeIsSound
  <2>3. QED BY <1>8, <1>11, <2>1, <2>2 DEF Cover
<1>14. ~HalfFree(free, off, stop)
  <2>1. BlockIndex(off, stop - 1) \notin BitsOf(free)
    BY <1>1, <1>5, <1>9
  <2>2. QED BY <1>1, <1>2, <1>10, <2>1, BitOfPair
<1>15. \A b, d \in then : b # d => CellOf(b) \cap CellOf(d) = {}
  <2>1. \A b, d \in free : b # d => CellOf(b) \cap CellOf(d) = {}
    BY <1>1 DEF FreeIsSound
  <2> HIDE DEF new, free
  <2>2. QED BY <1>13, <2>1
<1>16. \A b, d \in then : b[1] = d[1] /\ Pos(b[2], b[1] - 1) = Pos(d[2], b[1] - 1) => b = d
  <2>1. \A b, d \in free : b[1] = d[1] /\ Pos(b[2], b[1] - 1) = Pos(d[2], b[1] - 1) => b = d
    BY <1>1 DEF FreeIsSound
  <2>2. ASSUME NEW b \in free, b[1] = stop, Pos(b[2], stop - 1) = Pos(new[2], stop - 1)
        PROVE  FALSE
    BY <1>11, <1>14, <2>2 DEF HalfFree
  <2>3. new[1] = stop
    OBVIOUS
  <2> HIDE DEF new, free
  <2>4. QED BY <2>1, <2>2, <2>3
<1>17. Cover(then) = Cover(free) \cup Cell(level, off)
  <2>1. ASSUME NEW y \in Cover(then) PROVE y \in Cover(free) \cup Cell(level, off)
    <3>1. PICK b \in then : y \in CellOf(b)
      BY DEF Cover
    <3>2. CASE b = new
      <4>1. y \in Cell(level, off) \cup Cover(N)
        BY <1>8, <1>11, <3>1, <3>2
      <4>2. QED BY <1>7, <4>1 DEF Cover
    <3>3. CASE b \in free
      BY <3>1, <3>3 DEF Cover
    <3>4. QED BY <3>2, <3>3
  <2>2. ASSUME NEW y \in Cover(free) \cup Cell(level, off) PROVE y \in Cover(then)
    <3>1. CASE y \in CellOf(new)
      BY <3>1 DEF Cover
    <3>2. CASE y \notin CellOf(new)
      <4>1. y \in Cover(free) /\ y \notin Cover(N)
        BY <1>8, <1>11, <2>2, <3>2
      <4>2. PICK b \in free : y \in CellOf(b)
        BY <4>1 DEF Cover
      <4>3. b \notin N
        BY <4>1, <4>2 DEF Cover
      <4>4. QED BY <4>2, <4>3 DEF Cover
    <3>3. QED BY <3>1, <3>2
  <2>3. QED BY <2>1, <2>2
<1>18. FreeIsSound(then)
  <2>1. 0 \notin Cover(free)
    BY <1>1 DEF FreeIsSound
  <2> HIDE DEF then
  <2>2. QED BY <1>12, <1>15, <1>16, <1>17, <2>1 DEF FreeIsSound
<1>19. \A b \in N : b[1] \in stop + 1 .. level /\ Pos(b[2], b[1] - 1) = Pos(off, b[1] - 1)
  BY <1>0, <1>2, <1>6, WayIsBlocks DEF N
<1>20. K \subseteq 1 .. Levels - 1 /\ K \ {0} = K /\ stop \in K /\ stop + 1 .. level \subseteq K
  BY <1>0, <1>6, <1>10 DEF K
<1>21. Toggle(BitsOf(free), Pairs(off, K)) = BitsOf(then)
  <2>1. ASSUME NEW b \in Blocks, ~(b[1] \in K /\ Pos(b[2], b[1] - 1) = Pos(off, b[1] - 1))
        PROVE  b \in then <=> b \in free
    <3>1. b # new
      BY <1>11, <1>20, <2>1
    <3>2. b \notin N
      BY <1>19, <1>20, <2>1
    <3> HIDE DEF new
    <3>3. QED BY <3>1, <3>2
  <2>2. ASSUME NEW l \in K PROVE HalfFree(then, off, l) <=> ~HalfFree(free, off, l)
    <3>1. CASE l = stop
      <4>1. HalfFree(then, off, l)
        BY <1>11, <3>1 DEF HalfFree
      <4>2. QED BY <1>14, <3>1, <4>1
    <3>2. CASE l # stop
      <4>1. l \in stop + 1 .. level
        BY <1>10, <3>2 DEF K
      <4>2. PICK d \in N : d[1] = l
        <5>1. <<l, BuddyOf(off, l)>> \in N
          BY <4>1 DEF N, OnTheWay
        <5>2. QED BY <5>1
      <4>3. HalfFree(free, off, l)
        BY <1>7, <1>19, <4>2 DEF HalfFree
      <4>4. ASSUME NEW b \in then, b[1] = l, Pos(b[2], l - 1) = Pos(off, l - 1) PROVE FALSE
        <5>1. b # new
          BY <3>2, <4>4
        <5>2. b \in free /\ b \notin N
          BY <5>1
        <5>3. d \in free /\ Pos(d[2], l - 1) = Pos(off, l - 1)
          BY <1>7, <1>19, <4>2
        <5>4. b = d
          BY <1>1, <4>2, <4>4, <5>2, <5>3 DEF FreeIsSound
        <5>5. QED BY <5>2, <5>4
      <4>5. QED BY <4>3, <4>4 DEF HalfFree
    <3>3. QED BY <3>1, <3>2
  <2>3. free \subseteq Blocks /\ then \subseteq Blocks /\ off \in Addresses /\ K \subseteq 1 .. Levels - 1
    BY <1>1, <1>2, <1>12, <1>20
  <2> HIDE DEF then
  <2>4. HalvesChange(free, then, off, K)
    BY <2>1, <2>2 DEF HalvesChange
  <2>5. QED BY <2>3, <2>4, TogglePairs
<1>22. RegionIsSound(q) /\ q.free = then
  <2>1. {<<l, Start(off, l)>> : l \in {stop} \ {0}} = {new}
    BY <1>9
  <2>2. q = [free |-> then, bits |-> BitsOf(then)]
    <3> HIDE DEF free, new
    <3>1. QED BY <1>1, <1>4, <1>20, <1>21, <2>1
  <2> HIDE DEF then
  <2>3. QED BY <1>18, <2>2 DEF RegionIsSound
<1>23. QED BY <1>17, <1>22

\* A new region has no free buddies, and its header is not free.
LEMMA CreateIsSound ==
  ASSUME NEW q, q = Create(Header)
  PROVE  RegionIsSound(q)
<1> DEFINE split == {l \in 1 .. Levels - 2 : BuddyOf(Header, l) > Header}
           free == {<<l, BuddyOf(Header, l)>> : l \in split}
           N == OnTheWay(Header, 0, Levels - 1)
<1>0. Levels \in Nat /\ Levels - 1 \in Nat /\ 0 \in 0 .. Levels - 1 /\ Levels - 1 \in 0 .. Levels - 1
      /\ Header \in Addresses /\ Header > 0
  BY BuddyAssumption, CacheAssumption, SizesHalve DEF Addresses
<1>1. split \subseteq 1 .. Levels - 2 /\ split \subseteq 1 .. Levels - 1 /\ split \subseteq 0 + 1 .. Levels - 1
  BY <1>0
<1>2. free \subseteq N
  BY <1>1 DEF OnTheWay
<1>3. /\ N \subseteq Blocks
      /\ \A b, d \in N : b # d => CellOf(b) \cap CellOf(d) = {} /\ b[1] # d[1]
      /\ \A b \in N : Pos(b[2], b[1] - 1) = Pos(Header, b[1] - 1)
  BY <1>0, WayIsBlocks, WayIsApart
<1>4. q = [free |-> free, bits |-> Pairs(Header, split)]
  BY DEF Create
<1> HIDE DEF N
<1>5. BitsOf(free) = Pairs(Header, split)
  <2>1. ASSUME NEW l \in split
        PROVE  BlockIndex(BuddyOf(Header, l), l - 1) = BlockIndex(Header, l - 1)
    <3>1. <<l, BuddyOf(Header, l)>> \in N
      BY <1>2, <2>1
    <3>2. Pos(BuddyOf(Header, l), l - 1) = Pos(Header, l - 1)
      BY <1>3, <3>1
    <3>3. QED BY <3>2 DEF BlockIndex, Pos
  <2> HIDE DEF split
  <2>2. \A b \in free : b[1] \in split /\ b[2] = BuddyOf(Header, b[1])
    OBVIOUS
  <2>3. \A l \in split : <<l, BuddyOf(Header, l)>> \in free
    OBVIOUS
  <2> HIDE DEF free
  <2>4. ASSUME NEW i \in BitsOf(free) PROVE i \in Pairs(Header, split)
    BY <2>1, <2>2 DEF BitsOf, Pairs
  <2>5. ASSUME NEW i \in Pairs(Header, split) PROVE i \in BitsOf(free)
    <3>1. PICK l \in split : i = BlockIndex(Header, l - 1)
      BY DEF Pairs
    <3> DEFINE b == <<l, BuddyOf(Header, l)>>
    <3>2. b \in free /\ i = BlockIndex(b[2], b[1] - 1)
      BY <2>1, <2>3, <3>1
    <3> HIDE DEF b
    <3>3. QED BY <3>2 DEF BitsOf
  <2>6. QED BY <2>4, <2>5
<1>6. 0 \notin Cover(free)
  <2>1. ASSUME NEW b \in free, 0 \in CellOf(b) PROVE FALSE
    <3>1. b \in Blocks
      BY <1>2, <1>3
    <3>2. b[2] > Header
      OBVIOUS
    <3>3. b[2] \in Nat /\ Header \in Nat
      BY <3>1, <1>0, BlockFacts, SizesHalve DEF Addresses
    <3>4. CellOf(b) = b[2] .. b[2] + SizeAt(b[1]) - 1
      BY <3>1, BlockFacts, CellIsBytes DEF CellOf
    <3> HIDE DEF free
    <3>5. 0 \in b[2] .. b[2] + SizeAt(b[1]) - 1
      BY <2>1, <3>4
    <3>6. SizeAt(b[1]) \in Nat
      BY <3>1, BlockFacts, SizesHalve
    <3>7. QED BY <1>0, <3>2, <3>3, <3>5, <3>6
  <2> HIDE DEF free
  <2>2. QED BY <2>1 DEF Cover
<1>7. FreeIsSound(free)
  <2> HIDE DEF free
  <2>1. QED BY <1>2, <1>3, <1>6 DEF FreeIsSound
<1>8. QED BY <1>4, <1>5, <1>7 DEF RegionIsSound

(* Merging *****************************************************************)
\* A block that lies inside a free block of g cannot be one of the blocks of f
\* that has the same bytes: the deepest of them would have its buddy next to it.
LEMMA NoPieceInside ==
  ASSUME NEW f, FreeIsSound(f), NEW g, FreeIsSound(g), Cover(f) = Cover(g),
         NEW b \in g, NEW d \in f, NEW x, x \in CellOf(b), x \in CellOf(d), b[1] < d[1]
  PROVE  FALSE
<1> DEFINE In == {h \in f : b[1] < h[1] /\ CellOf(h) \subseteq CellOf(b)}
           D == {h[1] : h \in In}
<1>0. Levels \in Nat /\ Levels - 1 \in Nat
  BY BuddyAssumption
<1>1. f \subseteq Blocks /\ g \subseteq Blocks /\ b \in Blocks /\ d \in Blocks
  BY DEF FreeIsSound
<1>2. b[1] \in 1 .. Levels - 1 /\ b[1] \in 0 .. Levels - 1 /\ b[2] \in Addresses
  BY <1>1, BlockFacts
<1>3. d \in In
  <2>1. d[1] \in 0 .. Levels - 1 /\ d[2] \in Addresses
    BY <1>1, BlockFacts
  <2>2. b[1] <= d[1]
    BY <1>2, <2>1
  <2>3. CellOf(d) \subseteq CellOf(b)
    BY <1>2, <2>1, <2>2, CellsNest DEF CellOf
  <2>4. QED BY <2>3
<1>4. D \subseteq 0 .. Levels - 1 /\ D # {}
  BY <1>1, <1>3, BlockFacts
<1>5. Max(D) \in D /\ \A i \in D : i <= Max(D)
  <2> HIDE DEF D
  <2>1. QED BY <1>0, <1>4, GreatestNumber
<1>6. PICK h \in In : h[1] = Max(D)
  BY <1>5
<1> DEFINE l == h[1]
           y == BuddyOf(h[2], l)
<1>7. h \in f /\ h \in Blocks /\ b[1] < l /\ CellOf(h) \subseteq CellOf(b) /\ \A i \in In : i[1] <= l
  BY <1>1, <1>5, <1>6
<1> HIDE DEF In, D
<1>8. l \in 1 .. Levels - 1 /\ l \in 0 .. Levels - 1 /\ l - 1 \in 0 .. Levels - 1 /\ h[2] \in Addresses
      /\ h[2] \in CellOf(h) /\ h = <<l, h[2]>>
  BY <1>7, BlockFacts
<1>9. y \in Addresses /\ Start(y, l) = y /\ Pos(y, l - 1) = Pos(h[2], l - 1) /\ Pos(y, l) # Pos(h[2], l)
  BY <1>8, BuddyIsOther
<1> HIDE DEF l, y
\* The buddy is in b, too.
<1>10. y \in CellOf(b)
  <2> DEFINE k == l - 1
  <2>1. k \in 0 .. Levels - 1 /\ b[1] <= k /\ Pos(y, k) = Pos(h[2], k)
    BY <1>2, <1>7, <1>8, <1>9
  <2> HIDE DEF k
  <2>2. Pos(y, b[1]) = Pos(h[2], b[1])
    BY <1>2, <1>8, <1>9, <2>1, SharedAbove
  <2>3. Pos(h[2], b[1]) = Pos(b[2], b[1])
    BY <1>7, <1>8 DEF CellOf, Cell
  <2>4. QED BY <1>9, <2>2, <2>3 DEF CellOf, Cell
<1>11. PICK e \in f : y \in CellOf(e)
  <2>1. y \in Cover(f)
    BY <1>10 DEF Cover
  <2>2. QED BY <2>1 DEF Cover
<1>12. e \in Blocks /\ e[1] \in 1 .. Levels - 1 /\ e[1] \in 0 .. Levels - 1 /\ e[2] \in Addresses
  BY <1>1, BlockFacts
<1>13. ASSUME e[1] <= l - 1 PROVE FALSE
  \* e would have the bytes of h.
  <2> DEFINE k == l - 1
  <2>1. k \in 0 .. Levels - 1 /\ e[1] <= k /\ Pos(y, k) = Pos(h[2], k) /\ e[1] # l
    BY <1>8, <1>9, <1>12, <1>13
  <2> HIDE DEF k
  <2>2. Pos(y, e[1]) = Pos(h[2], e[1])
    BY <1>8, <1>9, <1>12, <2>1, SharedAbove
  <2>3. h[2] \in CellOf(e)
    BY <1>8, <1>11, <2>2 DEF CellOf, Cell
  <2>4. e = h
    BY <1>7, <1>8, <2>3, MeetsFree
  <2>5. QED BY <2>1, <2>4 DEF l
<1>14. ASSUME e[1] > l PROVE FALSE
  <2>1. b[1] <= e[1] /\ b[1] < e[1]
    BY <1>2, <1>7, <1>8, <1>12, <1>14
  <2>2. CellOf(e) \subseteq CellOf(b)
    BY <1>2, <1>10, <1>11, <1>12, <2>1, CellsNest DEF CellOf
  <2>3. e[1] <= l
    BY <1>7, <2>1, <2>2 DEF In
  <2>4. QED BY <1>8, <1>12, <1>14, <2>3
<1>15. e[1] = l
  BY <1>8, <1>12, <1>13, <1>14
<1>16. Pos(e[2], l) = Pos(y, l) /\ Pos(e[2], l - 1) = Pos(h[2], l - 1)
  <2>1. Pos(e[2], l) = Pos(y, l)
    BY <1>11, <1>15 DEF CellOf, Cell
  <2> DEFINE k == l - 1
  <2>2. k \in 0 .. Levels - 1 /\ k <= l
    BY <1>8
  <2> HIDE DEF k
  <2>3. Pos(e[2], k) = Pos(y, k)
    BY <1>8, <1>9, <1>12, <2>1, <2>2, SharedAbove
  <2>4. QED BY <1>9, <2>1, <2>3 DEF k
<1>17. e = h
  BY <1>7, <1>15, <1>16 DEF FreeIsSound, l
<1>18. QED BY <1>9, <1>16, <1>17

\* So the free bytes say what the free blocks are.
LEMMA CoverTells ==
  ASSUME NEW r, RegionIsSound(r), NEW q, RegionIsSound(q), Cover(r.free) = Cover(q.free)
  PROVE  r = q
<1>1. ASSUME NEW f, FreeIsSound(f), NEW g, FreeIsSound(g), Cover(f) = Cover(g), NEW b \in f
      PROVE  b \in g
  <2>1. f \subseteq Blocks /\ g \subseteq Blocks
    BY <1>1 DEF FreeIsSound
  <2>2. b[1] \in Nat /\ b[2] \in CellOf(b)
    <3>1. b[1] \in 1 .. Levels - 1 /\ b[2] \in CellOf(b)
      BY <2>1, BlockFacts
    <3>2. QED BY <3>1
  <2>3. PICK d \in g : b[2] \in CellOf(d)
    <3>1. b[2] \in Cover(g)
      BY <1>1, <2>2 DEF Cover
    <3>2. QED BY <3>1 DEF Cover
  <2>4. d[1] \in 1 .. Levels - 1
    BY <2>1, BlockFacts
  <2>5. ~(b[1] < d[1])
    BY <1>1, <2>2, <2>3, NoPieceInside
  <2>6. ~(d[1] < b[1])
    BY <1>1, <2>2, <2>3, NoPieceInside
  <2>7. b[1] = d[1]
    BY <2>2, <2>4, <2>5, <2>6
  <2>8. Pos(b[2], b[1]) = Pos(d[2], b[1])
    BY <2>3, <2>7 DEF CellOf, Cell
  <2>9. b = d
    BY <2>1, <2>7, <2>8, SameBlock
  <2>10. QED BY <2>9
<1>2. r.free = q.free
  <2>1. FreeIsSound(r.free) /\ FreeIsSound(q.free)
    BY DEF RegionIsSound
  <2>2. r.free \subseteq q.free /\ q.free \subseteq r.free
    BY <1>1, <2>1
  <2>3. QED BY <2>2
<1>3. QED BY <1>2 DEF RegionIsSound

\* A region when tc_buddy_new has taken its blocks.
LEMMA NewIsSound ==
  ASSUME NEW c \in Cpus
  PROVE  RegionIsSound(NewRegion[c])
<1> DEFINE levels == Permanent[c]
           n == Len(levels)
           Go(f, i) == IF i = 0 THEN Create(Header) ELSE AllocAny(f[i - 1], levels[i])
           T == {m \in Nat : ~ \E f : f = [i \in 0 .. m |-> Go(f, i)]}
<1>0. n \in Nat /\ \A i \in 1 .. n : levels[i] \in 1 .. Levels - 1
  <2>1. levels \in Seq(1 .. Levels - 1)
    BY CacheAssumption
  <2>2. \A S : \A s \in Seq(S) : Len(s) \in Nat /\ \A i \in 1 .. Len(s) : s[i] \in S
    OBVIOUS
  <2> HIDE DEF levels
  <2>3. QED BY <2>1, <2>2
<1>1. T = {}
  <2>1. SUFFICES ASSUME T # {} PROVE FALSE
    OBVIOUS
  <2>2. PICK m \in T : \A k \in T : m <= k
    BY <2>1, LeastNumber
  <2>3. m \in Nat /\ ~ \E f : f = [i \in 0 .. m |-> Go(f, i)]
    OBVIOUS
  <2>4. CASE m = 0
    <3> DEFINE f == [i \in 0 .. 0 |-> Create(Header)]
    <3>1. f = [i \in 0 .. 0 |-> Go(f, i)]
      OBVIOUS
    <3>2. QED BY <2>3, <2>4, <3>1
  <2>5. CASE m # 0
    <3>1. m - 1 \in Nat /\ m - 1 \notin T
      <4> HIDE DEF T
      <4>1. m - 1 \in Nat /\ ~(m <= m - 1)
        BY <2>3, <2>5
      <4>2. QED BY <2>2, <4>1
    <3>2. PICK g : g = [i \in 0 .. m - 1 |-> Go(g, i)]
      BY <3>1
    <3> DEFINE f == [i \in 0 .. m |-> Go(g, i)]
    <3>3. ASSUME NEW i \in 0 .. m PROVE Go(g, i) = Go(f, i)
      <4>1. CASE i = 0
        BY <4>1
      <4>2. CASE i # 0
        <5>1. i - 1 \in 0 .. m - 1 /\ i - 1 \in 0 .. m
          BY <2>3, <4>2
        <5>2. g[i - 1] = Go(g, i - 1)
          BY <3>2, <5>1
        <5>3. f[i - 1] = Go(g, i - 1)
          BY <5>1
        <5> HIDE DEF f
        <5>4. QED BY <4>2, <5>2, <5>3
      <4>3. QED BY <4>1, <4>2
    <3>4. f = [i \in 0 .. m |-> Go(f, i)]
      BY <3>3
    <3> HIDE DEF f
    <3>5. QED BY <2>3, <3>4
  <2>6. QED BY <2>4, <2>5
<1> DEFINE made == CHOOSE f : f = [i \in 0 .. n |-> Go(f, i)]
<1>2. made = [i \in 0 .. n |-> Go(made, i)]
  BY <1>0, <1>1
<1>3. Made(c) = made
  BY DEF Made
<1> HIDE DEF made
<1>4. \A i \in 0 .. n : made[i] = Go(made, i)
  BY <1>2
<1> DEFINE B == {i \in 0 .. n : ~RegionIsSound(made[i])}
<1>5. B = {}
  <2>1. SUFFICES ASSUME B # {} PROVE FALSE
    OBVIOUS
  <2>2. B \subseteq Nat
    BY <1>0
  <2>3. PICK i \in B : \A k \in B : i <= k
    BY <2>1, <2>2, LeastNumber
  <2>4. i \in 0 .. n /\ ~RegionIsSound(made[i])
    OBVIOUS
  <2>5. CASE i = 0
    <3>1. made[i] = Create(Header)
      BY <1>4, <2>4, <2>5
    <3>2. QED BY <2>4, <3>1, CreateIsSound
  <2>6. CASE i # 0
    <3>1. i - 1 \in 0 .. n /\ i \in 1 .. n /\ ~(i <= i - 1)
      BY <1>0, <2>4, <2>6
    <3> DEFINE r == made[i - 1]
               level == levels[i]
               off == CHOOSE off \in Places(r, level) : TRUE
    <3>2. RegionIsSound(r)
      <4>1. i - 1 \notin B
        <5> HIDE DEF B
        <5>1. QED BY <2>3, <3>1
      <4>2. QED BY <3>1, <4>1
    <3>3. Places(r, level) # {}
      BY <1>3, <3>1, RoomAssumption
    <3>4. off \in Places(r, level)
      BY <3>3
    <3>5. made[i] = AllocBlock(r, off, level)
      BY <1>4, <2>4, <2>6 DEF AllocAny
    <3>6. level \in 1 .. Levels - 1
      BY <1>0, <3>1
    <3> HIDE DEF r, level, off
    <3>7. RegionIsSound(made[i])
      BY <3>2, <3>4, <3>5, <3>6, AllocIsSound
    <3>8. QED BY <2>4, <3>7
  <2>7. QED BY <2>5, <2>6
<1>6. RegionIsSound(made[n])
  BY <1>0, <1>5
<1>7. QED BY <1>3, <1>6 DEF NewRegion

(* Who has the blocks ******************************************************)
\* Of what used to be free in a region when it was new, every byte is free now
\* or in one block in use.
UsedIsSound(free, used, whole) ==
  /\ \A h \in used : <<h[1], h[2]>> \in Blocks
  /\ \A h, k \in used : h # k => CellOf(h) \cap CellOf(k) = {}
  /\ \A h \in used : CellOf(h) \cap Cover(free) = {}
  /\ Cover(free) \cup Cover(used) = whole

\* A block changes hands.
LEMMA BlockMoves ==
  ASSUME NEW free, NEW used, NEW whole, UsedIsSound(free, used, whole), NEW h \in used,
         NEW k, k[1] = h[1] /\ k[2] = h[2],
         NEW then, \A x : x \in then <=> (x \in used /\ x # h) \/ x = k
  PROVE  UsedIsSound(free, then, whole)
<1>1. CellOf(k) = CellOf(h)
  BY DEF CellOf
<1>2. /\ \A x \in used : <<x[1], x[2]>> \in Blocks
      /\ \A x, y \in used : x # y => CellOf(x) \cap CellOf(y) = {}
      /\ \A x \in used : CellOf(x) \cap Cover(free) = {}
      /\ Cover(free) \cup Cover(used) = whole
  BY DEF UsedIsSound
<1>3. \A x \in then : <<x[1], x[2]>> \in Blocks
  BY <1>2
<1>4. \A x, y \in then : x # y => CellOf(x) \cap CellOf(y) = {}
  BY <1>1, <1>2
<1>5. \A x \in then : CellOf(x) \cap Cover(free) = {}
  BY <1>1, <1>2
<1>6. Cover(then) = Cover(used)
  BY <1>1 DEF Cover
<1>7. QED BY <1>2, <1>3, <1>4, <1>5, <1>6 DEF UsedIsSound

\* A block is cut from the region.
LEMMA BlockTaken ==
  ASSUME NEW r, RegionIsSound(r), NEW used, NEW whole, UsedIsSound(r.free, used, whole),
         NEW level \in 1 .. Levels - 1, NEW off \in Places(r, level),
         NEW q, q = AllocBlock(r, off, level),
         NEW k, k[1] = level /\ k[2] = off,
         NEW then, \A x : x \in then <=> x \in used \/ x = k
  PROVE  RegionIsSound(q) /\ UsedIsSound(q.free, then, whole) /\ k \notin used
<1> DEFINE cell == Cell(level, off)
<1>1. RegionIsSound(q) /\ <<level, off>> \in Blocks /\ cell \subseteq Cover(r.free)
      /\ Cover(q.free) = Cover(r.free) \ cell
  BY AllocIsSound
<1>2. CellOf(k) = cell
  BY DEF CellOf
<1>3. /\ \A x \in used : <<x[1], x[2]>> \in Blocks
      /\ \A x, y \in used : x # y => CellOf(x) \cap CellOf(y) = {}
      /\ \A x \in used : CellOf(x) \cap Cover(r.free) = {}
      /\ Cover(r.free) \cup Cover(used) = whole
  BY DEF UsedIsSound
<1> HIDE DEF cell
<1>4. \A x \in then : <<x[1], x[2]>> \in Blocks
  BY <1>1, <1>3
<1>5. \A x, y \in then : x # y => CellOf(x) \cap CellOf(y) = {}
  BY <1>1, <1>2, <1>3
<1>6. \A x \in then : CellOf(x) \cap Cover(q.free) = {}
  BY <1>1, <1>2, <1>3
<1>7. Cover(then) = Cover(used) \cup cell
  BY <1>2 DEF Cover
<1>8. Cover(q.free) \cup Cover(then) = whole
  BY <1>1, <1>3, <1>7
<1>9. k \notin used
  <2>1. off \in cell
    <3>1. <<level, off>>[2] \in CellOf(<<level, off>>)
      BY <1>1, BlockFacts
    <3>2. QED BY <3>1 DEF CellOf, cell
  <2>2. QED BY <1>1, <1>2, <1>3, <2>1
<1>10. QED BY <1>1, <1>4, <1>5, <1>6, <1>8, <1>9 DEF UsedIsSound

\* A block is given back to its region.
LEMMA BlockGiven ==
  ASSUME NEW r, RegionIsSound(r), NEW used, NEW whole, 0 \notin whole, UsedIsSound(r.free, used, whole),
         NEW h \in used, NEW q, q = FreeBlock(r, h[2], h[1]),
         NEW then, \A x : x \in then <=> x \in used /\ x # h
  PROVE  RegionIsSound(q) /\ UsedIsSound(q.free, then, whole)
<1>1. /\ \A x \in used : <<x[1], x[2]>> \in Blocks
      /\ \A x, y \in used : x # y => CellOf(x) \cap CellOf(y) = {}
      /\ \A x \in used : CellOf(x) \cap Cover(r.free) = {}
      /\ Cover(r.free) \cup Cover(used) = whole
  BY DEF UsedIsSound
<1> DEFINE level == h[1]
           off == h[2]
<1>2. level \in 1 .. Levels - 1 /\ <<level, off>> \in Blocks
  BY <1>1, BlockFacts
<1>3. CellOf(h) = Cell(level, off)
  BY DEF CellOf
<1>4. Cell(level, off) \cap Cover(r.free) = {} /\ 0 \notin Cell(level, off)
  BY <1>1, <1>3 DEF Cover
<1>5. q = FreeBlock(r, off, level)
  OBVIOUS
<1> HIDE DEF level, off
<1>6. RegionIsSound(q) /\ Cover(q.free) = Cover(r.free) \cup Cell(level, off)
  BY <1>2, <1>4, <1>5, FreeBlockIsSound
<1>7. \A x \in then : <<x[1], x[2]>> \in Blocks
  BY <1>1
<1>8. \A x, y \in then : x # y => CellOf(x) \cap CellOf(y) = {}
  BY <1>1
<1>9. \A x \in then : CellOf(x) \cap Cover(q.free) = {}
  BY <1>1, <1>3, <1>6
<1>10. Cover(used) = Cover(then) \cup Cell(level, off)
  BY <1>3 DEF Cover
<1>11. Cover(q.free) \cup Cover(then) = whole
  BY <1>1, <1>6, <1>10
<1>12. QED BY <1>6, <1>7, <1>8, <1>9, <1>11 DEF UsedIsSound

\* The blocks in use, by who has them.
Listed(b, d) == <<b.lev, b.off, "listed", d>>
Collected(b, d) == <<b.lev, b.off, "collected", d>>
Live(p) == <<LevelOf(p.size), p.off, "live", p.size>>
InCaches(ls, c, h) == \E d \in Cpus : \E b \in ls[d] : b.own = c /\ h = Listed(b, d)
InHands(hs, c, h) == \E d \in Cpus : hs[d] # None /\ hs[d].own = c /\ h = Collected(hs[d], d)
InPieces(ps, c, h) == \E p \in ps : p.own = c /\ h = Live(p)
ListedOf(ls, c) == UNION {{<<b.lev, b.off, "listed", d>> : b \in {x \in ls[d] : x.own = c}} : d \in Cpus}
CollectedOf(hs, c) ==
  {<<hs[d].lev, hs[d].off, "collected", d>> : d \in {x \in Cpus : hs[x] # None /\ hs[x].own = c}}
LiveOf(ps, c) == {<<LevelOf(p.size), p.off, "live", p.size>> : p \in {x \in ps : x.own = c}}
UsedOf(ls, hs, ps, c) == ListedOf(ls, c) \cup CollectedOf(hs, c) \cup LiveOf(ps, c)

LEMMA UsedIs ==
  ASSUME NEW c
  PROVE  /\ Used(c) = UsedOf(lists, hand, pieces, c)
         /\ Used(c)' = UsedOf(lists', hand', pieces', c)
<1>1. /\ ListedBlocks(c) = ListedOf(lists, c) /\ ListedBlocks(c)' = ListedOf(lists', c)
  BY DEF ListedBlocks, ListedOf
<1>2. CollectedBlocks(c) = CollectedOf(hand, c) /\ CollectedBlocks(c)' = CollectedOf(hand', c)
  BY DEF CollectedBlocks, CollectedOf
<1>3. LiveBlocks(c) = LiveOf(pieces, c) /\ LiveBlocks(c)' = LiveOf(pieces', c)
  BY DEF LiveBlocks, LiveOf
<1>4. Used(c)' = ListedBlocks(c)' \cup CollectedBlocks(c)' \cup LiveBlocks(c)'
  BY DEF Used
<1>5. QED BY <1>1, <1>2, <1>3, <1>4 DEF Used, UsedOf

LEMMA WhoUses ==
  ASSUME NEW ls, NEW hs, NEW ps, NEW c, NEW h
  PROVE  h \in UsedOf(ls, hs, ps, c) <=> InCaches(ls, c, h) \/ InHands(hs, c, h) \/ InPieces(ps, c, h)
<1>1. h \in ListedOf(ls, c) <=> InCaches(ls, c, h)
  BY DEF ListedOf, InCaches, Listed
<1>2. h \in CollectedOf(hs, c) <=> InHands(hs, c, h)
  BY DEF CollectedOf, InHands, Collected
<1>3. h \in LiveOf(ps, c) <=> InPieces(ps, c, h)
  BY DEF LiveOf, InPieces, Live
<1>4. QED BY <1>1, <1>2, <1>3 DEF UsedOf

LEMMA Tags ==
  ASSUME NEW h, NEW c
  PROVE  /\ \A ls : InCaches(ls, c, h) => h[3] = "listed"
         /\ \A hs : InHands(hs, c, h) => h[3] = "collected"
         /\ \A ps : InPieces(ps, c, h) => h[3] = "live"
  BY DEF InCaches, InHands, InPieces, Listed, Collected, Live

Without(ls, c, b) == [ls EXCEPT ![c] = @ \ {b}]
With(ls, c, b) == [ls EXCEPT ![c] = @ \cup {b}]

LEMMA ListedLess ==
  ASSUME NEW ls, ls \in [Cpus -> SUBSET Block], NEW c \in Cpus, NEW b, b \in ls[c],
         NEW e, NEW h
  PROVE  InCaches(Without(ls, c, b), e, h) <=> InCaches(ls, e, h) /\ ~(e = b.own /\ h = Listed(b, c))
<1> DEFINE then == Without(ls, c, b)
<1>1. \A d \in Cpus : then[d] = IF d = c THEN ls[c] \ {b} ELSE ls[d]
  BY DEF Without
<1> HIDE DEF then
<1>2. ASSUME NEW x \in ls[c], x.own = b.own, Listed(x, c) = Listed(b, c) PROVE x = b
  <2>1. x \in Block /\ b \in Block
    OBVIOUS
  <2>2. x.lev = b.lev /\ x.off = b.off
    BY <1>2 DEF Listed
  <2>3. QED BY <1>2, <2>1, <2>2 DEF Block
<1>3. ASSUME NEW d \in Cpus, NEW x, Listed(x, d) = Listed(b, c) PROVE d = c
  BY <1>3 DEF Listed
<1>4. ASSUME InCaches(then, e, h) PROVE InCaches(ls, e, h) /\ ~(e = b.own /\ h = Listed(b, c))
  <2>1. PICK d \in Cpus : \E x \in then[d] : x.own = e /\ h = Listed(x, d)
    BY <1>4 DEF InCaches
  <2>2. PICK x \in then[d] : x.own = e /\ h = Listed(x, d)
    BY <2>1
  <2>3. x \in ls[d] /\ (d = c => x # b)
    BY <1>1, <2>2
  <2>4. InCaches(ls, e, h)
    BY <2>2, <2>3 DEF InCaches
  <2>5. ASSUME e = b.own, h = Listed(b, c) PROVE FALSE
    BY <1>2, <1>3, <2>2, <2>3, <2>5
  <2>6. QED BY <2>4, <2>5
<1>5. ASSUME InCaches(ls, e, h), ~(e = b.own /\ h = Listed(b, c)) PROVE InCaches(then, e, h)
  <2>1. PICK d \in Cpus : \E x \in ls[d] : x.own = e /\ h = Listed(x, d)
    BY <1>5 DEF InCaches
  <2>2. PICK x \in ls[d] : x.own = e /\ h = Listed(x, d)
    BY <2>1
  <2>3. x \in then[d]
    BY <1>1, <1>5, <2>2
  <2>4. QED BY <2>2, <2>3 DEF InCaches
<1>6. QED BY <1>4, <1>5 DEF then

LEMMA ListedMore ==
  ASSUME NEW ls, ls \in [Cpus -> SUBSET Block], NEW c \in Cpus, NEW b,
         NEW e, NEW h
  PROVE  InCaches(With(ls, c, b), e, h) <=> InCaches(ls, e, h) \/ (e = b.own /\ h = Listed(b, c))
<1> DEFINE then == With(ls, c, b)
<1>1. \A d \in Cpus : then[d] = IF d = c THEN ls[c] \cup {b} ELSE ls[d]
  BY DEF With
<1> HIDE DEF then
<1>2. ASSUME InCaches(then, e, h) PROVE InCaches(ls, e, h) \/ (e = b.own /\ h = Listed(b, c))
  <2>1. PICK d \in Cpus : \E x \in then[d] : x.own = e /\ h = Listed(x, d)
    BY <1>2 DEF InCaches
  <2>2. PICK x \in then[d] : x.own = e /\ h = Listed(x, d)
    BY <2>1
  <2>3. x \in ls[d] \/ (d = c /\ x = b)
    BY <1>1, <2>2
  <2>4. QED BY <2>2, <2>3 DEF InCaches
<1>3. ASSUME InCaches(ls, e, h) PROVE InCaches(then, e, h)
  <2>1. PICK d \in Cpus : \E x \in ls[d] : x.own = e /\ h = Listed(x, d)
    BY <1>3 DEF InCaches
  <2>2. \E x \in then[d] : x.own = e /\ h = Listed(x, d)
    BY <1>1, <2>1
  <2>3. QED BY <2>2 DEF InCaches
<1>4. ASSUME e = b.own, h = Listed(b, c) PROVE InCaches(then, e, h)
  <2>1. b \in then[c]
    BY <1>1
  <2>2. QED BY <1>4, <2>1 DEF InCaches
<1>5. QED BY <1>2, <1>3, <1>4 DEF then

LEMMA HandMore ==
  ASSUME NEW hs, hs \in [Cpus -> Block \cup {None}], NEW c \in Cpus, hs[c] = None, NEW b \in Block,
         NEW then, then = [hs EXCEPT ![c] = b], NEW e, NEW h
  PROVE  InHands(then, e, h) <=> InHands(hs, e, h) \/ (e = b.own /\ h = Collected(b, c))
<1>1. \A d \in Cpus : then[d] = IF d = c THEN b ELSE hs[d]
  OBVIOUS
<1>2. b # None
  BY NoneAssumption
<1> HIDE DEF Collected
<1>3. InHands(then, e, h) => InHands(hs, e, h) \/ (e = b.own /\ h = Collected(b, c))
  BY <1>1 DEF InHands
<1>4. InHands(hs, e, h) => InHands(then, e, h)
  BY <1>1 DEF InHands
<1>5. e = b.own /\ h = Collected(b, c) => InHands(then, e, h)
  BY <1>1, <1>2 DEF InHands
<1>6. QED BY <1>3, <1>4, <1>5

LEMMA HandLess ==
  ASSUME NEW hs, hs \in [Cpus -> Block \cup {None}], NEW c \in Cpus, hs[c] # None,
         NEW then, then = [hs EXCEPT ![c] = None], NEW e, NEW h
  PROVE  InHands(then, e, h) <=> InHands(hs, e, h) /\ ~(e = hs[c].own /\ h = Collected(hs[c], c))
<1>1. \A d \in Cpus : then[d] = IF d = c THEN None ELSE hs[d]
  OBVIOUS
<1>2. ASSUME NEW x, NEW y, NEW d, Collected(x, d) = Collected(y, c) PROVE d = c
  BY <1>2 DEF Collected
<1>3. InHands(then, e, h) => InHands(hs, e, h) /\ ~(e = hs[c].own /\ h = Collected(hs[c], c))
  BY <1>1, <1>2 DEF InHands
<1>4. InHands(hs, e, h) /\ ~(e = hs[c].own /\ h = Collected(hs[c], c)) => InHands(then, e, h)
  BY <1>1 DEF InHands
<1>5. QED BY <1>3, <1>4

LEMMA LiveMore ==
  ASSUME NEW ps, NEW p, NEW e, NEW h
  PROVE  InPieces(ps \cup {p}, e, h) <=> InPieces(ps, e, h) \/ (e = p.own /\ h = Live(p))
  BY DEF InPieces

LEMMA LiveLess ==
  ASSUME NEW ps, ps \subseteq Piece, NEW p \in ps, NEW e, NEW h
  PROVE  InPieces(ps \ {p}, e, h) <=> InPieces(ps, e, h) /\ ~(e = p.own /\ h = Live(p))
<1>1. ASSUME NEW x \in ps, x.own = p.own, Live(x) = Live(p) PROVE x = p
  <2>1. x \in Piece /\ p \in Piece
    OBVIOUS
  <2>2. x.off = p.off /\ x.size = p.size
    BY <1>1 DEF Live
  <2>3. QED BY <1>1, <2>1, <2>2 DEF Piece
<1>2. QED BY <1>1 DEF InPieces

(* The invariant ***********************************************************)
Whole(c) == Cover(NewRegion[c].free)
HeapInv ==
  \A c \in Cpus : RegionIsSound(region[c]) /\ UsedIsSound(region[c].free, Used(c), Whole(c))

Inv == TypeOK /\ HeapInv /\ CallInv

\* The level of a request has blocks that hold it.
LEMMA LevelHolds ==
  ASSUME NEW n \in 1 .. Cap
  PROVE  LevelOf(n) \in 0 .. Levels - 1 /\ n <= SizeAt(LevelOf(n))
<1> DEFINE T == {l \in 0 .. Levels - 1 : n <= SizeAt(l)}
<1>0. Levels - 1 \in Nat /\ 0 \in 0 .. Levels - 1
  BY BuddyAssumption
<1>1. T \subseteq 0 .. Levels - 1 /\ 0 \in T
  BY <1>0, SizesHalve
<1> HIDE DEF T
<1>2. Max(T) \in T
  BY <1>0, <1>1, GreatestNumber
<1>3. LevelOf(n) = Max(T)
  BY DEF LevelOf, T
<1>4. QED BY <1>1, <1>2, <1>3 DEF T

LEMMA SizesFit ==
  /\ \A n \in Sizes : n \in 1 .. Cap /\ LevelOf(n) \in 0 .. Levels - 1 /\ n <= SizeAt(LevelOf(n))
  /\ Cap \in Nat
<1>1. ASSUME NEW n \in Sizes
      PROVE  n \in 1 .. Cap /\ LevelOf(n) \in 0 .. Levels - 1 /\ n <= SizeAt(LevelOf(n))
  <2>1. n \in 1 .. Cap
    BY CacheAssumption
  <2>2. QED BY <2>1, LevelHolds
<1>2. QED BY <1>1, SizesHalve

\* What a sound region is made of, for TypeOK.
LEMMA RegionHasType ==
  ASSUME NEW r, RegionIsSound(r)
  PROVE  r \in [free : SUBSET ((1 .. Levels - 1) \X (0 .. Cap - 1)), bits : SUBSET (0 .. Pow2[Levels - 1] - 2)]
<1>1. r = [free |-> r.free, bits |-> r.bits] /\ r.free \subseteq Blocks /\ r.bits = BitsOf(r.free)
  BY DEF RegionIsSound, FreeIsSound
<1>2. ASSUME NEW b \in r.free PROVE BlockIndex(b[2], b[1] - 1) \in 0 .. Pow2[Levels - 1] - 2
  <2>1. b[1] \in 1 .. Levels - 1 /\ b[2] \in Addresses
    BY <1>1, BlockFacts
  <2>2. QED BY <2>1, IndexInRange
<1>3. r.bits \subseteq 0 .. Pow2[Levels - 1] - 2
  BY <1>1, <1>2 DEF BitsOf
<1>4. r.free \subseteq (1 .. Levels - 1) \X (0 .. Cap - 1)
  BY <1>1 DEF Blocks, Addresses
<1>5. QED BY <1>1, <1>3, <1>4

\* The first byte, of the header, is not among those that can be used.
LEMMA HeaderIsKept ==
  ASSUME NEW c \in Cpus
  PROVE  0 \notin Whole(c)
  BY NewIsSound DEF RegionIsSound, FreeIsSound, Whole

LEMMA InitInv == Init => Inv
<1> SUFFICES ASSUME Init PROVE Inv
  OBVIOUS
<1>1. \A c \in Cpus : RegionIsSound(NewRegion[c]) /\ region[c] = NewRegion[c]
  BY NewIsSound DEF Init
<1>2. ASSUME NEW c \in Cpus PROVE Used(c) = {}
  <2>1. ASSUME NEW h \in Used(c) PROVE FALSE
    <3>1. InCaches(lists, c, h) \/ InHands(hand, c, h) \/ InPieces(pieces, c, h)
      BY UsedIs, WhoUses
    <3>2. QED BY <3>1 DEF Init, InCaches, InHands, InPieces
  <2>2. QED BY <2>1
<1>3. HeapInv
  <2>1. ASSUME NEW c \in Cpus PROVE UsedIsSound(region[c].free, Used(c), Whole(c))
    BY <1>1, <1>2 DEF UsedIsSound, Whole, Cover
  <2>2. QED BY <1>1, <2>1 DEF HeapInv
<1>4. CallInv
  BY DEF Init, CallInv, CallOf, PiecesOf, Before
<1>5. TypeOK
  <2>1. region \in [Cpus -> [free : SUBSET ((1 .. Levels-1) \X (0 .. Cap-1)), bits : SUBSET (0 .. Pow2[Levels-1] - 2)]]
    <3>1. region = [c \in Cpus |-> NewRegion[c]]
      BY DEF Init, NewRegion
    <3>2. QED BY <1>1, <3>1, RegionHasType
  <2>2. lists \in [Cpus -> SUBSET Block] /\ counter \in [Cpus -> 0 .. Wrap-1] /\ pieces \subseteq Piece
    BY CacheAssumption, SizesHalve DEF Init
  <2>3. /\ pc \in [Cpus -> {"idle", "check", "gc", "collect", "take", "pop", "release", "load", "store", "crashed"}]
        /\ want \in [Cpus -> Sizes \cup {0}]
        /\ old \in [Cpus -> pieces \cup {None}] /\ got \in [Cpus -> pieces \cup {None}]
    BY DEF Init
  <2>4. hand \in [Cpus -> Block \cup {None}] /\ change \in [Cpus -> Change \cup {None}]
    BY DEF Init
  <2>5. calls \in 0 .. MaxCalls
    BY CacheAssumption DEF Init
  <2>6. QED BY <2>1, <2>2, <2>3, <2>4, <2>5 DEF TypeOK
<1>6. QED BY <1>3, <1>4, <1>5 DEF Inv

(* The steps that move blocks **********************************************)
LEMMA HeapNow ==
  ASSUME Inv, NEW c \in Cpus
  PROVE  RegionIsSound(region[c]) /\ UsedIsSound(region[c].free, UsedOf(lists, hand, pieces, c), Whole(c))
  BY UsedIs DEF Inv, HeapInv

LEMMA HeapNext ==
  ASSUME \A c \in Cpus : /\ RegionIsSound(region'[c])
                         /\ UsedIsSound(region'[c].free, UsedOf(lists', hand', pieces', c), Whole(c))
  PROVE  HeapInv'
<1>1. ASSUME NEW c \in Cpus PROVE (RegionIsSound(region[c]) /\ UsedIsSound(region[c].free, Used(c), Whole(c)))'
  <2>1. Used(c)' = UsedOf(lists', hand', pieces', c)
    BY UsedIs
  <2>2. UsedIsSound(region'[c].free, Used(c)', Whole(c))
    BY <2>1
  <2>3. QED BY <2>2
<1>2. QED BY <1>1 DEF HeapInv

LEMMA HeapStays ==
  ASSUME Inv, region' = region, lists' = lists, hand' = hand, pieces' = pieces
  PROVE  HeapInv'
<1>1. ASSUME NEW c \in Cpus
      PROVE  /\ RegionIsSound(region'[c])
             /\ UsedIsSound(region'[c].free, UsedOf(lists', hand', pieces', c), Whole(c))
  BY HeapNow
<1>2. QED BY <1>1, HeapNext

\* What a block in a list says of it.
LEMMA TypesNow ==
  ASSUME TypeOK
  PROVE  /\ lists \in [Cpus -> SUBSET Block] /\ hand \in [Cpus -> Block \cup {None}] /\ pieces \subseteq Piece
         /\ old \in [Cpus -> pieces \cup {None}] /\ got \in [Cpus -> pieces \cup {None}]
         /\ \A c \in Cpus : \A b \in lists[c] : b \in Block /\ b.own \in Cpus
         /\ \A c \in Cpus : hand[c] # None => hand[c] \in Block /\ hand[c].own \in Cpus
         /\ \A p \in pieces : p \in Piece /\ p.own \in Cpus /\ p.size \in Sizes /\ p # None
<1>1. /\ lists \in [Cpus -> SUBSET Block] /\ hand \in [Cpus -> Block \cup {None}] /\ pieces \subseteq Piece
      /\ old \in [Cpus -> pieces \cup {None}] /\ got \in [Cpus -> pieces \cup {None}]
  BY DEF TypeOK
<1>2. \A b \in Block : b.own \in Cpus
  BY DEF Block
<1>3. \A p \in Piece : p.own \in Cpus /\ p.size \in Sizes
  BY DEF Piece
<1>4. QED BY <1>1, <1>2, <1>3, NoneAssumption

LEMMA GcPopMoves ==
  ASSUME Inv, NEW c \in Cpus, Gc_Pop(c)
  PROVE  HeapInv'
<1>1. PICK b \in lists[c] : lists' = [lists EXCEPT ![c] = @ \ {b}] /\ hand' = [hand EXCEPT ![c] = b]
  BY DEF Gc_Pop
<1>2. /\ lists \in [Cpus -> SUBSET Block] /\ hand \in [Cpus -> Block \cup {None}]
      /\ b \in Block /\ b.own \in Cpus /\ hand[c] = None
  BY TypesNow DEF Inv, CallInv, CallOf, Gc_Pop
<1>3. region' = region /\ pieces' = pieces
  BY DEF Gc_Pop
<1> DEFINE h == Listed(b, c)
           k == Collected(b, c)
<1>4. ASSUME NEW e \in Cpus
      PROVE  /\ RegionIsSound(region'[e])
             /\ UsedIsSound(region'[e].free, UsedOf(lists', hand', pieces', e), Whole(e))
  <2> DEFINE U == UsedOf(lists, hand, pieces, e)
             V == UsedOf(lists', hand', pieces', e)
  <2>1. \A x : x \in U <=> InCaches(lists, e, x) \/ InHands(hand, e, x) \/ InPieces(pieces, e, x)
    BY WhoUses
  <2>2. \A x : x \in V <=> InCaches(lists', e, x) \/ InHands(hand', e, x) \/ InPieces(pieces', e, x)
    BY WhoUses
  <2>3. ASSUME NEW x
        PROVE  InCaches(lists', e, x) <=> InCaches(lists, e, x) /\ ~(e = b.own /\ x = h)
    <3>1. lists' = Without(lists, c, b)
      BY <1>1 DEF Without
    <3>2. InCaches(Without(lists, c, b), e, x) <=> InCaches(lists, e, x) /\ ~(e = b.own /\ x = h)
      BY <1>2, ListedLess
    <3>3. QED BY <3>1, <3>2
  <2>4. \A x : InHands(hand', e, x) <=> InHands(hand, e, x) \/ (e = b.own /\ x = k)
    BY <1>1, <1>2, HandMore
  <2>5. ~InHands(hand, e, h) /\ ~InPieces(pieces, e, h) /\ h # k /\ h[1] = k[1] /\ h[2] = k[2]
    <3>1. h[3] = "listed" /\ k[3] = "collected" /\ h[1] = k[1] /\ h[2] = k[2]
      BY DEF Listed, Collected
    <3>2. QED BY <3>1, Tags
  <2>6. e = b.own => InCaches(lists, e, h)
    BY <1>1 DEF InCaches
  <2>7. RegionIsSound(region[e]) /\ UsedIsSound(region[e].free, U, Whole(e))
    BY HeapNow
  <2> HIDE DEF U, V, h, k
  <2>8. CASE e = b.own
    <3>1. h \in U /\ \A x : x \in V <=> (x \in U /\ x # h) \/ x = k
      BY <1>3, <2>1, <2>2, <2>3, <2>4, <2>5, <2>6, <2>8, Zenon
    <3>2. UsedIsSound(region[e].free, V, Whole(e))
      BY <2>5, <2>7, <3>1, BlockMoves
    <3>3. QED BY <1>3, <2>7, <3>2 DEF V
  <2>9. CASE e # b.own
    <3>1. \A x : x \in V <=> x \in U
      BY <1>3, <2>1, <2>2, <2>3, <2>4, <2>9, Zenon
    <3>2. V = U
      BY <3>1
    <3>3. QED BY <1>3, <2>7, <3>2 DEF V
  <2>10. QED BY <2>8, <2>9
<1>5. QED BY <1>4, HeapNext

LEMMA GcCollectMoves ==
  ASSUME Inv, NEW c \in Cpus, Gc_Collect(c)
  PROVE  HeapInv'
<1> DEFINE b == hand[c]
           h == Collected(b, c)
<1>1. /\ region' = [region EXCEPT ![b.own] = FreeBlock(@, b.off, b.lev)]
      /\ hand' = [hand EXCEPT ![c] = None]
      /\ lists' = lists /\ pieces' = pieces
  BY DEF Gc_Collect
<1>2. hand \in [Cpus -> Block \cup {None}] /\ b # None /\ b \in Block /\ b.own \in Cpus
  BY TypesNow DEF Inv, CallInv, CallOf, Gc_Collect
<1>3. \A e \in Cpus : region'[e] = IF e = b.own THEN FreeBlock(region[e], b.off, b.lev) ELSE region[e]
  <2>1. DOMAIN region = Cpus
    BY DEF Inv, TypeOK
  <2> HIDE DEF b
  <2>2. QED BY <1>1, <2>1
<1>4. ASSUME NEW e \in Cpus
      PROVE  /\ RegionIsSound(region'[e])
             /\ UsedIsSound(region'[e].free, UsedOf(lists', hand', pieces', e), Whole(e))
  <2> DEFINE U == UsedOf(lists, hand, pieces, e)
             V == UsedOf(lists', hand', pieces', e)
  <2>1. \A x : x \in U <=> InCaches(lists, e, x) \/ InHands(hand, e, x) \/ InPieces(pieces, e, x)
    BY WhoUses
  <2>2. \A x : x \in V <=> InCaches(lists', e, x) \/ InHands(hand', e, x) \/ InPieces(pieces', e, x)
    BY WhoUses
  <2>3. \A x : InHands(hand', e, x) <=> InHands(hand, e, x) /\ ~(e = b.own /\ x = h)
    BY <1>1, <1>2, HandLess
  <2>4. ~InCaches(lists, e, h) /\ ~InPieces(pieces, e, h) /\ h[1] = b.lev /\ h[2] = b.off
    <3>1. h[3] = "collected" /\ h[1] = b.lev /\ h[2] = b.off
      BY DEF Collected
    <3>2. QED BY <3>1, Tags
  <2>5. e = b.own => InHands(hand, e, h)
    BY <1>2 DEF InHands
  <2>6. RegionIsSound(region[e]) /\ UsedIsSound(region[e].free, U, Whole(e)) /\ 0 \notin Whole(e)
    BY HeapNow, HeaderIsKept
  <2> HIDE DEF U, V, h, b
  <2>7. CASE e = b.own
    <3>1. h \in U /\ \A x : x \in V <=> x \in U /\ x # h
      BY <1>1, <2>1, <2>2, <2>3, <2>4, <2>5, <2>7, Zenon
    <3>2. region'[e] = FreeBlock(region[e], h[2], h[1])
      BY <1>3, <2>4, <2>7
    <3>3. RegionIsSound(region'[e]) /\ UsedIsSound(region'[e].free, V, Whole(e))
      BY <2>6, <3>1, <3>2, BlockGiven
    <3>4. QED BY <3>3 DEF V
  <2>8. CASE e # b.own
    <3>1. \A x : x \in V <=> x \in U
      BY <1>1, <2>1, <2>2, <2>3, <2>8, Zenon
    <3>2. V = U
      BY <3>1
    <3>3. QED BY <1>3, <2>6, <2>8, <3>2 DEF V
  <2>9. QED BY <2>7, <2>8
<1>5. QED BY <1>4, HeapNext

\* A piece is new when its block was not in use.
LEMMA TakeRegionMoves ==
  ASSUME Inv, NEW c \in Cpus, want[c] \in Sizes, NEW off \in Places(region[c], LevelOf(want[c])),
         region' = [region EXCEPT ![c] = AllocBlock(@, off, LevelOf(want[c]))],
         NEW p, p = [own |-> c, off |-> off, size |-> want[c]],
         pieces' = pieces \cup {p}, lists' = lists, hand' = hand
  PROVE  HeapInv' /\ p \in Piece /\ p \notin pieces
<1> DEFINE level == LevelOf(want[c])
           k == Live(p)
<1>1. level \in 1 .. Levels - 1 /\ off \in Addresses
  <2>1. level \in 0 .. Levels - 1
    BY SizesFit
  <2>2. RegionIsSound(region[c])
    BY HeapNow
  <2>3. level # 0
    <3>1. ASSUME level = 0 PROVE FALSE
      BY <3>1 DEF Places, Sources
    <3>2. QED BY <3>1
  <2>4. level \in 1 .. Levels - 1
    BY <2>1, <2>3, BuddyAssumption
  <2> DEFINE from == Max(Sources(region[c], level))
  <2> HIDE DEF level
  <2>5. off \in Places(region[c], level)
    BY DEF level
  <2>6. off \in Addresses
    BY <2>2, <2>4, <2>5, PlacesAre DEF RegionIsSound
  <2>7. QED BY <2>4, <2>6
<1>2. \A e \in Cpus : region'[e] = IF e = c THEN AllocBlock(region[e], off, level) ELSE region[e]
  <2>1. DOMAIN region = Cpus
    BY DEF Inv, TypeOK
  <2>2. QED BY <2>1
<1>3. p \in Piece /\ p.own = c /\ p.off = off /\ p.size = want[c]
  BY <1>1 DEF Piece, Addresses
<1>4. k[1] = level /\ k[2] = off
  BY <1>3 DEF Live
<1>5. ASSUME NEW e \in Cpus
      PROVE  /\ RegionIsSound(region'[e])
             /\ UsedIsSound(region'[e].free, UsedOf(lists', hand', pieces', e), Whole(e))
             /\ e = c => k \notin UsedOf(lists, hand, pieces, e)
  <2> DEFINE U == UsedOf(lists, hand, pieces, e)
             V == UsedOf(lists', hand', pieces', e)
  <2>1. \A x : x \in U <=> InCaches(lists, e, x) \/ InHands(hand, e, x) \/ InPieces(pieces, e, x)
    BY WhoUses
  <2>2. \A x : x \in V <=> InCaches(lists', e, x) \/ InHands(hand', e, x) \/ InPieces(pieces', e, x)
    BY WhoUses
  <2>3. \A x : InPieces(pieces', e, x) <=> InPieces(pieces, e, x) \/ (e = c /\ x = k)
    BY <1>3, LiveMore
  <2>4. RegionIsSound(region[e]) /\ UsedIsSound(region[e].free, U, Whole(e))
    BY HeapNow
  <2>5. lists' = lists /\ hand' = hand
    OBVIOUS
  <2> HIDE DEF U, V, k, level
  <2>6. CASE e = c
    <3>1. \A x : x \in V <=> x \in U \/ x = k
      BY <2>1, <2>2, <2>3, <2>5, <2>6, Zenon
    <3>2. off \in Places(region[e], level) /\ region'[e] = AllocBlock(region[e], off, level)
      BY <1>2, <2>6 DEF level
    <3>3. RegionIsSound(region'[e]) /\ UsedIsSound(region'[e].free, V, Whole(e)) /\ k \notin U
      BY <1>1, <1>4, <2>4, <3>1, <3>2, BlockTaken
    <3>4. QED BY <3>3 DEF U, V
  <2>7. CASE e # c
    <3>1. \A x : x \in V <=> x \in U
      BY <2>1, <2>2, <2>3, <2>5, <2>7, Zenon
    <3>2. V = U
      BY <3>1
    <3>3. QED BY <1>2, <2>4, <2>7, <3>2 DEF V
  <2>8. QED BY <2>6, <2>7
<1>6. HeapInv'
  BY <1>5, HeapNext
<1>7. p \notin pieces
  <2>1. k \notin UsedOf(lists, hand, pieces, c)
    BY <1>5
  <2>2. ~InPieces(pieces, c, k)
    BY <2>1, WhoUses
  <2>3. QED BY <1>3, <2>2 DEF InPieces
<1>8. QED BY <1>3, <1>6, <1>7

\* Of two holders of one place one is the other.
LEMMA OnePlaceOnce ==
  ASSUME NEW free, NEW used, NEW whole, UsedIsSound(free, used, whole), NEW h \in used, NEW k \in used,
         k[1] = h[1] /\ k[2] = h[2]
  PROVE  k = h
<1>1. <<h[1], h[2]>> \in Blocks /\ (k # h => CellOf(h) \cap CellOf(k) = {})
  BY DEF UsedIsSound
<1>2. h[2] \in CellOf(<<h[1], h[2]>>)
  BY <1>1, BlockFacts
<1>3. CellOf(<<h[1], h[2]>>) = CellOf(h) /\ CellOf(k) = CellOf(h)
  BY DEF CellOf
<1>4. QED BY <1>1, <1>2, <1>3

LEMMA PopMoves ==
  ASSUME Inv, NEW c \in Cpus, want[c] \in Sizes, NEW b, b \in lists[c], b.lev = LevelOf(want[c]),
         lists' = [lists EXCEPT ![c] = @ \ {b}],
         NEW p, p = [own |-> b.own, off |-> b.off, size |-> want[c]],
         pieces' = pieces \cup {p}, region' = region, hand' = hand
  PROVE  HeapInv' /\ p \in Piece /\ p \notin pieces
<1>1. lists \in [Cpus -> SUBSET Block] /\ b \in Block /\ b.own \in Cpus
  BY TypesNow DEF Inv
<1>2. lists' = Without(lists, c, b)
  BY DEF Without
<1>3. p \in Piece /\ p.own = b.own /\ p.off = b.off /\ p.size = want[c]
  BY <1>1 DEF Block, Piece
<1> DEFINE h == Listed(b, c)
           k == Live(p)
<1>4. h[1] = k[1] /\ h[2] = k[2] /\ h[3] = "listed" /\ k[3] = "live"
  BY <1>3 DEF Listed, Live
<1>5. ASSUME NEW e \in Cpus
      PROVE  /\ RegionIsSound(region'[e])
             /\ UsedIsSound(region'[e].free, UsedOf(lists', hand', pieces', e), Whole(e))
             /\ e = b.own => k \notin UsedOf(lists, hand, pieces, e)
  <2> DEFINE U == UsedOf(lists, hand, pieces, e)
             V == UsedOf(lists', hand', pieces', e)
  <2>1. \A x : x \in U <=> InCaches(lists, e, x) \/ InHands(hand, e, x) \/ InPieces(pieces, e, x)
    BY WhoUses
  <2>2. \A x : x \in V <=> InCaches(lists', e, x) \/ InHands(hand', e, x) \/ InPieces(pieces', e, x)
    BY WhoUses
  <2>3. ASSUME NEW x
        PROVE  InCaches(lists', e, x) <=> InCaches(lists, e, x) /\ ~(e = b.own /\ x = h)
    <3>1. InCaches(Without(lists, c, b), e, x) <=> InCaches(lists, e, x) /\ ~(e = b.own /\ x = h)
      BY <1>1, ListedLess
    <3>2. QED BY <1>2, <3>1
  <2>4. \A x : InPieces(pieces', e, x) <=> InPieces(pieces, e, x) \/ (e = b.own /\ x = k)
    BY <1>3, LiveMore
  <2>5. ~InHands(hand, e, h) /\ ~InPieces(pieces, e, h) /\ h # k
    BY <1>4, Tags
  <2>6. e = b.own => InCaches(lists, e, h)
    BY DEF InCaches
  <2>7. RegionIsSound(region[e]) /\ UsedIsSound(region[e].free, U, Whole(e))
    BY HeapNow
  <2>8. hand' = hand /\ region' = region
    OBVIOUS
  <2> HIDE DEF U, V, h, k
  <2>9. CASE e = b.own
    <3>1. h \in U /\ \A x : x \in V <=> (x \in U /\ x # h) \/ x = k
      BY <2>1, <2>2, <2>3, <2>4, <2>5, <2>6, <2>8, <2>9, Zenon
    <3>2. UsedIsSound(region[e].free, V, Whole(e))
      BY <1>4, <2>7, <3>1, BlockMoves
    <3>3. k \notin U
      BY <1>4, <2>5, <2>7, <3>1, OnePlaceOnce
    <3>4. QED BY <2>7, <2>8, <3>2, <3>3 DEF U, V
  <2>10. CASE e # b.own
    <3>1. \A x : x \in V <=> x \in U
      BY <2>1, <2>2, <2>3, <2>4, <2>8, <2>10, Zenon
    <3>2. V = U
      BY <3>1
    <3>3. QED BY <2>7, <2>8, <2>10, <3>2 DEF V
  <2>11. QED BY <2>9, <2>10
<1>6. HeapInv'
  BY <1>5, HeapNext
<1>7. p \notin pieces
  <2>1. k \notin UsedOf(lists, hand, pieces, b.own)
    BY <1>1, <1>5
  <2>2. ~InPieces(pieces, b.own, k)
    BY <2>1, WhoUses
  <2>3. QED BY <1>3, <2>2 DEF InPieces
<1>8. QED BY <1>3, <1>6, <1>7

\* The place of a piece is a block of its region.
LEMMA PieceIsBlock ==
  ASSUME Inv, NEW p \in pieces
  PROVE  <<LevelOf(p.size), p.off>> \in Blocks /\ p \in Piece /\ p.own \in Cpus
<1>1. p \in Piece /\ p.own \in Cpus
  BY TypesNow DEF Inv
<1>2. InPieces(pieces, p.own, Live(p))
  BY DEF InPieces
<1>3. Live(p) \in UsedOf(lists, hand, pieces, p.own)
  BY <1>2, WhoUses
<1>4. \A x \in UsedOf(lists, hand, pieces, p.own) : <<x[1], x[2]>> \in Blocks
  BY <1>1, HeapNow DEF UsedIsSound
<1>5. <<Live(p)[1], Live(p)[2]>> \in Blocks
  BY <1>3, <1>4
<1>6. QED BY <1>1, <1>5 DEF Live

LEMMA ReleaseMoves ==
  ASSUME Inv, NEW c \in Cpus, NEW p \in pieces,
         NEW b, b = [own |-> p.own, lev |-> LevelOf(p.size), off |-> p.off],
         lists' = [lists EXCEPT ![c] = @ \cup {b}], pieces' = pieces \ {p},
         region' = region, hand' = hand
  PROVE  HeapInv' /\ b \in Block
<1>1. lists \in [Cpus -> SUBSET Block] /\ pieces \subseteq Piece /\ p.own \in Cpus
  BY TypesNow DEF Inv
<1>2. lists' = With(lists, c, b)
  BY DEF With
<1>3. b.own = p.own /\ b.lev = LevelOf(p.size) /\ b.off = p.off
  OBVIOUS
<1>4. b \in Block
  <2>1. LevelOf(p.size) \in 1 .. Levels - 1 /\ p.off \in 0 .. Cap - 1
    <3> DEFINE x == <<LevelOf(p.size), p.off>>
    <3>1. x \in Blocks /\ x[1] = LevelOf(p.size) /\ x[2] = p.off
      BY PieceIsBlock
    <3> HIDE DEF x
    <3>2. QED BY <3>1, BlockFacts DEF Addresses
  <2>2. QED BY <1>1, <2>1 DEF Block
<1> DEFINE h == Live(p)
           k == Listed(b, c)
<1>5. h[1] = k[1] /\ h[2] = k[2] /\ k[3] = "listed" /\ h[3] = "live"
  BY <1>3 DEF Listed, Live
<1>6. ASSUME NEW e \in Cpus
      PROVE  /\ RegionIsSound(region'[e])
             /\ UsedIsSound(region'[e].free, UsedOf(lists', hand', pieces', e), Whole(e))
  <2> DEFINE U == UsedOf(lists, hand, pieces, e)
             V == UsedOf(lists', hand', pieces', e)
  <2>1. \A x : x \in U <=> InCaches(lists, e, x) \/ InHands(hand, e, x) \/ InPieces(pieces, e, x)
    BY WhoUses
  <2>2. \A x : x \in V <=> InCaches(lists', e, x) \/ InHands(hand', e, x) \/ InPieces(pieces', e, x)
    BY WhoUses
  <2>3. ASSUME NEW x
        PROVE  InCaches(lists', e, x) <=> InCaches(lists, e, x) \/ (e = p.own /\ x = k)
    <3>1. InCaches(With(lists, c, b), e, x) <=> InCaches(lists, e, x) \/ (e = b.own /\ x = k)
      BY <1>1, ListedMore
    <3>2. QED BY <1>2, <1>3, <3>1
  <2>4. ASSUME NEW x
        PROVE  InPieces(pieces', e, x) <=> InPieces(pieces, e, x) /\ ~(e = p.own /\ x = h)
    BY <1>1, LiveLess
  <2>5. ~InHands(hand, e, h) /\ ~InCaches(lists, e, h) /\ h # k
    BY <1>5, Tags
  <2>6. e = p.own => InPieces(pieces, e, h)
    BY DEF InPieces
  <2>7. RegionIsSound(region[e]) /\ UsedIsSound(region[e].free, U, Whole(e))
    BY HeapNow
  <2>8. hand' = hand /\ region' = region
    OBVIOUS
  <2> HIDE DEF U, V, h, k
  <2>9. CASE e = p.own
    <3>1. h \in U /\ \A x : x \in V <=> (x \in U /\ x # h) \/ x = k
      BY <2>1, <2>2, <2>3, <2>4, <2>5, <2>6, <2>8, <2>9, Zenon
    <3>2. UsedIsSound(region[e].free, V, Whole(e))
      BY <1>5, <2>7, <3>1, BlockMoves
    <3>3. QED BY <2>7, <2>8, <3>2 DEF V
  <2>10. CASE e # p.own
    <3>1. \A x : x \in V <=> x \in U
      BY <2>1, <2>2, <2>3, <2>4, <2>8, <2>10, Zenon
    <3>2. V = U
      BY <3>1
    <3>3. QED BY <2>7, <2>8, <2>10, <3>2 DEF V
  <2>11. QED BY <2>9, <2>10
<1>7. QED BY <1>4, <1>6, HeapNext

LEMMA ResizeMoves ==
  ASSUME Inv, NEW p \in pieces, NEW n \in Sizes, LevelOf(p.size) = LevelOf(n),
         NEW q, q = [p EXCEPT !.size = n], pieces' = (pieces \ {p}) \cup {q},
         region' = region, hand' = hand, lists' = lists
  PROVE  HeapInv' /\ q \in Piece /\ q.own = p.own /\ q.off = p.off /\ q.size = n
<1>1. pieces \subseteq Piece /\ p \in Piece /\ p.own \in Cpus
  BY TypesNow DEF Inv
<1>2. q \in Piece /\ q.own = p.own /\ q.off = p.off /\ q.size = n
  BY <1>1 DEF Piece
<1> DEFINE h == Live(p)
           k == Live(q)
<1>3. h[1] = k[1] /\ h[2] = k[2] /\ h[3] = "live" /\ k[3] = "live"
  BY <1>2 DEF Live
<1>4. ASSUME NEW e \in Cpus
      PROVE  /\ RegionIsSound(region'[e])
             /\ UsedIsSound(region'[e].free, UsedOf(lists', hand', pieces', e), Whole(e))
  <2> DEFINE U == UsedOf(lists, hand, pieces, e)
             V == UsedOf(lists', hand', pieces', e)
             rest == pieces \ {p}
  <2>1. \A x : x \in U <=> InCaches(lists, e, x) \/ InHands(hand, e, x) \/ InPieces(pieces, e, x)
    BY WhoUses
  <2>2. \A x : x \in V <=> InCaches(lists', e, x) \/ InHands(hand', e, x) \/ InPieces(pieces', e, x)
    BY WhoUses
  <2>3. ASSUME NEW x
        PROVE  InPieces(rest, e, x) <=> InPieces(pieces, e, x) /\ ~(e = p.own /\ x = h)
    BY <1>1, LiveLess
  <2>4. ASSUME NEW x
        PROVE  InPieces(pieces', e, x) <=> InPieces(rest, e, x) \/ (e = p.own /\ x = k)
    <3> HIDE DEF rest
    <3>1. InPieces(rest \cup {q}, e, x) <=> InPieces(rest, e, x) \/ (e = q.own /\ x = k)
      BY LiveMore
    <3>2. pieces' = rest \cup {q}
      BY DEF rest
    <3>3. QED BY <1>2, <3>1, <3>2
  <2>5. ~InHands(hand, e, h) /\ ~InCaches(lists, e, h)
    BY <1>3, Tags
  <2>6. e = p.own => InPieces(pieces, e, h)
    BY DEF InPieces
  <2>7. RegionIsSound(region[e]) /\ UsedIsSound(region[e].free, U, Whole(e))
    BY HeapNow
  <2>8. hand' = hand /\ region' = region /\ lists' = lists
    OBVIOUS
  <2> HIDE DEF U, V, h, k, rest
  <2>9. CASE e = p.own
    <3>1. h \in U /\ \A x : x \in V <=> (x \in U /\ x # h) \/ x = k
      BY <2>1, <2>2, <2>3, <2>4, <2>5, <2>6, <2>8, <2>9, Zenon
    <3>2. UsedIsSound(region[e].free, V, Whole(e))
      BY <1>3, <2>7, <3>1, BlockMoves
    <3>3. QED BY <2>7, <2>8, <3>2 DEF V
  <2>10. CASE e # p.own
    <3>1. \A x : x \in V <=> x \in U
      BY <2>1, <2>2, <2>3, <2>4, <2>8, <2>10, Zenon
    <3>2. V = U
      BY <3>1
    <3>3. QED BY <2>7, <2>8, <2>10, <3>2 DEF V
  <2>11. QED BY <2>9, <2>10
<1>5. QED BY <1>2, <1>4, HeapNext

(* The steps of a call ******************************************************)
Labels == {"idle", "check", "gc", "collect", "take", "pop", "release", "load", "store", "crashed"}
Regions == [Cpus -> [free : SUBSET ((1 .. Levels - 1) \X (0 .. Cap - 1)), bits : SUBSET (0 .. Pow2[Levels - 1] - 2)]]
Lists == [Cpus -> SUBSET Block]
Counters == [Cpus -> 0 .. Wrap - 1]
Stages == [Cpus -> Labels]
Wants == [Cpus -> Sizes \cup {0}]
Holds(ps) == [Cpus -> ps \cup {None}]
Hands == [Cpus -> Block \cup {None}]
Changes == [Cpus -> Change \cup {None}]

LEMMA TypeParts ==
  /\ TypeOK <=> /\ region \in Regions /\ lists \in Lists /\ counter \in Counters /\ pieces \subseteq Piece
                /\ pc \in Stages /\ want \in Wants /\ old \in Holds(pieces) /\ got \in Holds(pieces)
                /\ hand \in Hands /\ change \in Changes /\ calls \in 0 .. MaxCalls
  /\ TypeOK' <=> /\ region' \in Regions /\ lists' \in Lists /\ counter' \in Counters /\ pieces' \subseteq Piece
                 /\ pc' \in Stages /\ want' \in Wants /\ old' \in Holds(pieces') /\ got' \in Holds(pieces')
                 /\ hand' \in Hands /\ change' \in Changes /\ calls' \in 0 .. MaxCalls
  BY Zenon DEF TypeOK, Labels, Regions, Lists, Counters, Stages, Wants, Holds, Hands, Changes

LEMMA RegionsNext ==
  ASSUME HeapInv', region' = [e \in Cpus |-> region'[e]]
  PROVE  region' \in Regions
<1>1. \A e \in Cpus : RegionIsSound(region'[e])
  BY DEF HeapInv
<1>2. \A e \in Cpus : region'[e] \in
        [free : SUBSET ((1 .. Levels - 1) \X (0 .. Cap - 1)), bits : SUBSET (0 .. Pow2[Levels - 1] - 2)]
  BY <1>1, RegionHasType
<1>3. QED BY <1>2 DEF Regions

LEMMA SetOne ==
  ASSUME NEW D, NEW S, NEW f, f \in [D -> S], NEW c \in D, NEW v \in S, NEW g, g = [f EXCEPT ![c] = v]
  PROVE  g \in [D -> S] /\ g[c] = v /\ \A d \in D \ {c} : g[d] = f[d]
  OBVIOUS

\* What the other calls have stays as it is.
Others(c) ==
  \A d \in Cpus \ {c} : /\ pc'[d] = pc[d] /\ want'[d] = want[d] /\ hand'[d] = hand[d] /\ change'[d] = change[d]
                        /\ old'[d] = old[d] /\ got'[d] = got[d]
Apart(c) == \A d \in Cpus \ {c} : PiecesOf(d) \cap PiecesOf(c)' = {}

LEMMA CallsNext ==
  ASSUME CallInv, NEW c \in Cpus, Others(c), CallOf(c)', old'[c] # None => old'[c] # got'[c], Apart(c)
  PROVE  CallInv'
<1>1. ASSUME NEW d \in Cpus \ {c} PROVE CallOf(d)' /\ PiecesOf(d)' = PiecesOf(d) /\ (old'[d] # None => old'[d] # got'[d])
  <2>1. /\ pc'[d] = pc[d] /\ want'[d] = want[d] /\ hand'[d] = hand[d] /\ change'[d] = change[d]
        /\ old'[d] = old[d] /\ got'[d] = got[d]
    BY DEF Others
  <2>2. CallOf(d) /\ (old[d] # None => old[d] # got[d])
    BY DEF CallInv
  <2>3. CallOf(d)'
    BY <2>1, <2>2 DEF CallOf, Before
  <2>4. PiecesOf(d)' = PiecesOf(d)
    BY <2>1 DEF PiecesOf
  <2>5. QED BY <2>1, <2>2, <2>3, <2>4
<1>2. ASSUME NEW d \in Cpus PROVE CallOf(d)' /\ (old'[d] # None => old'[d] # got'[d])
  BY <1>1
<1>3. ASSUME NEW d \in Cpus, NEW e \in Cpus \ {d} PROVE PiecesOf(d)' \cap PiecesOf(e)' = {}
  <2>1. CASE d # c /\ e # c
    <3>1. PiecesOf(d) \cap PiecesOf(e) = {}
      BY DEF CallInv
    <3>2. QED BY <1>1, <2>1, <3>1
  <2>2. CASE d = c
    <3>1. PiecesOf(e) \cap PiecesOf(c)' = {} /\ PiecesOf(e)' = PiecesOf(e)
      BY <1>1, <2>2 DEF Apart
    <3>2. QED BY <2>2, <3>1
  <2>3. CASE e = c
    <3>1. PiecesOf(d) \cap PiecesOf(c)' = {} /\ PiecesOf(d)' = PiecesOf(d)
      BY <1>1, <2>3 DEF Apart
    <3>2. QED BY <2>3, <3>1
  <2>4. QED BY <2>1, <2>2, <2>3
<1>4. QED BY <1>2, <1>3 DEF CallInv

LEMMA ApartStays ==
  ASSUME CallInv, NEW c \in Cpus, PiecesOf(c)' \subseteq PiecesOf(c)
  PROVE  Apart(c)
<1>1. \A d \in Cpus \ {c} : PiecesOf(d) \cap PiecesOf(c) = {}
  BY DEF CallInv
<1>2. QED BY <1>1 DEF Apart

LEMMA CountNext ==
  ASSUME change \in Changes, pc \in Stages, NEW c \in Cpus, NEW cpu \in Cpus, NEW by \in -Cap .. Cap,
         NEW label \in {"idle", "gc", "pop"}, Count(c, cpu, by, label)
  PROVE  /\ change' \in Changes /\ change'[c] \in Change /\ change'[c].then = label
         /\ pc' \in Stages /\ pc'[c] = "load"
         /\ \A d \in Cpus \ {c} : change'[d] = change[d] /\ pc'[d] = pc[d]
<1> DEFINE x == [to |-> cpu, by |-> by, seen |-> 0, then |-> label]
<1>1. x \in Change /\ x.then = label
  <2>1. 0 \in 0 .. Wrap - 1
    BY CacheAssumption, SizesFit
  <2>2. QED BY <2>1 DEF Change
<1>2. change' = [change EXCEPT ![c] = x] /\ pc' = [pc EXCEPT ![c] = "load"]
  BY DEF Count, Goto
<1> HIDE DEF x
<1>3. change' \in Changes /\ change'[c] = x /\ \A d \in Cpus \ {c} : change'[d] = change[d]
  BY <1>1, <1>2, SetOne DEF Changes
<1>4. pc' \in Stages /\ pc'[c] = "load" /\ \A d \in Cpus \ {c} : pc'[d] = pc[d]
  BY <1>2, SetOne DEF Stages, Labels
<1>5. QED BY <1>1, <1>3, <1>4

LEMMA GotoNext ==
  ASSUME pc \in Stages, NEW c \in Cpus, NEW label \in Labels, Goto(c, label)
  PROVE  pc' \in Stages /\ pc'[c] = label /\ \A d \in Cpus \ {c} : pc'[d] = pc[d]
  BY SetOne DEF Stages, Goto

LEMMA InvIs ==
  ASSUME Inv, NEW c \in Cpus
  PROVE  /\ region \in Regions /\ lists \in Lists /\ counter \in Counters /\ pieces \subseteq Piece
         /\ pc \in Stages /\ want \in Wants /\ old \in Holds(pieces) /\ got \in Holds(pieces)
         /\ hand \in Hands /\ change \in Changes /\ calls \in 0 .. MaxCalls
         /\ CallOf(c) /\ CallInv
  BY TypeParts DEF Inv, CallInv

LEMMA MallocKeeps ==
  ASSUME Inv, NEW c \in Cpus, Malloc(c)
  PROVE  Inv'
<1>1. /\ pc[c] = "idle" /\ calls < MaxCalls /\ calls' = calls + 1 /\ Goto(c, "check")
      /\ region' = region /\ lists' = lists /\ counter' = counter /\ pieces' = pieces
      /\ old' = old /\ got' = got /\ hand' = hand /\ change' = change
  BY DEF Malloc, Passed
<1>2. PICK n \in Sizes : want' = [want EXCEPT ![c] = n]
  BY DEF Malloc
<1>3. want' \in Wants /\ want'[c] = n /\ \A d \in Cpus \ {c} : want'[d] = want[d]
  BY <1>2, InvIs, SetOne DEF Wants
<1>4. pc' \in Stages /\ pc'[c] = "check" /\ \A d \in Cpus \ {c} : pc'[d] = pc[d]
  BY <1>1, InvIs, GotoNext DEF Labels
<1>5. calls' \in 0 .. MaxCalls
  BY <1>1, InvIs, CacheAssumption
<1>6. TypeOK'
  BY <1>1, <1>3, <1>4, <1>5, InvIs, TypeParts
<1>7. HeapInv'
  BY <1>1, HeapStays
<1>8. CallOf(c)'
  BY <1>1, <1>3, <1>4, InvIs DEF CallOf, Before
<1>9. Others(c)
  BY <1>1, <1>3, <1>4 DEF Others
<1>10. Apart(c) /\ (old'[c] # None => old'[c] # got'[c])
  <2>1. PiecesOf(c)' = PiecesOf(c)
    BY <1>1 DEF PiecesOf
  <2>2. QED BY <1>1, <2>1, InvIs, ApartStays DEF CallInv
<1>11. QED BY <1>6, <1>7, <1>8, <1>9, <1>10, InvIs, CallsNext DEF Inv

\* A piece that is passed is in no call.
LEMMA PassedIsFree ==
  ASSUME Inv, NEW c \in Cpus, NEW p \in pieces, Passed(c, p)
  PROVE  /\ pc[c] = "idle" /\ calls' \in 0 .. MaxCalls
         /\ \A d \in Cpus : p # old[d] /\ p # got[d] /\ p \notin PiecesOf(d)
         /\ p # None /\ old[c] = None /\ got[c] = None
<1>1. p # None
  BY TypesNow DEF Inv
<1>2. pc[c] = "idle" /\ calls < MaxCalls /\ calls' = calls + 1 /\ \A d \in Cpus : p \notin {old[d], got[d]}
  BY <1>1 DEF Passed
<1>3. calls' \in 0 .. MaxCalls
  BY <1>2, InvIs, CacheAssumption
<1>4. old[c] = None /\ got[c] = None
  BY <1>2, InvIs DEF CallOf
<1>5. QED BY <1>1, <1>2, <1>3, <1>4 DEF PiecesOf

LEMMA CacheFreeKeeps ==
  ASSUME Inv, NEW c \in Cpus, CacheFree(c)
  PROVE  Inv'
<1>1. /\ Goto(c, "release") /\ region' = region /\ lists' = lists /\ counter' = counter /\ pieces' = pieces
      /\ want' = want /\ got' = got /\ hand' = hand /\ change' = change
  BY DEF CacheFree
<1>2. PICK p \in pieces : Passed(c, p) /\ old' = [old EXCEPT ![c] = p]
  BY DEF CacheFree
<1>3. /\ pc[c] = "idle" /\ calls' \in 0 .. MaxCalls /\ p # None /\ old[c] = None /\ got[c] = None
      /\ \A d \in Cpus : p # old[d] /\ p # got[d] /\ p \notin PiecesOf(d)
  BY <1>2, PassedIsFree
<1>4. old' \in Holds(pieces) /\ old'[c] = p /\ \A d \in Cpus \ {c} : old'[d] = old[d]
  <2>1. p \in pieces \cup {None} /\ old \in [Cpus -> pieces \cup {None}]
    BY InvIs DEF Holds
  <2>2. QED BY <1>2, <2>1, SetOne DEF Holds
<1>5. pc' \in Stages /\ pc'[c] = "release" /\ \A d \in Cpus \ {c} : pc'[d] = pc[d]
  BY <1>1, InvIs, GotoNext DEF Labels
<1>6. TypeOK'
  BY <1>1, <1>3, <1>4, <1>5, InvIs, TypeParts
<1>7. HeapInv'
  BY <1>1, HeapStays
<1>8. CallOf(c)'
  BY <1>1, <1>3, <1>4, <1>5, InvIs DEF CallOf, Before
<1>9. Others(c)
  BY <1>1, <1>4, <1>5 DEF Others
<1>10. Apart(c) /\ (old'[c] # None => old'[c] # got'[c])
  <2>1. PiecesOf(c)' \subseteq {p}
    BY <1>1, <1>3, <1>4 DEF PiecesOf
  <2>2. Apart(c)
    BY <1>3, <2>1 DEF Apart
  <2>3. QED BY <1>1, <1>3, <1>4, <2>2
<1>11. QED BY <1>6, <1>7, <1>8, <1>9, <1>10, InvIs, CallsNext DEF Inv

LEMMA ReallocMoveKeeps ==
  ASSUME Inv, NEW c \in Cpus, Realloc_Move(c)
  PROVE  Inv'
<1>1. /\ Goto(c, "check") /\ region' = region /\ lists' = lists /\ counter' = counter /\ pieces' = pieces
      /\ got' = got /\ hand' = hand /\ change' = change
  BY DEF Realloc_Move
<1>2. PICK p \in pieces, n \in Sizes :
        Passed(c, p) /\ old' = [old EXCEPT ![c] = p] /\ want' = [want EXCEPT ![c] = n]
  BY DEF Realloc_Move
<1>3. /\ pc[c] = "idle" /\ calls' \in 0 .. MaxCalls /\ p # None /\ old[c] = None /\ got[c] = None
      /\ \A d \in Cpus : p # old[d] /\ p # got[d] /\ p \notin PiecesOf(d)
  BY <1>2, PassedIsFree
<1>4. old' \in Holds(pieces) /\ old'[c] = p /\ \A d \in Cpus \ {c} : old'[d] = old[d]
  <2>1. p \in pieces \cup {None} /\ old \in [Cpus -> pieces \cup {None}]
    BY InvIs DEF Holds
  <2>2. QED BY <1>2, <2>1, SetOne DEF Holds
<1>5. pc' \in Stages /\ pc'[c] = "check" /\ \A d \in Cpus \ {c} : pc'[d] = pc[d]
  BY <1>1, InvIs, GotoNext DEF Labels
<1>6. want' \in Wants /\ want'[c] = n /\ \A d \in Cpus \ {c} : want'[d] = want[d]
  BY <1>2, InvIs, SetOne DEF Wants
<1>7. TypeOK'
  BY <1>1, <1>3, <1>4, <1>5, <1>6, InvIs, TypeParts
<1>8. HeapInv'
  BY <1>1, HeapStays
<1>9. CallOf(c)'
  BY <1>1, <1>3, <1>4, <1>5, <1>6, InvIs DEF CallOf, Before
<1>10. Others(c)
  BY <1>1, <1>4, <1>5, <1>6 DEF Others
<1>11. Apart(c) /\ (old'[c] # None => old'[c] # got'[c])
  <2>1. PiecesOf(c)' \subseteq {p}
    BY <1>1, <1>3, <1>4 DEF PiecesOf
  <2>2. Apart(c)
    BY <1>3, <2>1 DEF Apart
  <2>3. QED BY <1>1, <1>3, <1>4, <2>2
<1>12. QED BY <1>7, <1>8, <1>9, <1>10, <1>11, InvIs, CallsNext DEF Inv

\* A piece that is in no call can be replaced.
LEMMA HoldsWithout ==
  ASSUME NEW ps, NEW p, NEW q, NEW f, f \in Holds(ps), \A d \in Cpus : p # f[d]
  PROVE  f \in Holds(ps \ {p}) /\ f \in Holds((ps \ {p}) \cup {q})
  BY DEF Holds

LEMMA ReallocSameKeeps ==
  ASSUME Inv, NEW c \in Cpus, Realloc_Same(c)
  PROVE  Inv'
<1>1. /\ region' = region /\ lists' = lists /\ counter' = counter /\ pc' = pc /\ want' = want
      /\ old' = old /\ got' = got /\ hand' = hand /\ change' = change
  BY DEF Realloc_Same
<1>2. PICK p \in pieces, n \in Sizes :
        /\ Passed(c, p) /\ LevelOf(p.size) = LevelOf(n)
        /\ pieces' = (pieces \ {p}) \cup {[p EXCEPT !.size = n]}
  BY DEF Realloc_Same
<1> DEFINE q == [p EXCEPT !.size = n]
<1>3. calls' \in 0 .. MaxCalls /\ \A d \in Cpus : p # old[d] /\ p # got[d]
  BY <1>2, PassedIsFree
<1>4. HeapInv' /\ q \in Piece
  BY <1>1, <1>2, ResizeMoves
<1>5. pieces' = (pieces \ {p}) \cup {q}
  BY <1>2
<1> HIDE DEF q
<1>6. old' \in Holds(pieces') /\ got' \in Holds(pieces') /\ pieces' \subseteq Piece
  BY <1>1, <1>3, <1>4, <1>5, InvIs, HoldsWithout
<1>7. TypeOK'
  BY <1>1, <1>3, <1>6, InvIs, TypeParts
<1>8. CallOf(c)'
  BY <1>1, InvIs DEF CallOf, Before
<1>9. Others(c)
  BY <1>1 DEF Others
<1>10. Apart(c) /\ (old'[c] # None => old'[c] # got'[c])
  <2>1. PiecesOf(c)' = PiecesOf(c)
    BY <1>1 DEF PiecesOf
  <2>2. QED BY <1>1, <2>1, InvIs, ApartStays DEF CallInv
<1>11. QED BY <1>4, <1>7, <1>8, <1>9, <1>10, InvIs, CallsNext DEF Inv

LEMMA CheckKeeps ==
  ASSUME Inv, NEW c \in Cpus, Check(c) \/ Gc_Done(c)
  PROVE  Inv'
<1>1. /\ region' = region /\ lists' = lists /\ counter' = counter /\ pieces' = pieces /\ want' = want
      /\ old' = old /\ got' = got /\ hand' = hand /\ change' = change /\ calls' = calls
      /\ pc[c] \in {"check", "gc"}
  BY DEF Check, Gc_Done, call
<1>2. PICK label \in {"gc", "take"} : Goto(c, label)
  BY DEF Check, Gc_Done
<1>3. pc' \in Stages /\ pc'[c] = label /\ \A d \in Cpus \ {c} : pc'[d] = pc[d]
  BY <1>2, InvIs, GotoNext DEF Labels
<1>4. TypeOK'
  BY <1>1, <1>3, InvIs, TypeParts
<1>5. HeapInv'
  BY <1>1, HeapStays
<1>6. CallOf(c)'
  BY <1>1, <1>3, InvIs DEF CallOf, Before
<1>7. Others(c)
  BY <1>1, <1>3 DEF Others
<1>8. Apart(c) /\ (old'[c] # None => old'[c] # got'[c])
  <2>1. PiecesOf(c)' = PiecesOf(c)
    BY <1>1 DEF PiecesOf
  <2>2. QED BY <1>1, <2>1, InvIs, ApartStays DEF CallInv
<1>9. QED BY <1>4, <1>5, <1>6, <1>7, <1>8, InvIs, CallsNext DEF Inv

LEMMA GcPopKeeps ==
  ASSUME Inv, NEW c \in Cpus, Gc_Pop(c)
  PROVE  Inv'
<1>1. /\ region' = region /\ counter' = counter /\ pieces' = pieces /\ want' = want
      /\ old' = old /\ got' = got /\ change' = change /\ calls' = calls
      /\ pc[c] = "gc" /\ Goto(c, "collect")
  BY DEF Gc_Pop, call
<1>2. PICK b \in lists[c] : lists' = [lists EXCEPT ![c] = @ \ {b}] /\ hand' = [hand EXCEPT ![c] = b]
  BY DEF Gc_Pop
<1>3. b \in Block /\ b # None
  BY TypesNow, NoneAssumption DEF Inv
<1>4. lists' \in Lists
  <2>1. lists[c] \ {b} \in SUBSET Block
    BY InvIs DEF Lists
  <2>2. QED BY <1>2, <2>1, InvIs, SetOne DEF Lists
<1>5. hand' \in Hands /\ hand'[c] = b /\ \A d \in Cpus \ {c} : hand'[d] = hand[d]
  BY <1>2, <1>3, InvIs, SetOne DEF Hands
<1>6. pc' \in Stages /\ pc'[c] = "collect" /\ \A d \in Cpus \ {c} : pc'[d] = pc[d]
  BY <1>1, InvIs, GotoNext DEF Labels
<1>7. TypeOK'
  BY <1>1, <1>4, <1>5, <1>6, InvIs, TypeParts
<1>8. HeapInv'
  BY GcPopMoves
<1>9. CallOf(c)'
  BY <1>1, <1>3, <1>5, <1>6, InvIs DEF CallOf, Before
<1>10. Others(c)
  BY <1>1, <1>5, <1>6 DEF Others
<1>11. Apart(c) /\ (old'[c] # None => old'[c] # got'[c])
  <2>1. PiecesOf(c)' = PiecesOf(c)
    BY <1>1 DEF PiecesOf
  <2>2. QED BY <1>1, <2>1, InvIs, ApartStays DEF CallInv
<1>12. QED BY <1>7, <1>8, <1>9, <1>10, <1>11, InvIs, CallsNext DEF Inv

LEMMA SizeFits ==
  ASSUME NEW l \in 0 .. Levels - 1
  PROVE  -SizeAt(l) \in -Cap .. Cap /\ SizeAt(l) \in -Cap .. Cap
<1>1. Pow2[l] \in Nat \ {0} /\ SizeAt(l) \in Nat \ {0} /\ Cap = SizeAt(l) * Pow2[l] /\ Cap \in Nat
  <2>1. l \in 0 .. Levels
    BY BuddyAssumption
  <2>2. QED BY <2>1, SizesHalve, Doubling
<1> DEFINE s == SizeAt(l)
           p == Pow2[l]
<1> HIDE DEF s, p
<1>2. s \in Nat /\ p \in Nat /\ p >= 1 /\ Cap = s * p
  BY <1>1 DEF s, p
<1>3. s <= s * p
  BY <1>2
<1>4. s \in Nat /\ s <= Cap
  BY <1>2, <1>3
<1>5. QED BY <1>1, <1>4 DEF s

LEMMA GcCollectKeeps ==
  ASSUME Inv, NEW c \in Cpus, Gc_Collect(c)
  PROVE  Inv'
<1> DEFINE b == hand[c]
<1>1. /\ region' = [region EXCEPT ![b.own] = FreeBlock(@, b.off, b.lev)]
      /\ Count(c, b.own, -SizeAt(b.lev), "gc")
      /\ hand' = [hand EXCEPT ![c] = None]
      /\ lists' = lists /\ counter' = counter /\ pieces' = pieces /\ want' = want
      /\ old' = old /\ got' = got /\ calls' = calls /\ pc[c] = "collect"
  BY DEF Gc_Collect, call
<1>2. b # None /\ b \in Block /\ b.own \in Cpus /\ b.lev \in 0 .. Levels - 1
  <2>1. b # None
    BY <1>1, InvIs DEF CallOf
  <2>2. b \in Block /\ b.own \in Cpus
    BY <2>1, TypesNow DEF Inv
  <2>3. b.lev \in 1 .. Levels - 1
    BY <2>2 DEF Block
  <2> HIDE DEF b
  <2>4. QED BY <2>1, <2>2, <2>3, BuddyAssumption
<1> DEFINE by == -SizeAt(b.lev)
           q == FreeBlock(region[b.own], b.off, b.lev)
<1>3. by \in -Cap .. Cap
  BY <1>2, SizeFits
<1>4. region' = [region EXCEPT ![b.own] = q] /\ Count(c, b.own, by, "gc")
  BY <1>1
<1> HIDE DEF q, b, by
<1>5. /\ change' \in Changes /\ change'[c] \in Change /\ change'[c].then = "gc"
      /\ pc' \in Stages /\ pc'[c] = "load"
      /\ \A d \in Cpus \ {c} : change'[d] = change[d] /\ pc'[d] = pc[d]
  BY <1>2, <1>3, <1>4, InvIs, CountNext
<1>6. hand' \in Hands /\ hand'[c] = None /\ \A d \in Cpus \ {c} : hand'[d] = hand[d]
  BY <1>1, InvIs, SetOne DEF Hands
<1>7. HeapInv'
  BY GcCollectMoves
<1>8. region' \in Regions
  <2>1. region' = [e \in Cpus |-> region'[e]]
    BY <1>4, InvIs DEF Regions
  <2>2. QED BY <1>7, <2>1, RegionsNext
<1>9. TypeOK'
  BY <1>1, <1>5, <1>6, <1>8, InvIs, TypeParts
<1>10. CallOf(c)'
  BY <1>1, <1>5, <1>6, InvIs DEF CallOf, Before
<1>11. Others(c)
  BY <1>1, <1>5, <1>6 DEF Others
<1>12. Apart(c) /\ (old'[c] # None => old'[c] # got'[c])
  <2>1. PiecesOf(c)' = PiecesOf(c)
    BY <1>1 DEF PiecesOf
  <2>2. QED BY <1>1, <2>1, InvIs, ApartStays DEF CallInv
<1>13. QED BY <1>7, <1>9, <1>10, <1>11, <1>12, InvIs, CallsNext DEF Inv

LEMMA LoadKeeps ==
  ASSUME Inv, NEW c \in Cpus, Load(c)
  PROVE  Inv'
<1>1. /\ region' = region /\ lists' = lists /\ counter' = counter /\ pieces' = pieces /\ want' = want
      /\ old' = old /\ got' = got /\ hand' = hand /\ calls' = calls
      /\ change' = [change EXCEPT ![c].seen = counter[change[c].to]]
      /\ pc[c] = "load" /\ Goto(c, "store")
  BY DEF Load, call
<1>2. change[c] \in Change /\ CallOf(c)
  BY <1>1, InvIs DEF CallOf
<1> DEFINE x == [change[c] EXCEPT !.seen = counter[change[c].to]]
<1>3. x \in Change /\ x.then = change[c].then
  <2>1. change[c].to \in Cpus
    BY <1>2 DEF Change
  <2>2. counter[change[c].to] \in 0 .. Wrap - 1
    BY <2>1, InvIs DEF Counters
  <2>3. QED BY <1>2, <2>2 DEF Change
<1>4. change' = [change EXCEPT ![c] = x]
  BY <1>1
<1> HIDE DEF x
<1>5. change' \in Changes /\ change'[c] = x /\ \A d \in Cpus \ {c} : change'[d] = change[d]
  BY <1>3, <1>4, InvIs, SetOne DEF Changes
<1>6. pc' \in Stages /\ pc'[c] = "store" /\ \A d \in Cpus \ {c} : pc'[d] = pc[d]
  BY <1>1, InvIs, GotoNext DEF Labels
<1>7. TypeOK'
  BY <1>1, <1>5, <1>6, InvIs, TypeParts
<1>8. HeapInv'
  BY <1>1, HeapStays
<1>9. CallOf(c)'
  BY <1>1, <1>2, <1>3, <1>5, <1>6 DEF CallOf, Before
<1>10. Others(c)
  BY <1>1, <1>5, <1>6 DEF Others
<1>11. Apart(c) /\ (old'[c] # None => old'[c] # got'[c])
  <2>1. PiecesOf(c)' = PiecesOf(c)
    BY <1>1 DEF PiecesOf
  <2>2. QED BY <1>1, <2>1, InvIs, ApartStays DEF CallInv
<1>12. QED BY <1>7, <1>8, <1>9, <1>10, <1>11, InvIs, CallsNext DEF Inv

LEMMA WrapsRound ==
  ASSUME NEW a \in Int
  PROVE  a % Wrap \in 0 .. Wrap - 1
<1>1. Wrap \in Nat \ {0}
  BY CacheAssumption, SizesFit
<1>2. QED BY <1>1, Z3

LEMMA StoreKeeps ==
  ASSUME Inv, NEW c \in Cpus, Store(c)
  PROVE  Inv'
<1> DEFINE x == change[c]
           n == (x.seen + x.by) % Wrap
<1>1. /\ region' = region /\ lists' = lists /\ pieces' = pieces /\ want' = want
      /\ old' = old /\ hand' = hand /\ calls' = calls
      /\ counter' = [counter EXCEPT ![x.to] = n]
      /\ change' = [change EXCEPT ![c] = None]
      /\ pc[c] = "store" /\ Goto(c, x.then)
      /\ got' = IF x.then = "idle" THEN [got EXCEPT ![c] = None] ELSE got
  BY DEF Store
<1>2. x \in Change /\ CallOf(c)
  BY <1>1, InvIs DEF CallOf
<1>3. x.to \in Cpus /\ x.then \in {"idle", "gc", "pop"} /\ n \in 0 .. Wrap - 1
  <2>1. x.to \in Cpus /\ x.then \in {"idle", "gc", "pop"} /\ x.seen \in 0 .. Wrap - 1 /\ x.by \in -Cap .. Cap
    BY <1>2 DEF Change
  <2>2. x.seen + x.by \in Int
    BY <2>1, CacheAssumption, SizesFit
  <2>3. QED BY <2>1, <2>2, WrapsRound
<1> HIDE DEF x, n
<1>4. counter' \in Counters
  BY <1>1, <1>3, InvIs, SetOne DEF Counters
<1>5. change' \in Changes /\ change'[c] = None /\ \A d \in Cpus \ {c} : change'[d] = change[d]
  BY <1>1, InvIs, SetOne DEF Changes
<1>6. pc' \in Stages /\ pc'[c] = x.then /\ \A d \in Cpus \ {c} : pc'[d] = pc[d]
  BY <1>1, <1>3, InvIs, GotoNext DEF Labels
<1>7. /\ got' \in Holds(pieces) /\ \A d \in Cpus \ {c} : got'[d] = got[d]
      /\ got'[c] = IF x.then = "idle" THEN None ELSE got[c]
  <2>1. CASE x.then = "idle"
    <3>1. got' = [got EXCEPT ![c] = None]
      BY <1>1, <2>1
    <3>2. QED BY <2>1, <3>1, InvIs, SetOne DEF Holds
  <2>2. CASE x.then # "idle"
    <3>1. got' = got
      BY <1>1, <2>2
    <3>2. QED BY <2>2, <3>1, InvIs
  <2>3. QED BY <2>1, <2>2
<1>8. TypeOK'
  BY <1>1, <1>4, <1>5, <1>6, <1>7, InvIs, TypeParts
<1>9. HeapInv'
  BY <1>1, HeapStays
<1>10. CallOf(c)'
  <2>1. /\ x.then = "idle" => old[c] = None
        /\ x.then # "idle" => want[c] \in Sizes /\ got[c] = None
        /\ hand[c] # None => pc[c] \in {"collect", "crashed"}
    BY <1>1, <1>2 DEF CallOf, x
  <2>2. hand[c] = None
    BY <1>1, <2>1
  <2>3. QED BY <1>1, <1>3, <1>6, <1>7, <2>1, <2>2 DEF CallOf, Before
<1>11. Others(c)
  BY <1>1, <1>5, <1>6, <1>7 DEF Others
<1>12. Apart(c) /\ (old'[c] # None => old'[c] # got'[c])
  <2>1. PiecesOf(c)' \subseteq PiecesOf(c)
    BY <1>1, <1>7 DEF PiecesOf
  <2>2. Apart(c)
    BY <2>1, InvIs, ApartStays
  <2>3. old[c] # None => old[c] # got[c]
    BY InvIs DEF CallInv
  <2>4. QED BY <1>1, <1>7, <2>2, <2>3
<1>13. QED BY <1>8, <1>9, <1>10, <1>11, <1>12, InvIs, CallsNext DEF Inv

LEMMA TakeFailsKeeps ==
  ASSUME Inv, NEW c \in Cpus, Take_Fails(c)
  PROVE  Inv'
<1>1. /\ region' = region /\ lists' = lists /\ counter' = counter /\ pieces' = pieces /\ want' = want
      /\ old' = old /\ got' = got /\ hand' = hand /\ change' = change /\ calls' = calls
      /\ pc[c] = "take"
      /\ pc' = IF old[c] = None THEN [pc EXCEPT ![c] = "idle"] ELSE [d \in Cpus |-> "crashed"]
  BY DEF Take_Fails, call
<1>2. HeapInv'
  BY <1>1, HeapStays
<1>3. CASE old[c] = None
  <2>1. pc' = [pc EXCEPT ![c] = "idle"]
    BY <1>1, <1>3
  <2>2. pc' \in Stages /\ pc'[c] = "idle" /\ \A d \in Cpus \ {c} : pc'[d] = pc[d]
    BY <2>1, InvIs, SetOne DEF Stages, Labels
  <2>3. TypeOK'
    BY <1>1, <2>2, InvIs, TypeParts
  <2>4. CallOf(c)'
    BY <1>1, <1>3, <2>2, InvIs DEF CallOf, Before
  <2>5. Others(c)
    BY <1>1, <2>2 DEF Others
  <2>6. Apart(c) /\ (old'[c] # None => old'[c] # got'[c])
    <3>1. PiecesOf(c)' = PiecesOf(c)
      BY <1>1 DEF PiecesOf
    <3>2. QED BY <1>1, <3>1, InvIs, ApartStays DEF CallInv
  <2>7. QED BY <1>2, <2>3, <2>4, <2>5, <2>6, InvIs, CallsNext DEF Inv
<1>4. CASE old[c] # None
  <2>1. pc' = [d \in Cpus |-> "crashed"]
    BY <1>1, <1>4
  <2>2. pc' \in Stages /\ \A d \in Cpus : pc'[d] = "crashed"
    BY <2>1 DEF Stages, Labels
  <2>3. TypeOK'
    BY <1>1, <2>2, InvIs, TypeParts
  <2>4. ASSUME NEW d \in Cpus
        PROVE  /\ CallOf(d)' /\ (old'[d] # None => old'[d] # got'[d])
               /\ \A e \in Cpus \ {d} : PiecesOf(d)' \cap PiecesOf(e)' = {}
    <3>1. CallOf(d)'
      BY <1>1, <2>2 DEF CallOf, Before
    <3>2. \A e \in Cpus : PiecesOf(e)' = PiecesOf(e)
      BY <1>1 DEF PiecesOf
    <3>3. (old[d] # None => old[d] # got[d]) /\ \A e \in Cpus \ {d} : PiecesOf(d) \cap PiecesOf(e) = {}
      BY InvIs DEF CallInv
    <3>4. QED BY <1>1, <3>1, <3>2, <3>3
  <2>5. CallInv'
    BY <2>4 DEF CallInv
  <2>6. QED BY <1>2, <2>3, <2>5 DEF Inv
<1>5. QED BY <1>3, <1>4

LEMMA TakeListedKeeps ==
  ASSUME Inv, NEW c \in Cpus, Take_Listed(c)
  PROVE  Inv'
<1>1. /\ region' = region /\ lists' = lists /\ counter' = counter /\ pieces' = pieces /\ want' = want
      /\ old' = old /\ got' = got /\ hand' = hand /\ calls' = calls
      /\ pc[c] = "take" /\ Count(c, c, -want[c], "pop")
  BY DEF Take_Listed, call
<1>2. CallOf(c) /\ want[c] \in Sizes /\ got[c] = None /\ hand[c] = None
  BY <1>1, InvIs DEF CallOf, Before
<1>3. -want[c] \in -Cap .. Cap
  <2>1. want[c] \in 1 .. Cap /\ Cap \in Nat
    BY <1>2, SizesFit
  <2>2. QED BY <2>1
<1>4. /\ change' \in Changes /\ change'[c] \in Change /\ change'[c].then = "pop"
      /\ pc' \in Stages /\ pc'[c] = "load"
      /\ \A d \in Cpus \ {c} : change'[d] = change[d] /\ pc'[d] = pc[d]
  BY <1>1, <1>3, InvIs, CountNext
<1>5. TypeOK'
  BY <1>1, <1>4, InvIs, TypeParts
<1>6. HeapInv'
  BY <1>1, HeapStays
<1>7. CallOf(c)'
  BY <1>1, <1>2, <1>4 DEF CallOf, Before
<1>8. Others(c)
  BY <1>1, <1>4 DEF Others
<1>9. Apart(c) /\ (old'[c] # None => old'[c] # got'[c])
  <2>1. PiecesOf(c)' = PiecesOf(c)
    BY <1>1 DEF PiecesOf
  <2>2. QED BY <1>1, <2>1, InvIs, ApartStays DEF CallInv
<1>10. QED BY <1>5, <1>6, <1>7, <1>8, <1>9, InvIs, CallsNext DEF Inv

LEMMA ObtainKeeps ==
  ASSUME Inv, NEW c \in Cpus, pc[c] \in {"take", "pop"}, NEW own, NEW off, Obtain(c, own, off),
         NEW p \in Piece, p = [own |-> own, off |-> off, size |-> want[c]], p \notin pieces,
         HeapInv', region' \in Regions, lists' \in Lists,
         counter' = counter, want' = want, old' = old, hand' = hand, change' = change, calls' = calls
  PROVE  Inv'
<1>1. /\ pieces' = pieces \cup {p}
      /\ got' = IF old[c] = None THEN got ELSE [got EXCEPT ![c] = p]
      /\ Goto(c, IF old[c] = None THEN "idle" ELSE "release")
  BY DEF Obtain
<1>2. pieces' \subseteq Piece /\ old' \in Holds(pieces') /\ got \in Holds(pieces')
  <2>1. pieces \subseteq Piece /\ old \in Holds(pieces) /\ got \in Holds(pieces)
    BY InvIs
  <2>2. QED BY <1>1, <2>1 DEF Holds
<1>3. /\ pc' \in Stages /\ \A d \in Cpus \ {c} : pc'[d] = pc[d]
      /\ pc'[c] = IF old[c] = None THEN "idle" ELSE "release"
  BY <1>1, InvIs, GotoNext DEF Labels
<1>4. /\ got' \in Holds(pieces') /\ \A d \in Cpus \ {c} : got'[d] = got[d]
      /\ got'[c] = IF old[c] = None THEN got[c] ELSE p
  <2>1. CASE old[c] = None
    BY <1>1, <1>2, <2>1
  <2>2. CASE old[c] # None
    <3>1. got' = [got EXCEPT ![c] = p] /\ p \in pieces' \cup {None}
      BY <1>1, <2>2
    <3>2. QED BY <1>2, <2>2, <3>1, SetOne DEF Holds
  <2>3. QED BY <2>1, <2>2
<1>5. TypeOK'
  BY <1>2, <1>3, <1>4, InvIs, TypeParts
<1>6. CallOf(c) /\ got[c] = None /\ hand[c] = None
  BY InvIs DEF CallOf, Before
<1>7. CallOf(c)'
  BY <1>3, <1>4, <1>6 DEF CallOf, Before
<1>8. Others(c)
  BY <1>3, <1>4 DEF Others
<1>9. \A d \in Cpus : p # old[d] /\ p # got[d]
  <2>1. p # None
    BY NoneAssumption
  <2>2. \A d \in Cpus : old[d] \in pieces \cup {None} /\ got[d] \in pieces \cup {None}
    BY InvIs DEF Holds
  <2>3. QED BY <2>1, <2>2
<1>10. Apart(c)
  <2>1. PiecesOf(c)' \subseteq PiecesOf(c) \cup {p}
    BY <1>4 DEF PiecesOf
  <2>2. \A d \in Cpus \ {c} : PiecesOf(d) \cap PiecesOf(c) = {}
    BY InvIs DEF CallInv
  <2>3. \A d \in Cpus : p \notin PiecesOf(d)
    BY <1>9 DEF PiecesOf
  <2>4. QED BY <2>1, <2>2, <2>3 DEF Apart
<1>11. old'[c] # None => old'[c] # got'[c]
  BY <1>4, <1>9
<1>12. QED BY <1>5, <1>7, <1>8, <1>10, <1>11, InvIs, CallsNext DEF Inv

\* The piece that a call takes from its region is new.
LEMMA TakeRegionKeeps ==
  ASSUME Inv, NEW c \in Cpus, Take_Region(c)
  PROVE  Inv' /\ \E p \in Piece : p \notin pieces /\ pieces' = pieces \cup {p}
<1>1. /\ lists' = lists /\ counter' = counter /\ want' = want /\ old' = old /\ hand' = hand
      /\ change' = change /\ calls' = calls /\ pc[c] = "take"
  BY DEF Take_Region
<1>2. PICK off \in Places(region[c], LevelOf(want[c])) :
        /\ region' = [region EXCEPT ![c] = AllocBlock(@, off, LevelOf(want[c]))]
        /\ Obtain(c, c, off)
  BY DEF Take_Region
<1> DEFINE p == [own |-> c, off |-> off, size |-> want[c]]
<1>3. want[c] \in Sizes
  BY <1>1, InvIs DEF CallOf, Before
<1>4. pieces' = pieces \cup {p}
  BY <1>2 DEF Obtain
<1>5. HeapInv' /\ p \in Piece /\ p \notin pieces
  BY <1>1, <1>2, <1>3, <1>4, TakeRegionMoves
<1>6. region' \in Regions
  <2> DEFINE q == AllocBlock(region[c], off, LevelOf(want[c]))
  <2>1. region' = [region EXCEPT ![c] = q]
    BY <1>2
  <2> HIDE DEF q
  <2>2. region' = [e \in Cpus |-> region'[e]]
    BY <2>1, InvIs DEF Regions
  <2>3. QED BY <1>5, <2>2, RegionsNext
<1>7. p = [own |-> c, off |-> off, size |-> want[c]]
  OBVIOUS
<1> HIDE DEF p
<1>8. Inv'
  BY <1>1, <1>2, <1>5, <1>6, <1>7, InvIs, ObtainKeeps
<1>9. QED BY <1>4, <1>5, <1>8

\* So is the one it takes from its lists.
LEMMA PopKeeps ==
  ASSUME Inv, NEW c \in Cpus, Pop(c)
  PROVE  Inv' /\ \E p \in Piece : p \notin pieces /\ pieces' = pieces \cup {p}
<1>1. /\ region' = region /\ counter' = counter /\ want' = want /\ old' = old /\ hand' = hand
      /\ change' = change /\ calls' = calls /\ pc[c] = "pop"
  BY DEF Pop
<1>2. PICK b \in InLists(c) : lists' = [lists EXCEPT ![c] = @ \ {b}] /\ Obtain(c, b.own, b.off)
  BY DEF Pop
<1>3. b \in lists[c] /\ b.lev = LevelOf(want[c])
  BY DEF InLists
<1> DEFINE p == [own |-> b.own, off |-> b.off, size |-> want[c]]
<1>4. want[c] \in Sizes
  BY <1>1, InvIs DEF CallOf, Before
<1>5. pieces' = pieces \cup {p}
  BY <1>2 DEF Obtain
<1>6. HeapInv' /\ p \in Piece /\ p \notin pieces
  BY <1>1, <1>2, <1>3, <1>4, <1>5, PopMoves
<1>7. lists' \in Lists
  <2>1. lists[c] \ {b} \in SUBSET Block
    BY InvIs DEF Lists
  <2>2. QED BY <1>2, <2>1, InvIs, SetOne DEF Lists
<1>8. p = [own |-> b.own, off |-> b.off, size |-> want[c]]
  OBVIOUS
<1> HIDE DEF p
<1>9. Inv'
  BY <1>1, <1>2, <1>6, <1>7, <1>8, InvIs, ObtainKeeps
<1>10. QED BY <1>5, <1>6, <1>9

LEMMA ReleaseKeeps ==
  ASSUME Inv, NEW c \in Cpus, Release(c)
  PROVE  Inv' /\ old[c] \in pieces /\ pieces' = pieces \ {old[c]}
<1> DEFINE p == old[c]
           level == LevelOf(p.size)
           b == [own |-> p.own, lev |-> level, off |-> p.off]
<1>1. /\ region' = region /\ counter' = counter /\ want' = want /\ got' = got /\ hand' = hand
      /\ calls' = calls /\ pc[c] = "release"
      /\ lists' = [lists EXCEPT ![c] = @ \cup {b}] /\ pieces' = pieces \ {p}
      /\ Count(c, c, SizeAt(level), "idle") /\ old' = [old EXCEPT ![c] = None]
  BY DEF Release
<1>2. p \in pieces /\ p # None
  <2>1. p # None
    BY <1>1, InvIs DEF CallOf
  <2>2. QED BY <2>1, InvIs DEF Holds
<1>3. HeapInv' /\ b \in Block
  BY <1>1, <1>2, ReleaseMoves
<1>4. lists' \in Lists
  <2> HIDE DEF b
  <2>1. lists[c] \cup {b} \in SUBSET Block
    BY <1>3, InvIs DEF Lists
  <2>2. QED BY <1>1, <2>1, InvIs, SetOne DEF Lists
<1> DEFINE by == SizeAt(level)
<1>5. by \in -Cap .. Cap /\ Count(c, c, by, "idle")
  <2>1. LevelOf(p.size) \in 0 .. Levels - 1
    BY <1>2, TypesNow, SizesFit DEF Inv
  <2>2. QED BY <1>1, <2>1, SizeFits
<1> HIDE DEF by, b, level
<1>6. /\ change' \in Changes /\ change'[c] \in Change /\ change'[c].then = "idle"
      /\ pc' \in Stages /\ pc'[c] = "load"
      /\ \A d \in Cpus \ {c} : change'[d] = change[d] /\ pc'[d] = pc[d]
  BY <1>5, InvIs, CountNext
<1>7. \A d \in Cpus : got[d] # p /\ (d # c => old[d] # p)
  <2>1. p \in PiecesOf(c) /\ old[c] # got[c]
    BY <1>2, InvIs DEF PiecesOf, CallInv
  <2>2. \A d \in Cpus \ {c} : p \notin PiecesOf(d)
    BY <2>1, InvIs DEF CallInv
  <2>3. \A d \in Cpus \ {c} : got[d] # p /\ old[d] # p
    BY <1>2, <2>2 DEF PiecesOf
  <2>4. QED BY <2>1, <2>3
<1> HIDE DEF p
<1>8. old' \in Holds(pieces') /\ old'[c] = None /\ \A d \in Cpus \ {c} : old'[d] = old[d]
  <2>1. old' \in Holds(pieces) /\ old'[c] = None /\ \A d \in Cpus \ {c} : old'[d] = old[d]
    BY <1>1, InvIs, SetOne DEF Holds
  <2>2. \A d \in Cpus : p # old'[d]
    BY <1>2, <1>7, <2>1
  <2>3. old' \in Holds(pieces \ {p})
    BY <2>1, <2>2, HoldsWithout
  <2>4. QED BY <1>1, <2>1, <2>3
<1>9. got' \in Holds(pieces') /\ pieces' \subseteq Piece
  <2>1. got \in Holds(pieces \ {p})
    BY <1>7, InvIs, HoldsWithout
  <2>2. QED BY <1>1, <2>1, InvIs
<1>10. TypeOK'
  BY <1>1, <1>4, <1>6, <1>8, <1>9, InvIs, TypeParts
<1>11. CallOf(c)'
  <2>1. hand[c] = None
    BY <1>1, InvIs DEF CallOf
  <2>2. QED BY <1>1, <1>6, <1>8, <2>1 DEF CallOf, Before
<1>12. Others(c)
  BY <1>1, <1>6, <1>8 DEF Others
<1>13. Apart(c) /\ (old'[c] # None => old'[c] # got'[c])
  <2>1. PiecesOf(c)' \subseteq PiecesOf(c)
    BY <1>1, <1>8 DEF PiecesOf
  <2>2. QED BY <1>8, <2>1, InvIs, ApartStays
<1>14. Inv'
  BY <1>3, <1>10, <1>11, <1>12, <1>13, InvIs, CallsNext DEF Inv
<1>15. QED BY <1>1, <1>2, <1>14 DEF p

LEMMA NextInv == Inv /\ [Next]_vars => Inv'
<1> SUFFICES ASSUME Inv, [Next]_vars PROVE Inv'
  OBVIOUS
<1>1. CASE UNCHANGED vars
  <2>1. /\ region' = region /\ lists' = lists /\ counter' = counter /\ pieces' = pieces /\ pc' = pc
        /\ want' = want /\ old' = old /\ got' = got /\ hand' = hand /\ change' = change /\ calls' = calls
    BY <1>1 DEF vars
  <2>2. HeapInv'
    BY <2>1, HeapStays
  <2>3. TypeOK'
    BY <2>1, TypeParts DEF Inv
  <2>4. CallInv'
    BY <2>1 DEF Inv, CallInv, CallOf, PiecesOf, Before
  <2>5. QED BY <2>2, <2>3, <2>4 DEF Inv
<1>2. ASSUME NEW c \in Cpus, Step(c) PROVE Inv'
  <2>1. CASE Call(c)
    BY <2>1, MallocKeeps, CacheFreeKeeps, ReallocSameKeeps, ReallocMoveKeeps DEF Call
  <2>2. CASE Collection(c)
    BY <2>2, CheckKeeps, GcPopKeeps, GcCollectKeeps DEF Collection
  <2>3. CASE Taking(c)
    BY <2>3, TakeRegionKeeps, TakeFailsKeeps, TakeListedKeeps, PopKeeps DEF Taking
  <2>4. CASE Load(c) \/ Store(c) \/ Release(c)
    BY <2>4, LoadKeeps, StoreKeeps, ReleaseKeeps
  <2>5. QED BY <1>2, <2>1, <2>2, <2>3, <2>4 DEF Step
<1>3. QED BY <1>1, <1>2 DEF Next

(* What the invariant says of the heap *************************************)
LEMMA BlockIsBytes ==
  ASSUME NEW h, <<h[1], h[2]>> \in Blocks
  PROVE  BytesOf(h) = CellOf(h)
<1>1. h[1] \in 0 .. Levels - 1 /\ h[2] \in Addresses /\ Start(h[2], h[1]) = h[2]
  <2> DEFINE b == <<h[1], h[2]>>
  <2>1. b \in Blocks /\ b[1] = h[1] /\ b[2] = h[2]
    OBVIOUS
  <2> HIDE DEF b
  <2>2. QED BY <2>1, BlockFacts
<1>2. QED BY <1>1, CellIsBytes DEF BytesOf, CellOf

LEMMA FreeBytes ==
  ASSUME NEW free, free \subseteq Blocks
  PROVE  \A b \in free : BytesOf(b) = CellOf(b) /\ <<b[1], b[2]>> \in Blocks /\ b = <<b[1], b[2]>>
<1>1. ASSUME NEW b \in free PROVE <<b[1], b[2]>> \in Blocks /\ b = <<b[1], b[2]>>
  BY BlockFacts
<1>2. QED BY <1>1, BlockIsBytes

LEMMA KeptIs ==
  ASSUME NEW c \in Cpus
  PROVE  Addresses \ Kept(c) = Whole(c) /\ Whole(c) \subseteq Addresses
<1> DEFINE free == NewRegion[c].free
<1>1. free \subseteq Blocks
  BY NewIsSound DEF RegionIsSound, FreeIsSound
<1> HIDE DEF free
<1>2. \A b \in free : BytesOf(b) = CellOf(b) /\ CellOf(b) \subseteq Addresses
  BY <1>1, FreeBytes, BlockFacts
<1>3. UNION {BytesOf(b) : b \in free} = Cover(free) /\ Cover(free) \subseteq Addresses
  BY <1>2 DEF Cover
<1>4. Kept(c) = Addresses \ UNION {BytesOf(b) : b \in free}
  BY DEF Kept, KeptBytes, Addresses, free
<1>5. Whole(c) = Cover(free)
  BY DEF Whole, free
<1>6. QED BY <1>3, <1>4, <1>5

LEMMA ByteInv == Inv => EveryByteOnce
<1> SUFFICES ASSUME Inv, NEW c \in Cpus
             PROVE  /\ UNION {BytesOf(h) : h \in Holdings(c)} = Addresses \ Kept(c)
                    /\ \A h, k \in Holdings(c) : h # k => BytesOf(h) \cap BytesOf(k) = {}
  BY DEF EveryByteOnce, Addresses
<1> DEFINE free == region[c].free
           F == {<<b[1], b[2], "free", c>> : b \in free}
           U == Used(c)
<1>1. FreeIsSound(free) /\ UsedIsSound(free, U, Whole(c))
  BY DEF Inv, HeapInv, RegionIsSound
<1>2. Holdings(c) = F \cup U
  BY DEF Holdings
<1> HIDE DEF U
<1>3. /\ free \subseteq Blocks
      /\ \A b, d \in free : b # d => CellOf(b) \cap CellOf(d) = {}
      /\ \A h \in U : <<h[1], h[2]>> \in Blocks
      /\ \A h, k \in U : h # k => CellOf(h) \cap CellOf(k) = {}
      /\ \A h \in U : CellOf(h) \cap Cover(free) = {}
      /\ Cover(free) \cup Cover(U) = Whole(c)
  BY <1>1 DEF FreeIsSound, UsedIsSound
<1> HIDE DEF free
<1>4. \A b \in free : BytesOf(b) = CellOf(b) /\ <<b[1], b[2]>> \in Blocks /\ b = <<b[1], b[2]>>
  BY <1>3, FreeBytes
<1>5. ASSUME NEW h \in F
      PROVE  \E b \in free : h = <<b[1], b[2], "free", c>> /\ BytesOf(h) = CellOf(b)
  <2>1. PICK b \in free : h = <<b[1], b[2], "free", c>>
    OBVIOUS
  <2>2. h[1] = b[1] /\ h[2] = b[2]
    BY <2>1
  <2>3. BytesOf(h) = BytesOf(b)
    BY <2>2 DEF BytesOf
  <2>4. QED BY <1>4, <2>1, <2>3
<1>6. \A b \in free : \E h \in F : BytesOf(h) = CellOf(b)
  <2>1. ASSUME NEW b \in free PROVE \E h \in F : BytesOf(h) = CellOf(b)
    <3> DEFINE h == <<b[1], b[2], "free", c>>
    <3>1. h \in F /\ h[1] = b[1] /\ h[2] = b[2]
      OBVIOUS
    <3>2. BytesOf(h) = BytesOf(b)
      BY <3>1 DEF BytesOf
    <3>3. QED BY <1>4, <3>1, <3>2
  <2>2. QED BY <2>1
<1>7. \A h \in U : BytesOf(h) = CellOf(h)
  BY <1>3, BlockIsBytes
<1> HIDE DEF F
<1>8. UNION {BytesOf(h) : h \in F} = Cover(free)
  BY <1>5, <1>6 DEF Cover
<1>9. UNION {BytesOf(h) : h \in U} = Cover(U)
  BY <1>7 DEF Cover
<1>10. UNION {BytesOf(h) : h \in F \cup U} = Whole(c)
  BY <1>3, <1>8, <1>9
<1>11. ASSUME NEW h \in F \cup U, NEW k \in F \cup U, h # k PROVE BytesOf(h) \cap BytesOf(k) = {}
  <2>1. CASE h \in F /\ k \in F
    <3>1. PICK b \in free : h = <<b[1], b[2], "free", c>> /\ BytesOf(h) = CellOf(b)
      BY <1>5, <2>1
    <3>2. PICK d \in free : k = <<d[1], d[2], "free", c>> /\ BytesOf(k) = CellOf(d)
      BY <1>5, <2>1
    <3>3. b # d
      BY <1>11, <3>1, <3>2
    <3>4. QED BY <1>3, <3>1, <3>2, <3>3
  <2>2. CASE h \in U /\ k \in U
    BY <1>3, <1>7, <1>11, <2>2
  <2>3. ASSUME NEW x \in F, NEW y \in U PROVE BytesOf(x) \cap BytesOf(y) = {}
    <3>1. PICK b \in free : BytesOf(x) = CellOf(b)
      BY <1>5
    <3>2. BytesOf(x) \subseteq Cover(free)
      BY <3>1 DEF Cover
    <3>3. QED BY <1>3, <1>7, <3>2
  <2>4. QED BY <2>1, <2>2, <2>3
<1>12. QED BY <1>2, <1>10, <1>11, KeptIs

\* Where the two blocks of a pair start.
LEMMA PairAt ==
  ASSUME NEW l \in 1 .. Levels - 1, NEW i \in 0 .. Pow2[l - 1] - 1,
         NEW j \in {2 * i, 2 * i + 1}, NEW x, x = j * SizeAt(l)
  PROVE  /\ x \in Addresses /\ Pos(x, l) = j /\ Pos(x, l - 1) = i /\ Start(x, l) = x
         /\ <<l, x>> \in Blocks
<1>1. l \in 0 .. Levels - 1 /\ l \in 1 .. Levels /\ l - 1 \in 0 .. Levels - 1 /\ l - 1 \in 0 .. Levels
  BY BuddyAssumption
<1>2. Pow2[l] = 2 * Pow2[l - 1] /\ Pow2[l - 1] \in Nat \ {0} /\ SizeAt(l) \in Nat \ {0}
  BY <1>1, Doubling, SizesHalve
<1>3. j \in 0 .. Pow2[l] - 1
  <2> DEFINE p == Pow2[l - 1]
  <2>1. p \in Nat \ {0} /\ i \in 0 .. p - 1 /\ Pow2[l] = 2 * p
    BY <1>2
  <2> HIDE DEF p
  <2>2. QED BY <2>1
<1>4. x = SizeAt(l) * j + 0 /\ 0 \in 0 .. SizeAt(l) - 1
  <2> DEFINE s == SizeAt(l)
  <2>1. s \in Nat \ {0} /\ x = j * s
    BY <1>2
  <2> HIDE DEF s
  <2>2. j \in Int
    BY <1>3
  <2>3. x = s * j + 0 /\ 0 \in 0 .. s - 1
    BY <2>1, <2>2
  <2>4. QED BY <2>3 DEF s
<1>5. x \in Addresses /\ Pos(x, l) = j
  BY <1>1, <1>3, <1>4, PosFound
<1>6. Pos(x, l - 1) = i
  <2> DEFINE q == Pos(x, l - 1)
  <2>1. (j = 2 * q \/ j = 2 * q + 1)
    BY <1>5, PosAbove
  <2>2. q \in Int
    BY <1>1, <1>5, PosOf, <1>2
  <2>3. i \in Int
    BY <1>2
  <2> HIDE DEF q
  <2>4. q = i
    BY <2>1, <2>2, <2>3
  <2>5. QED BY <2>4 DEF q
<1>7. Start(x, l) = x
  BY <1>1, <1>2, <1>3, <1>4, <1>5, StartOf
<1>8. QED BY <1>5, <1>6, <1>7 DEF Blocks

LEMMA BitsInv == Inv => MergeBits
<1> SUFFICES ASSUME Inv, NEW c \in Cpus, NEW l \in 1 .. Levels - 1, NEW i \in 0 .. Pow2[l - 1] - 1,
                    NEW x, x = 2 * i * SizeAt(l), NEW y, y = (2 * i + 1) * SizeAt(l)
             PROVE  /\ ~(<<l, x>> \in region[c].free /\ <<l, y>> \in region[c].free)
                    /\ BlockIndex(x, l - 1) \in region[c].bits
                       <=> (<<l, x>> \in region[c].free \/ <<l, y>> \in region[c].free)
  BY DEF MergeBits
<1> DEFINE free == region[c].free
           left == <<l, x>>
           right == <<l, y>>
<1>1. free \subseteq Blocks /\ region[c].bits = BitsOf(free)
      /\ \A b, d \in free : b[1] = d[1] /\ Pos(b[2], b[1] - 1) = Pos(d[2], b[1] - 1) => b = d
  BY DEF Inv, HeapInv, RegionIsSound, FreeIsSound
<1>2. x \in Addresses /\ Pos(x, l) = 2 * i /\ Pos(x, l - 1) = i /\ left \in Blocks
  BY PairAt
<1>3. y \in Addresses /\ Pos(y, l) = 2 * i + 1 /\ Pos(y, l - 1) = i /\ right \in Blocks
  BY PairAt
<1>4. i \in Int
  <2>1. l - 1 \in 0 .. Levels
    BY BuddyAssumption
  <2>2. Pow2[l - 1] \in Nat
    BY <2>1, Doubling
  <2>3. QED BY <2>2
<1>5. left[1] = l /\ left[2] = x /\ right[1] = l /\ right[2] = y
  OBVIOUS
<1> HIDE DEF free, left, right
<1>6. left # right
  BY <1>2, <1>3, <1>4, <1>5
<1>7. ~(left \in free /\ right \in free)
  BY <1>1, <1>2, <1>3, <1>5, <1>6
<1>8. BlockIndex(x, l - 1) \in BitsOf(free) <=> HalfFree(free, x, l)
  BY <1>1, <1>2, BitOfPair
<1>9. ASSUME NEW b \in free, b[1] = l, Pos(b[2], l - 1) = i PROVE b = left \/ b = right
  <2>1. b \in Blocks /\ b[2] \in Addresses
    BY <1>1, BlockFacts
  <2>2. Pos(b[2], l) = 2 * i \/ Pos(b[2], l) = 2 * i + 1
    BY <1>9, <2>1, PosAbove
  <2>3. CASE Pos(b[2], l) = 2 * i
    <3>1. Pos(b[2], b[1]) = Pos(left[2], b[1])
      BY <1>2, <1>5, <1>9, <2>3
    <3>2. QED BY <1>2, <1>5, <1>9, <2>1, <3>1, SameBlock
  <2>4. CASE Pos(b[2], l) = 2 * i + 1
    <3>1. Pos(b[2], b[1]) = Pos(right[2], b[1])
      BY <1>3, <1>5, <1>9, <2>4
    <3>2. QED BY <1>3, <1>5, <1>9, <2>1, <3>1, SameBlock
  <2>5. QED BY <2>2, <2>3, <2>4
<1>10. HalfFree(free, x, l) <=> left \in free \/ right \in free
  BY <1>2, <1>3, <1>5, <1>9 DEF HalfFree
<1>11. QED BY <1>1, <1>7, <1>8, <1>10 DEF free, left, right

LEMMA WholeInv == Inv => WholeAgain
<1> SUFFICES ASSUME Inv, NEW c \in Cpus, \A p \in pieces : p.own # c,
                    \A d \in Cpus : /\ \A b \in lists[d] : b.own # c
                                    /\ hand[d] # None => hand[d].own # c
             PROVE  region[c] = NewRegion[c]
  BY DEF WholeAgain
<1>1. Used(c) = {}
  <2>1. ASSUME NEW h \in Used(c) PROVE FALSE
    <3>1. InCaches(lists, c, h) \/ InHands(hand, c, h) \/ InPieces(pieces, c, h)
      BY UsedIs, WhoUses
    <3>2. QED BY <3>1 DEF InCaches, InHands, InPieces
  <2>2. QED BY <2>1
<1>2. RegionIsSound(region[c]) /\ UsedIsSound(region[c].free, {}, Whole(c))
  BY <1>1 DEF Inv, HeapInv
<1>3. Cover(region[c].free) = Cover(NewRegion[c].free)
  BY <1>2 DEF UsedIsSound, Cover, Whole
<1>4. QED BY <1>2, <1>3, NewIsSound, CoverTells

\* In every region every byte the allocator does not keep is in exactly one
\* block that exactly one has; a bit is set exactly while one of its pair is
\* free, and never are both; and what is given back merges to the region as it
\* was: for any sizes, levels, processors and however the calls interleave.
THEOREM TheHeapIsSound == Spec => []HeapIsSound
<1>1. Init => Inv
  BY InitInv
<1>2. Inv /\ [Next]_vars => Inv'
  BY NextInv
<1>3. Inv => HeapIsSound
  BY ByteInv, BitsInv, WholeInv DEF Inv, HeapIsSound
<1>4. QED BY <1>1, <1>2, <1>3, PTL DEF Spec

(* The heap as its users see it *********************************************)
LEMMA HeapThen ==
  ASSUME Inv', NEW c \in Cpus
  PROVE  pieces' \subseteq Piece /\ UsedIsSound(region'[c].free, UsedOf(lists', hand', pieces', c), Whole(c))
<1>1. (UsedIsSound(region[c].free, Used(c), Whole(c)))'
  BY DEF Inv, HeapInv
<1>2. Used(c)' = UsedOf(lists', hand', pieces', c)
  BY UsedIs
<1>3. pieces' \subseteq Piece
  BY TypeParts DEF Inv
<1>4. QED BY <1>1, <1>2, <1>3

\* The bytes of a piece lie in its block.
LEMMA PieceInBlock ==
  ASSUME NEW ls, NEW hs, NEW ps, ps \subseteq Piece, NEW c \in Cpus, NEW free,
         UsedIsSound(free, UsedOf(ls, hs, ps, c), Whole(c)), NEW p \in ps, p.own = c
  PROVE  /\ Live(p) \in UsedOf(ls, hs, ps, c)
         /\ Abs!Bytes(p) \subseteq CellOf(Live(p)) /\ CellOf(Live(p)) \subseteq Addresses
         /\ CellOf(Live(p)) \cap Kept(c) = {}
<1> DEFINE U == UsedOf(ls, hs, ps, c)
           h == Live(p)
           l == LevelOf(p.size)
<1>1. h \in U
  <2>1. InPieces(ps, c, h)
    BY DEF InPieces
  <2>2. QED BY <2>1, WhoUses
<1>2. h[1] = l /\ h[2] = p.off
  BY DEF Live
<1>3. p \in Piece /\ p.size \in Sizes /\ p.off \in 0 .. Cap - 1
  BY DEF Piece
<1>4. p.size \in 1 .. Cap /\ p.size <= SizeAt(l) /\ l \in 0 .. Levels - 1
  BY <1>3, SizesFit
<1> HIDE DEF U, h, l
<1>5. <<h[1], h[2]>> \in Blocks /\ CellOf(h) \subseteq Cover(U) /\ Cover(U) \subseteq Whole(c)
  <2>1. (\A x \in U : <<x[1], x[2]>> \in Blocks) /\ Cover(free) \cup Cover(U) = Whole(c)
    BY DEF U, UsedIsSound
  <2>2. CellOf(h) \subseteq Cover(U)
    BY <1>1 DEF Cover
  <2>3. QED BY <1>1, <2>1, <2>2
<1>6. BytesOf(h) = CellOf(h)
  BY <1>5, BlockIsBytes
<1>7. BytesOf(h) = p.off .. p.off + SizeAt(l) - 1
  BY <1>2 DEF BytesOf
<1>8. Abs!Bytes(p) \subseteq BytesOf(h)
  <2> DEFINE s == SizeAt(l)
             o == p.off
             n == p.size
  <2>1. s \in Nat /\ n \in Nat /\ n <= s /\ o \in Nat
    BY <1>3, <1>4, SizesHalve
  <2>2. Abs!Bytes(p) = o .. o + n - 1
    BY DEF Abs!Bytes
  <2>3. BytesOf(h) = o .. o + s - 1
    BY <1>7
  <2> HIDE DEF s, o, n
  <2>4. o .. o + n - 1 \subseteq o .. o + s - 1
    BY <2>1
  <2>5. QED BY <2>2, <2>3, <2>4
<1>9. Whole(c) \cap Kept(c) = {} /\ Whole(c) \subseteq Addresses
  BY KeptIs
<1>10. QED BY <1>1, <1>5, <1>6, <1>8, <1>9 DEF U, h

LEMMA PieceFits ==
  ASSUME NEW ls, NEW hs, NEW ps, ps \subseteq Piece, NEW free, NEW p \in ps,
         UsedIsSound(free, UsedOf(ls, hs, ps, p.own), Whole(p.own)),
         NEW others, others \subseteq ps \ {p}
  PROVE  Abs!Fits(p, others)
<1> DEFINE c == p.own
           U == UsedOf(ls, hs, ps, c)
<1>1. p.own \in Cpus
  BY DEF Piece
<1>2. /\ Live(p) \in U /\ Abs!Bytes(p) \subseteq CellOf(Live(p)) /\ CellOf(Live(p)) \subseteq Addresses
      /\ CellOf(Live(p)) \cap Kept(c) = {}
  BY <1>1, PieceInBlock
<1>3. ASSUME NEW q \in others, q.own = c PROVE Abs!Bytes(p) \cap Abs!Bytes(q) = {}
  <2>1. q \in ps /\ q # p
    OBVIOUS
  <2>2. Live(q) \in U /\ Abs!Bytes(q) \subseteq CellOf(Live(q))
    BY <1>1, <1>3, <2>1, PieceInBlock
  <2>3. Live(q) # Live(p)
    <3>1. ASSUME Live(q) = Live(p) PROVE FALSE
      <4>1. q.off = p.off /\ q.size = p.size
        BY <3>1 DEF Live
      <4>2. p \in Piece /\ q \in Piece
        BY <2>1
      <4>3. QED BY <1>3, <2>1, <4>1, <4>2 DEF Piece
    <3>2. QED BY <3>1
  <2>4. CellOf(Live(p)) \cap CellOf(Live(q)) = {}
    BY <1>2, <2>2, <2>3 DEF UsedIsSound
  <2>5. QED BY <1>2, <2>2, <2>4
<1>4. Abs!Bytes(p) \subseteq 0 .. Cap - 1 /\ Abs!Bytes(p) \cap Kept(p.own) = {}
  BY <1>2 DEF Addresses
<1>5. QED BY <1>3, <1>4 DEF Abs!Fits

LEMMA FitsThen ==
  ASSUME Inv', NEW p \in pieces', NEW others, others \subseteq pieces' \ {p}
  PROVE  Abs!Fits(p, others)
<1>1. pieces' \subseteq Piece /\ p.own \in Cpus
  <2>1. pieces' \subseteq Piece
    BY TypeParts DEF Inv
  <2>2. QED BY <2>1 DEF Piece
<1>2. UsedIsSound(region'[p.own].free, UsedOf(lists', hand', pieces', p.own), Whole(p.own))
  BY <1>1, HeapThen
<1>3. QED BY <1>1, <1>2, PieceFits

\* A piece that is new in the heap is one the abstract heap may hand out.
LEMMA NewPieceIsAlloc ==
  ASSUME Inv', NEW p \in Piece, p \notin pieces, pieces' = pieces \cup {p}
  PROVE  Abs!Alloc
<1>1. Abs!Fits(p, pieces)
  BY FitsThen
<1>2. p \in Abs!Piece
  BY DEF Abs!Piece, Piece
<1>3. QED BY <1>1, <1>2 DEF Abs!Alloc

LEMMA ReallocSameIsResize ==
  ASSUME Inv, Inv', NEW c \in Cpus, Realloc_Same(c)
  PROVE  Abs!Resize
<1>1. PICK p \in pieces, n \in Sizes :
        LevelOf(p.size) = LevelOf(n) /\ pieces' = (pieces \ {p}) \cup {[p EXCEPT !.size = n]}
  BY DEF Realloc_Same
<1> DEFINE q == [p EXCEPT !.size = n]
<1>2. p \in Piece /\ p.own \in Cpus /\ pieces \subseteq Piece
  BY TypesNow DEF Inv
<1>3. q \in Piece /\ q.own = p.own /\ q.off = p.off /\ q.size = n
  BY <1>2 DEF Piece
<1>4. pieces' = (pieces \ {p}) \cup {q}
  BY <1>1
<1>5. q \notin pieces \ {p}
  <2>1. SUFFICES ASSUME q \in pieces, q # p PROVE FALSE
    OBVIOUS
  <2> DEFINE U == UsedOf(lists, hand, pieces, p.own)
  <2>2. UsedIsSound(region[p.own].free, U, Whole(p.own))
    BY <1>2, HeapNow
  <2>3. Live(p) \in U /\ Live(q) \in U
    <3>1. InPieces(pieces, p.own, Live(p)) /\ InPieces(pieces, p.own, Live(q))
      <4> HIDE DEF q
      <4>1. QED BY <1>3, <2>1 DEF InPieces
    <3>2. QED BY <3>1, WhoUses
  <2>4. Live(p)[1] = Live(q)[1] /\ Live(p)[2] = Live(q)[2]
    BY <1>1, <1>3 DEF Live
  <2> HIDE DEF U, q
  <2>5. Live(q) = Live(p)
    BY <2>2, <2>3, <2>4, OnePlaceOnce
  <2>6. q.size = p.size
    BY <2>5 DEF Live
  <2>7. QED BY <1>2, <1>3, <2>1, <2>6 DEF Piece
<1>6. Abs!Fits(q, pieces \ {p})
  <2> HIDE DEF q
  <2>1. QED BY <1>4, <1>5, FitsThen
<1>7. QED BY <1>1, <1>6 DEF Abs!Resize

LEMMA StepIsAbstract ==
  ASSUME Inv, Inv', [Next]_vars
  PROVE  [Abs!Next]_pieces
<1>1. CASE UNCHANGED vars
  BY <1>1 DEF vars
<1>2. ASSUME NEW c \in Cpus, Step(c) PROVE Abs!Next \/ pieces' = pieces
  <2>1. CASE Take_Region(c) \/ Pop(c)
    <3>1. \E p \in Piece : p \notin pieces /\ pieces' = pieces \cup {p}
      BY <2>1, TakeRegionKeeps, PopKeeps
    <3>2. QED BY <3>1, NewPieceIsAlloc DEF Abs!Next
  <2>2. CASE Release(c)
    <3>1. old[c] \in pieces /\ pieces' = pieces \ {old[c]}
      BY <2>2, ReleaseKeeps
    <3>2. QED BY <3>1 DEF Abs!Next, Abs!Free
  <2>3. CASE Realloc_Same(c)
    BY <2>3, ReallocSameIsResize DEF Abs!Next
  <2>4. CASE Malloc(c) \/ CacheFree(c) \/ Realloc_Move(c)
    BY <2>4 DEF Malloc, CacheFree, Realloc_Move
  <2>5. CASE Collection(c)
    BY <2>5 DEF Collection, Check, Gc_Pop, Gc_Collect, Gc_Done
  <2>6. CASE Take_Fails(c) \/ Take_Listed(c)
    BY <2>6 DEF Take_Fails, Take_Listed
  <2>7. CASE Load(c) \/ Store(c)
    BY <2>7 DEF Load, Store
  <2>8. QED BY <1>2, <2>1, <2>2, <2>3, <2>4, <2>5, <2>6, <2>7 DEF Step, Call, Taking
<1>3. QED BY <1>1, <1>2 DEF Next

\* The cache and the buddy allocator implement the heap their users rely on:
\* pieces that never overlap each other or what the allocator keeps, resized in
\* place or moved while the old one is still owned.
THEOREM TheHeapIsAbstract == Spec => RefinesAbstractHeap
<1>1. Init => Abs!Init
  BY DEF Init, Abs!Init
<1>2. Inv /\ Inv' /\ [Next]_vars => [Abs!Next]_pieces
  BY StepIsAbstract
<1>3. Init => Inv
  BY InitInv
<1>4. Inv /\ [Next]_vars => Inv'
  BY NextInv
<1>5. QED BY <1>1, <1>2, <1>3, <1>4, PTL DEF Spec, Abs!Spec, RefinesAbstractHeap
=============================================================================
