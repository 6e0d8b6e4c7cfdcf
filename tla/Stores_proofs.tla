---------------------------- MODULE Stores_proofs ----------------------------
(***************************************************************************)
(* Machine-checked proofs about the stores of the engine: Slab, for slabs of *)
(* every size and any number of them; Temp and Arena, for every size of      *)
(* their memory; Resources, for every size of a chunk, every width of the    *)
(* generation in an id and any number of reuses; Registry, for every table   *)
(* and every hash function; and MemStream, for any number of streams and     *)
(* every step by which a buffer grows.                                       *)
(***************************************************************************)
EXTENDS Slab, Temp, Arena, Resources, Registry, MemStream, FiniteSetTheorems, WellFoundedInduction, TLAPS

(* Numbers *****************************************************************)
\* A set of numbers has a least one.
LEMMA LeastNumber ==
  ASSUME NEW T, T \subseteq Nat, T # {}
  PROVE  \E m \in T : \A i \in T : m <= i
<1>1. PICK m \in T : \A i \in T : ~ (<<i, m>> \in OpToRel(<, Nat))
  BY NatLessThanWellFounded, WFMin
<1>2. ASSUME NEW i \in T PROVE m <= i
  <2>1. m \in Nat /\ i \in Nat
    OBVIOUS
  <2>2. ~ (i < m)
    BY <1>1, <2>1 DEF OpToRel
  <2>3. QED BY <2>1, <2>2
<1>3. QED BY <1>2

\* Division with remainder, and that it is unique.
LEMMA Remainder ==
  ASSUME NEW D \in Nat \ {0}, NEW a \in Nat
  PROVE  a \div D \in Int /\ a % D \in 0 .. D - 1 /\ a = D * (a \div D) + (a % D)
  BY Z3

LEMMA RemainderUnique ==
  ASSUME NEW D \in Nat \ {0}, NEW q \in Int, NEW k \in Int, NEW r \in 0 .. D - 1, NEW s \in 0 .. D - 1,
         D * q + r = D * k + s
  PROVE  q = k /\ r = s
<1>1. D * (q - k) = s - r
  BY Z3
<1>2. CASE q - k >= 1
  <2>1. D * (q - k) >= D
    BY <1>2, Z3
  <2>2. QED BY <1>1, <2>1
<1>3. CASE k - q >= 1
  <2>1. D * (q - k) <= -D
    BY <1>3, Z3
  <2>2. QED BY <1>1, <2>1
<1>4. CASE q = k
  BY <1>4
<1>5. QED
  BY <1>2, <1>3, <1>4

(* Slab ********************************************************************)
Tag(p) == next[p][1]
To(p) == next[p][2]
Inside(n) == {p \in (1 .. n) \X Nat : p[2] < Size(p[1])}

\* The slabs are 1 to n.  The last object of each links to the next slab, and
\* only last objects have the tag of a link.
SlabsLinked(n) ==
  /\ memory = 1 .. n /\ DOMAIN next = Inside(n)
  /\ next = [p \in DOMAIN next |-> next[p]]
  /\ \A p \in Inside(n) : Tag(p) = 2 <=> p = LastOf(p[1])
  /\ \A k \in 1 .. n : To(LastOf(k)) = IF k = n THEN Nil ELSE k + 1

\* end is in the newest slab; it and what is behind it was never handed out.
Unused(p, n) == p[1] = n /\ p[2] >= end[2]
EndInv(n) ==
  /\ end \in Inside(n) /\ end[1] = n
  /\ \A p \in Inside(n) : Unused(p, n) => Tag(p) # 1

\* The free list runs through objects that are tagged as free, and no object
\* is on it twice: no two lead to the same one and none leads to the first.
FreeInv(n) ==
  /\ free # Nil => free \in Inside(n) /\ Tag(free) = 1
  /\ \A p \in Inside(n) : Tag(p) = 1 /\ To(p) # Nil =>
       /\ To(p) \in Inside(n) /\ Tag(To(p)) = 1 /\ To(p) # free
       /\ \A q \in Inside(n) : Tag(q) = 1 /\ To(q) = To(p) => q = p

UsersInv(n) ==
  \A u \in users :
    /\ u.object \in Inside(n) /\ next[u.object] = Id(u.id) /\ ~Unused(u.object, n)
    /\ \A v \in users : v.object = u.object => v = u

Alive(n) == SlabsLinked(n) /\ EndInv(n) /\ FreeInv(n) /\ UsersInv(n)
Destroyed == memory = {} /\ DOMAIN next = {} /\ free = Nil /\ end = Nil /\ users = {}

SlabsInv == Destroyed \/ \E n \in 1 .. MaxSlabs + 1 : Alive(n)
-----------------------------------------------------------------------------
(***************************************************************************)
(* Objects and slabs                                                       *)
(***************************************************************************)
LEMMA Sizes == ASSUME SlabAssumption PROVE \A k : Size(k) \in Nat /\ Size(k) >= 2
  BY DEF SlabAssumption, Size

LEMMA InsideIs ==
  ASSUME SlabAssumption, NEW n \in Nat
  PROVE  /\ \A p \in Inside(n) : p = <<p[1], p[2]>> /\ p[1] \in 1 .. n /\ p[2] \in 0 .. Size(p[1]) - 1
         /\ \A k \in 1 .. n : \A i \in 0 .. Size(k) - 1 : <<k, i>> \in Inside(n)
         /\ \A k \in 1 .. n : LastOf(k) \in Inside(n) /\ LastOf(k)[1] = k /\ LastOf(k)[2] = Size(k) - 1
         /\ Nil \notin Inside(n)
<1>1. \A k : Size(k) \in Nat /\ Size(k) >= 2
  BY Sizes
<1>2. ASSUME NEW p \in Inside(n)
      PROVE  p = <<p[1], p[2]>> /\ p[1] \in 1 .. n /\ p[2] \in 0 .. Size(p[1]) - 1
  BY <1>1 DEF Inside
<1>3. ASSUME NEW k \in 1 .. n, NEW i \in 0 .. Size(k) - 1 PROVE <<k, i>> \in Inside(n)
  BY <1>1 DEF Inside
<1>4. ASSUME NEW k \in 1 .. n
      PROVE LastOf(k) \in Inside(n) /\ LastOf(k)[1] = k /\ LastOf(k)[2] = Size(k) - 1
  <2>1. Size(k) - 1 \in 0 .. Size(k) - 1
    BY <1>1
  <2>2. QED BY <1>3, <2>1 DEF LastOf
<1>5. Nil \notin Inside(n)
  BY DEF SlabAssumption, Inside
<1>6. QED BY <1>2, <1>3, <1>4, <1>5

LEMMA OneMore ==
  ASSUME SlabAssumption, NEW n \in Nat
  PROVE  /\ Inside(n + 1) = Inside(n) \cup Objects(n + 1)
         /\ \A p \in Objects(n + 1) : p \notin Inside(n) /\ p[1] = n + 1
<1>1. \A k : Size(k) \in Nat /\ Size(k) >= 2
  BY Sizes
<1>2. ASSUME NEW p \in Inside(n + 1), p \notin Inside(n) PROVE p \in Objects(n + 1)
  <2>1. p = <<p[1], p[2]>> /\ p[1] \in 1 .. n + 1 /\ p[2] \in Nat /\ p[2] < Size(p[1])
    BY DEF Inside
  <2>2. p[1] = n + 1
    BY <1>2, <2>1 DEF Inside
  <2>3. p[2] \in 0 .. Size(n + 1) - 1
    BY <1>1, <2>1, <2>2
  <2>4. QED BY <2>1, <2>2, <2>3 DEF Objects
<1>3. ASSUME NEW p \in Objects(n + 1) PROVE p \in Inside(n + 1) /\ p \notin Inside(n) /\ p[1] = n + 1
  <2>1. p = <<p[1], p[2]>> /\ p[1] = n + 1 /\ p[2] \in 0 .. Size(n + 1) - 1
    BY DEF Objects
  <2>2. p[2] \in Nat /\ p[2] < Size(n + 1)
    BY <1>1, <2>1
  <2>3. QED BY <2>1, <2>2 DEF Inside
<1>4. Inside(n) \subseteq Inside(n + 1)
  BY DEF Inside
<1>5. QED BY <1>2, <1>3, <1>4
-----------------------------------------------------------------------------
(***************************************************************************)
(* The inductive invariant                                                 *)
(***************************************************************************)
LEMMA SlabsStart == ASSUME SlabAssumption, SlabInit PROVE SlabsInv
<1>1. 1 \in Nat /\ 1 \in 1 .. MaxSlabs + 1 /\ \A k : Size(k) \in Nat /\ Size(k) >= 2
  BY Sizes DEF SlabAssumption
<1>2. Inside(1) = Objects(1) /\ \A p \in Inside(1) : p = <<p[1], p[2]>> /\ p[1] = 1
  <2>1. Inside(0) = {} /\ 0 + 1 = 1
    BY DEF Inside
  <2>2. Inside(0 + 1) = Inside(0) \cup Objects(0 + 1)
    BY OneMore
  <2>3. \A p \in Inside(1) : p = <<p[1], p[2]>> /\ p[1] \in 1 .. 1
    BY <1>1, InsideIs
  <2>4. QED BY <2>1, <2>2, <2>3
<1>3. /\ memory = {1} /\ free = Nil /\ end = <<1, 0>> /\ users = {}
      /\ next = [p \in Inside(1) |-> IF p = LastOf(1) THEN <<2, Nil>> ELSE <<0, 0>>]
  BY <1>2 DEF SlabInit, Fresh, Link, Id
<1>4. LastOf(1) \in Inside(1) /\ <<1, 0>> \in Inside(1)
  BY <1>1, InsideIs
<1>5. SlabsLinked(1)
  BY <1>2, <1>3, <1>4 DEF SlabsLinked, Tag, To
<1>6. EndInv(1)
  BY <1>3, <1>4 DEF EndInv, Tag
<1>7. FreeInv(1) /\ UsersInv(1)
  BY <1>3 DEF FreeInv, UsersInv, Tag
<1>8. QED BY <1>1, <1>5, <1>6, <1>7 DEF SlabsInv, Alive

\* An object that is handed out, whether it was free or is the first unused.
LEMMA AllocFreeInv ==
  ASSUME SlabAssumption, NEW n \in 1 .. MaxSlabs + 1, Alive(n), AllocFree
  PROVE  Alive(n)'
<1> n \in Nat
  BY DEF SlabAssumption
<1>1. /\ next' = [next EXCEPT ![free] = <<0, nextid>>] /\ free' = To(free)
      /\ users' = users \cup {[object |-> free, id |-> nextid]}
      /\ end' = end /\ memory' = memory /\ free # Nil
  BY DEF AllocFree, Give, Id, To
<1>2. SlabsLinked(n) /\ EndInv(n) /\ FreeInv(n) /\ UsersInv(n)
  BY DEF Alive
<1>3. free \in Inside(n) /\ Tag(free) = 1 /\ DOMAIN next' = Inside(n)
  BY <1>1, <1>2 DEF FreeInv, SlabsLinked
<1>4. /\ next'[free] = <<0, nextid>>
      /\ \A p \in Inside(n) : p # free => next'[p] = next[p]
  BY <1>1, <1>2, <1>3 DEF SlabsLinked
<1>5. SlabsLinked(n)'
  <2>1. \A p \in Inside(n) : next'[p][1] = 2 <=> next[p][1] = 2
    BY <1>3, <1>4 DEF Tag
  <2>2. \A k \in 1 .. n : LastOf(k) \in Inside(n) /\ LastOf(k)[1] = k /\ LastOf(k) # free
    BY <1>2, <1>3, InsideIs DEF SlabsLinked
  <2>3. next' = [p \in DOMAIN next' |-> next'[p]]
    BY <1>1, <1>2 DEF SlabsLinked
  <2>4. QED BY <1>1, <1>2, <1>3, <1>4, <2>1, <2>2, <2>3 DEF SlabsLinked, Tag, To
<1>6. EndInv(n)'
  BY <1>1, <1>2, <1>3, <1>4 DEF EndInv, Tag, Unused
<1>7. FreeInv(n)'
  <2>1. \A p \in Inside(n) : next'[p][1] = 1 <=> Tag(p) = 1 /\ p # free
    BY <1>4 DEF Tag
  <2>2. QED BY <1>1, <1>2, <1>3, <1>4, <2>1 DEF FreeInv, Tag, To
<1>8. UsersInv(n)'
  <2>1. \A u \in users : u.object # free
    BY <1>2, <1>3 DEF UsersInv, Tag, Id
  <2>2. ~Unused(free, n)
    BY <1>2, <1>3 DEF EndInv
  <2>3. QED BY <1>1, <1>2, <1>3, <1>4, <2>1, <2>2 DEF UsersInv, Unused, Id
<1>9. QED BY <1>5, <1>6, <1>7, <1>8 DEF Alive

LEMMA AllocEndInv ==
  ASSUME SlabAssumption, NEW n \in 1 .. MaxSlabs + 1, Alive(n), AllocEnd
  PROVE  Alive(n)'
<1> n \in Nat
  BY DEF SlabAssumption
<1>1. /\ next' = [next EXCEPT ![end] = <<0, nextid>>] /\ end' = <<end[1], end[2] + 1>>
      /\ users' = users \cup {[object |-> end, id |-> nextid]}
      /\ free' = free /\ memory' = memory /\ Tag(end) # 2
  BY DEF AllocEnd, Give, Id, After, Tag
<1>2. SlabsLinked(n) /\ EndInv(n) /\ FreeInv(n) /\ UsersInv(n)
  BY DEF Alive
<1>3. /\ end \in Inside(n) /\ end[1] = n /\ Unused(end, n) /\ Tag(end) # 1 /\ end # LastOf(n)
      /\ end = <<n, end[2]>> /\ end[2] \in 0 .. Size(n) - 1 /\ Size(n) \in Nat
  <2>1. end \in Inside(n) /\ end[1] = n
    BY <1>2 DEF EndInv
  <2>2. end = <<n, end[2]>> /\ end[2] \in 0 .. Size(n) - 1 /\ Size(n) \in Nat
    BY <2>1, InsideIs, Sizes
  <2>3. Unused(end, n)
    BY <2>1, <2>2 DEF Unused
  <2>4. QED BY <1>1, <1>2, <2>1, <2>2, <2>3 DEF EndInv, SlabsLinked
<1>4. /\ next'[end] = <<0, nextid>> /\ DOMAIN next' = Inside(n)
      /\ \A p \in Inside(n) : p # end => next'[p] = next[p]
  BY <1>1, <1>2, <1>3 DEF SlabsLinked
<1>5. \A p \in Inside(n) : (next'[p][1] = 2 <=> Tag(p) = 2) /\ (next'[p][1] = 1 <=> Tag(p) = 1)
  BY <1>1, <1>3, <1>4 DEF Tag
<1>6. SlabsLinked(n)'
  <2>1. \A k \in 1 .. n : LastOf(k) \in Inside(n) /\ LastOf(k)[1] = k /\ LastOf(k) # end
    BY <1>1, <1>2, InsideIs DEF SlabsLinked
  <2>2. next' = [p \in DOMAIN next' |-> next'[p]]
    BY <1>1, <1>2 DEF SlabsLinked
  <2>3. QED BY <1>1, <1>2, <1>4, <1>5, <2>1, <2>2 DEF SlabsLinked, Tag, To
<1>7. end' \in Inside(n) /\ end'[1] = n /\ end'[2] = end[2] + 1
  <2>1. end[2] # Size(n) - 1
    BY <1>3 DEF LastOf
  <2>2. end[2] + 1 \in 0 .. Size(n) - 1
    BY <1>3, <2>1
  <2>3. QED BY <1>1, <1>3, <2>2, InsideIs
<1>8. ASSUME NEW p \in Inside(n) PROVE Unused(p, n)' <=> Unused(p, n) /\ p # end
  <2>1. p = <<p[1], p[2]>> /\ p[2] \in Nat /\ end[2] \in Nat
    BY <1>3, InsideIs DEF Inside
  <2>2. p[1] = n => (p # end <=> p[2] # end[2])
    BY <1>3, <2>1
  <2>3. p[2] >= end[2] + 1 <=> p[2] >= end[2] /\ p[2] # end[2]
    BY <2>1
  <2>4. QED BY <1>7, <2>2, <2>3 DEF Unused
<1>9. EndInv(n)'
  BY <1>2, <1>5, <1>7, <1>8 DEF EndInv, Tag
<1>10. FreeInv(n)'
  <2>1. \A p \in Inside(n) : Tag(p) = 1 => next'[p] = next[p]
    BY <1>3, <1>4
  <2>2. QED BY <1>1, <1>2, <1>5, <2>1 DEF FreeInv, Tag, To
<1>11. UsersInv(n)'
  <2>1. \A u \in users : u.object # end
    BY <1>2, <1>3 DEF UsersInv
  <2>2. QED BY <1>1, <1>2, <1>3, <1>4, <1>8, <2>1 DEF UsersInv, Id
<1>12. QED BY <1>6, <1>9, <1>10, <1>11 DEF Alive

\* A new slab is linked from the last object of the one before.
LEMMA AllocSlabInv ==
  ASSUME SlabAssumption, NEW n \in 1 .. MaxSlabs + 1, Alive(n), AllocSlab
  PROVE  n + 1 \in 1 .. MaxSlabs + 1 /\ Alive(n + 1)'
<1> DEFINE m == n + 1
           first == <<n + 1, 0>>
<1> n \in Nat /\ m \in Nat /\ MaxSlabs \in Nat /\ m # n
  BY DEF SlabAssumption
<1>1. SlabsLinked(n) /\ EndInv(n) /\ FreeInv(n) /\ UsersInv(n)
  BY DEF Alive
<1>2. /\ next' = [Grow(end) EXCEPT ![<<end[1] + 1, 0>>] = <<0, nextid>>]
      /\ users' = users \cup {[object |-> <<end[1] + 1, 0>>, id |-> nextid]}
      /\ end' = <<end[1] + 1, 0 + 1>> /\ memory' = memory \cup {end[1] + 1}
      /\ free' = free /\ free = Nil /\ Cardinality(memory) < MaxSlabs /\ Tag(end) = 2
  BY DEF AllocSlab, Give, Id, After, Tag
<1>3. end \in Inside(n) /\ end[1] = n /\ end = LastOf(n)
  BY <1>1, <1>2 DEF SlabsLinked, EndInv
<1>4. m \in 1 .. MaxSlabs + 1
  <2>1. Cardinality(1 .. n) = n
    BY FS_Interval
  <2>2. n < MaxSlabs
    BY <1>1, <1>2, <2>1 DEF SlabsLinked
  <2>3. QED BY <2>2
<1>5. /\ Inside(m) = Inside(n) \cup Objects(m)
      /\ \A p \in Objects(m) : p \notin Inside(n) /\ p[1] = m
      /\ first \in Objects(m) /\ LastOf(m) \in Objects(m) /\ first # LastOf(m)
      /\ <<m, 1>> \in Inside(m) /\ first \in Inside(m)
      /\ \A p \in Inside(n) : p \in Inside(m) /\ p[1] \in 1 .. n /\ p[1] # m
  <2>1. \A k : Size(k) \in Nat /\ Size(k) >= 2
    BY Sizes
  <2>2. 0 \in 0 .. Size(m) - 1 /\ 1 \in 0 .. Size(m) - 1 /\ Size(m) - 1 \in 0 .. Size(m) - 1 /\ Size(m) - 1 # 0
    BY <2>1
  <2>3. m \in 1 .. m
    OBVIOUS
  <2>4. <<m, 1>> \in Inside(m) /\ first \in Inside(m)
    BY <2>2, <2>3, InsideIs
  <2>5. first \in Objects(m) /\ LastOf(m) \in Objects(m) /\ first # LastOf(m)
    BY <2>2 DEF Objects, LastOf
  <2>6. \A p \in Inside(n) : p[1] \in 1 .. n /\ p[1] # m
    BY InsideIs
  <2>7. QED BY <2>4, <2>5, <2>6, OneMore
<1>6. /\ end' = <<m, 1>> /\ memory' = memory \cup {m}
      /\ users' = users \cup {[object |-> first, id |-> nextid]}
  BY <1>2, <1>3
<1>7. /\ DOMAIN next' = Inside(m) /\ next' = [p \in DOMAIN next' |-> next'[p]]
      /\ next'[first] = <<0, nextid>> /\ next'[LastOf(m)] = <<2, Nil>> /\ next'[end] = <<2, m>>
      /\ \A p \in Objects(m) : p # first /\ p # LastOf(m) => next'[p] = <<0, 0>>
      /\ \A p \in Inside(n) : p # end => next'[p] = next[p]
  <2>1. Grow(end) = [q \in Inside(m) |->
          IF q = end THEN <<2, m>>
          ELSE IF q \in Objects(m) THEN (IF q = LastOf(m) THEN <<2, Nil>> ELSE <<0, 0>>)
          ELSE next[q]]
    BY <1>1, <1>3, <1>5 DEF Grow, Fresh, Link, Id, SlabsLinked
  <2>2. next' = [q \in Inside(m) |->
          IF q = first THEN <<0, nextid>> ELSE IF q = end THEN <<2, m>>
          ELSE IF q \in Objects(m) THEN (IF q = LastOf(m) THEN <<2, Nil>> ELSE <<0, 0>>)
          ELSE next[q]]
    BY <1>2, <1>3, <2>1
  <2>3. end \notin Objects(m) /\ end \in Inside(m) /\ end # first
    BY <1>3, <1>5
  <2>4. QED BY <1>5, <2>2, <2>3
<1> HIDE DEF m, first
<1>8. \A p \in Inside(n) : Tag(p)' = Tag(p)
  BY <1>2, <1>7 DEF Tag
<1>9. \A p \in Objects(m) : Tag(p)' # 1 /\ (Tag(p)' = 2 <=> p = LastOf(p[1]))
  BY <1>5, <1>7 DEF Tag
<1>10. SlabsLinked(m)'
  <2>1. memory' = 1 .. m
    BY <1>1, <1>6 DEF SlabsLinked, m
  <2>2. ASSUME NEW k \in 1 .. m PROVE To(LastOf(k))' = IF k = m THEN Nil ELSE k + 1
    <3>1. CASE k = m
      BY <1>7, <3>1 DEF To
    <3>2. CASE k = n
      BY <1>3, <1>7, <3>2 DEF To, m
    <3>3. CASE k \in 1 .. n /\ k # n
      <4>1. LastOf(k) \in Inside(n) /\ LastOf(k) # end
        BY <1>3, <3>3, InsideIs
      <4>2. QED BY <1>1, <1>7, <3>3, <4>1 DEF To, SlabsLinked, m
    <3>4. QED BY <3>1, <3>2, <3>3 DEF m
  <2>3. \A p \in Inside(m) : Tag(p)' = 2 <=> p = LastOf(p[1])
    BY <1>1, <1>5, <1>8, <1>9 DEF SlabsLinked
  <2>4. QED BY <1>7, <2>1, <2>2, <2>3 DEF SlabsLinked
<1>11. EndInv(m)'
  BY <1>5, <1>6, <1>9 DEF EndInv, Unused
<1>12. FreeInv(m)'
  <2>1. ASSUME NEW p \in Inside(m), Tag(p)' = 1 PROVE p \in Inside(n) /\ Tag(p) = 1 /\ next'[p] = next[p]
    BY <1>2, <1>5, <1>7, <1>8, <1>9, <2>1
  <2>2. \A p \in Inside(n) : Tag(p) = 1 => Tag(p)' = 1 /\ To(p)' = To(p)
    BY <1>2, <1>7, <1>8 DEF To
  <2>3. QED BY <1>1, <1>2, <1>5, <2>1, <2>2 DEF FreeInv, To
<1>13. UsersInv(m)'
  <2>1. \A u \in users : u.object \in Inside(n) /\ Tag(u.object) = 0
    BY <1>1 DEF UsersInv, Tag, Id
  <2>2. \A u \in users : u.object # first /\ u.object # end /\ u.object \in Inside(m) /\ u.object[1] # m
    BY <1>2, <1>5, <2>1
  <2>3. ~Unused(first, m)'
    BY <1>6 DEF Unused, first
  <2>4. ASSUME NEW u \in users
        PROVE  next'[u.object] = Id(u.id) /\ ~Unused(u.object, m)' /\ \A v \in users : v.object = u.object => v = u
    <3>1. next'[u.object] = next[u.object]
      BY <1>7, <2>1, <2>2
    <3>2. ~Unused(u.object, m)'
      BY <2>2 DEF Unused
    <3>3. QED BY <1>1, <3>1, <3>2 DEF UsersInv
  <2>5. next'[first] = Id(nextid) /\ first \in Inside(m)
    BY <1>5, <1>7 DEF Id
  <2>6. QED BY <1>6, <2>2, <2>3, <2>4, <2>5 DEF UsersInv
<1>14. QED BY <1>4, <1>10, <1>11, <1>12, <1>13 DEF Alive, m

\* An object that is in use goes to the front of the free list, one that is
\* free already stays where it is.
LEMMA SlabFreeInv ==
  ASSUME SlabAssumption, NEW n \in 1 .. MaxSlabs + 1, Alive(n), NEW o \in DOMAIN next, SlabFree(o)
  PROVE  Alive(n)'
<1> n \in Nat
  BY DEF SlabAssumption
<1>1. SlabsLinked(n) /\ EndInv(n) /\ FreeInv(n) /\ UsersInv(n)
  BY DEF Alive
<1>2. /\ next' = IF Tag(o) = 0 THEN [next EXCEPT ![o] = <<1, free>>] ELSE next
      /\ free' = IF next'[o] # next[o] THEN o ELSE free
      /\ users' = {u \in users : u.object # o} /\ end' = end /\ memory' = memory
      /\ (\E u \in users : u.object = o) \/ Tag(o) = 1
  BY DEF SlabFree, NextFreed, Free, Tag
<1>3. o \in Inside(n) /\ Nil \notin Inside(n)
  BY <1>1, InsideIs DEF SlabsLinked
<1>4. CASE Tag(o) = 0
  <2>1. /\ DOMAIN next' = Inside(n) /\ next' = [p \in DOMAIN next' |-> next'[p]]
        /\ next'[o] = <<1, free>> /\ \A p \in Inside(n) : p # o => next'[p] = next[p]
    BY <1>1, <1>2, <1>3, <1>4 DEF SlabsLinked
  <2>2. next'[o] # next[o]
    BY <1>4, <2>1 DEF Tag
  <2>3. free' = o /\ o # Nil
    BY <1>2, <1>3, <2>2
  <2>4. ~Unused(o, n)
    BY <1>1, <1>2, <1>4 DEF UsersInv
  <2>5. \A p \in Inside(n) : Tag(p)' = IF p = o THEN 1 ELSE Tag(p)
    BY <2>1 DEF Tag
  <2>6. SlabsLinked(n)'
    <3>1. \A k \in 1 .. n : LastOf(k) \in Inside(n) /\ LastOf(k)[1] = k /\ LastOf(k) # o
      BY <1>1, <1>4, InsideIs DEF SlabsLinked
    <3>2. QED BY <1>1, <1>2, <1>4, <2>1, <2>5, <3>1 DEF SlabsLinked, To
  <2>7. EndInv(n)'
    BY <1>1, <1>2, <2>4, <2>5 DEF EndInv, Unused
  <2>8. FreeInv(n)'
    <3>1. To(o)' = free /\ \A p \in Inside(n) : p # o => To(p)' = To(p)
      BY <2>1 DEF To
    <3>2. QED BY <1>1, <1>3, <1>4, <2>3, <2>5, <3>1 DEF FreeInv
  <2>9. UsersInv(n)'
    BY <1>1, <1>2, <2>1 DEF UsersInv, Unused
  <2>10. QED BY <2>6, <2>7, <2>8, <2>9 DEF Alive
<1>5. CASE Tag(o) # 0
  <2>1. next' = next /\ free' = free
    BY <1>2, <1>5
  <2>2. QED
    BY <1>1, <1>2, <2>1
       DEF Alive, SlabsLinked, EndInv, FreeInv, UsersInv, Unused, Tag, To
<1>6. QED BY <1>4, <1>5

-----------------------------------------------------------------------------
(***************************************************************************)
(* Destroying the allocator                                                *)
(***************************************************************************)
\* Following the links from the first slab reaches all of them.
LEMMA AllReached ==
  ASSUME SlabAssumption, NEW n \in 1 .. MaxSlabs + 1, SlabsLinked(n)
  PROVE  1 .. n \subseteq Reach[1]
<1> DEFINE M == MaxSlabs + 1
           to(k) == next[LastOf(k)][2]
           w == [k \in 1 .. M |->
                   IF k <= n THEN k .. n
                   ELSE {k} \cup (IF to(k) = Nil \/ to(k) \notin memory THEN {} ELSE to(k) .. n)]
           Go(f, k) == {k} \cup (IF to(k) = Nil \/ to(k) \notin memory THEN {} ELSE f[to(k)])
<1>1. n \in Nat /\ M \in Nat /\ n \in 1 .. M /\ memory = 1 .. n /\ Nil \notin Nat
  BY DEF SlabAssumption, SlabsLinked
<1>2. \A k \in 1 .. n : to(k) = IF k = n THEN Nil ELSE k + 1
  BY DEF SlabsLinked, To
<1> HIDE DEF M, to
<1>3. ASSUME NEW k \in 1 .. M PROVE w[k] = Go(w, k)
  <2>1. CASE k = n
    BY <1>1, <1>2, <2>1
  <2>2. CASE k < n
    <3>1. to(k) = k + 1 /\ k + 1 \in 1 .. n /\ k + 1 # Nil /\ k + 1 \in 1 .. M
      BY <1>1, <1>2, <2>2
    <3>2. Go(w, k) = {k} \cup ((k + 1) .. n)
      BY <1>1, <3>1
    <3>3. w[k] = k .. n
      BY <1>1, <2>2
    <3>4. {k} \cup ((k + 1) .. n) = k .. n
      BY <1>1, <2>2
    <3>5. QED BY <3>2, <3>3, <3>4
  <2>3. CASE k > n
    <3>1. CASE to(k) = Nil \/ to(k) \notin memory
      BY <1>1, <2>3, <3>1
    <3>2. CASE to(k) # Nil /\ to(k) \in 1 .. n
      BY <1>1, <2>3, <3>2
    <3>3. QED BY <1>1, <3>1, <3>2
  <2>4. k = n \/ k < n \/ k > n
    BY <1>1
  <2>5. QED BY <2>1, <2>2, <2>3, <2>4
<1>4. w = [k \in 1 .. M |-> Go(w, k)]
  BY <1>3
<1>5. Reach = CHOOSE f : f = [k \in 1 .. M |-> Go(f, k)]
  BY DEF Reach, M, to
<1> HIDE DEF w
<1>6. Reach = [k \in 1 .. M |-> Go(Reach, k)]
  BY <1>4, <1>5
<1>7. \A k \in 1 .. n : Reach[k] = {k} \cup (IF k = n THEN {} ELSE Reach[k + 1])
  <2>1. SUFFICES ASSUME NEW k \in 1 .. n
                 PROVE  Reach[k] = {k} \cup (IF k = n THEN {} ELSE Reach[k + 1])
    OBVIOUS
  <2>2. Reach[k] = Go(Reach, k)
    BY <1>1, <1>6
  <2>3. CASE k = n
    BY <1>2, <2>2, <2>3
  <2>4. CASE k # n
    <3>1. to(k) = k + 1 /\ k + 1 \in 1 .. n /\ k + 1 # Nil
      BY <1>1, <1>2, <2>4
    <3>2. QED BY <1>1, <2>2, <2>4, <3>1
  <2>5. QED BY <2>3, <2>4
<1>8. \A i \in 0 .. n - 1 : (n - i) .. n \subseteq Reach[n - i]
  <2> DEFINE T == {i \in 0 .. n - 1 : ~ ((n - i) .. n \subseteq Reach[n - i])}
  <2>1. SUFFICES ASSUME T # {} PROVE FALSE
    OBVIOUS
  <2>2. PICK i \in T : \A j \in T : i <= j
    <3>1. T \subseteq Nat
      BY <1>1
    <3>2. QED BY <2>1, <3>1, LeastNumber
  <2>3. i \in 0 .. n - 1 /\ ~ ((n - i) .. n \subseteq Reach[n - i]) /\ n - i \in 1 .. n
    BY <1>1, <2>2
  <2>4. CASE i = 0
    <3>1. n - i = n /\ n .. n = {n}
      BY <1>1, <2>4
    <3>2. QED BY <1>7, <2>3, <3>1
  <2>5. CASE i # 0
    <3>1. i - 1 \in 0 .. n - 1 /\ ~ (i <= i - 1) /\ n - (i - 1) = (n - i) + 1 /\ n - i # n
      BY <1>1, <2>3, <2>5
    <3>2. (n - (i - 1)) .. n \subseteq Reach[n - (i - 1)]
      BY <2>2, <3>1
    <3>3. (n - i) .. n = {n - i} \cup (((n - i) + 1) .. n)
      BY <1>1, <2>3
    <3>4. QED BY <1>7, <2>3, <3>1, <3>2, <3>3
  <2>6. QED BY <2>4, <2>5
<1>9. QED
  <2>1. n - 1 \in 0 .. n - 1 /\ n - (n - 1) = 1
    BY <1>1
  <2>2. QED BY <1>8, <2>1

LEMMA SlabInvariance ==
  ASSUME SlabAssumption
  PROVE  SlabSpec => []SlabsInv
<1>1. SlabInit => SlabsInv
  BY SlabsStart
<1>2. SlabsInv /\ [SlabNext]_slabVars => SlabsInv'
  <2>1. SUFFICES ASSUME SlabsInv, [SlabNext]_slabVars PROVE SlabsInv'
    OBVIOUS
  <2>2. CASE Destroyed
    <3>1. ~AllocFree /\ ~AllocEnd /\ ~AllocSlab /\ ~Destroy /\ ~(\E p \in DOMAIN next : SlabFree(p))
      BY <2>2 DEF Destroyed, AllocFree, AllocEnd, AllocSlab, Destroy
    <3>2. UNCHANGED slabVars
      BY <2>1, <3>1 DEF SlabNext
    <3>3. QED BY <2>2, <3>2 DEF SlabsInv, Destroyed, slabVars
  <2>3. CASE \E n \in 1 .. MaxSlabs + 1 : Alive(n)
    <3>1. PICK n \in 1 .. MaxSlabs + 1 : Alive(n)
      BY <2>3
    <3>2. CASE AllocFree
      BY <3>1, <3>2, AllocFreeInv DEF SlabsInv
    <3>3. CASE AllocEnd
      BY <3>1, <3>3, AllocEndInv DEF SlabsInv
    <3>4. CASE AllocSlab
      BY <3>1, <3>4, AllocSlabInv DEF SlabsInv
    <3>5. CASE \E p \in DOMAIN next : SlabFree(p)
      BY <3>1, <3>5, SlabFreeInv DEF SlabsInv
    <3>6. CASE Destroy
      <4>1. memory = 1 .. n /\ 1 .. n \subseteq Reach[1]
        BY <3>1, AllReached DEF Alive, SlabsLinked
      <4>2. QED BY <3>6, <4>1 DEF Destroy, SlabsInv, Destroyed
    <3>7. CASE UNCHANGED slabVars
      BY <3>1, <3>7
         DEF slabVars, SlabsInv, Alive, SlabsLinked, EndInv, FreeInv, UsersInv, Unused, Tag, To
    <3>8. QED BY <2>1, <3>2, <3>3, <3>4, <3>5, <3>6, <3>7 DEF SlabNext
  <2>4. QED BY <2>1, <2>2, <2>3 DEF SlabsInv
<1>3. QED BY <1>1, <1>2, PTL DEF SlabSpec

\* An object is in the hands of one caller at a time and its id stays in it;
\* destroying the allocator reaches every slab, whatever was allocated and
\* freed before, also twice.
THEOREM SlabObjectsHaveOneHolder ==
  ASSUME SlabAssumption
  PROVE  SlabSpec => []SlabsAreSound
<1>1. SlabsInv => SlabsAreSound
  <2>1. ASSUME Destroyed PROVE SlabsAreSound
    BY <2>1 DEF Destroyed, SlabsAreSound, OneHolder, DestroyFindsAll
  <2>2. ASSUME NEW n \in 1 .. MaxSlabs + 1, Alive(n) PROVE SlabsAreSound
    <3>1. n \in Nat /\ 1 \in 1 .. n
      BY DEF SlabAssumption
    <3>2. OneHolder
      BY <2>2 DEF Alive, UsersInv, SlabsLinked, OneHolder, Tag, Id
    <3>3. LastOf(1) \in DOMAIN next
      BY <2>2, <3>1, InsideIs DEF Alive, SlabsLinked
    <3>4. next # <<>>
      BY <3>3
    <3>5. QED BY <3>2, <3>4 DEF SlabsAreSound, DestroyFindsAll
  <2>3. QED BY <2>1, <2>2 DEF SlabsInv
<1>2. QED BY <1>1, SlabInvariance, PTL

-----------------------------------------------------------------------------

(* Temp ********************************************************************)
\* The pieces of a node lie behind its header, one behind the other, those of
\* the newest node before the place of the next one.
PieceInv(p) ==
  /\ p.node \in 0 .. Len(nodes) /\ p.from \in Nat /\ p.to \in Nat /\ p.bytes \in Nat
  /\ p.from >= HeaderOf(p.node)
  /\ p.node = Len(nodes) => p.to <= place
  /\ p.small => p.to <= p.bytes
Apart(p, q) == (q # p /\ q.node = p.node) => q.to <= p.from \/ p.to <= q.from
PiecesInv ==
  /\ nodes \in Seq(Nat) /\ filled = place /\ place \in Nat /\ place >= HeaderOf(Len(nodes)) /\ cap \in Nat
  /\ \A p \in taken : PieceInv(p) /\ \A q \in taken : Apart(p, q)
-----------------------------------------------------------------------------
\* A node holds what is asked for with its header, unless that is more than a
\* chunk.
LEMMA NodeHolds ==
  ASSUME NEW size \in PieceSizes
  PROVE  /\ NodeSize(size) \in Nat
         /\ size + NodeHeader <= Chunk => size + NodeHeader <= NodeSize(size)
<1> DEFINE n == size + NodeHeader
           powers == {2 ^ k : k \in 0 .. MaxPower}
           enough == {p \in powers : p >= n}
           p == CHOOSE p \in enough : \A q \in enough : p <= q
<1>1. n \in Nat /\ Chunk \in Nat /\ powers \subseteq Nat
  BY TempAssumption
<1>2. enough \subseteq Nat /\ \A q \in enough : q >= n
  BY <1>1
<1>3. enough # {}
  <2>1. PICK k \in 0 .. MaxPower : n <= 2 ^ k
    BY TempAssumption
  <2>2. 2 ^ k \in powers /\ 2 ^ k \in Nat
    BY <1>1
  <2> HIDE DEF powers
  <2>3. 2 ^ k >= n
    BY <1>1, <2>1, <2>2
  <2>4. QED BY <2>2, <2>3
<1>4. NodeSize(size) = Lesser(Chunk, p)
  BY DEF NodeSize, NextPowerOf2
<1> HIDE DEF n, enough
<1>5. \E m \in enough : \A q \in enough : m <= q
  BY <1>2, <1>3, LeastNumber
<1>6. p \in enough
  BY <1>5
<1> HIDE DEF p
<1>7. p \in Nat /\ p >= n
  BY <1>2, <1>6
<1>8. QED BY <1>1, <1>4, <1>7 DEF Lesser, n

LEMMA TempStarts == TempInit => PiecesInv
  BY TempAssumption DEF TempInit, PiecesInv, HeaderOf

\* A piece that is given out at the place of the newest node.
LEMMA PieceKeeps ==
  ASSUME PiecesInv, NEW size \in PieceSizes, NEW at \in Nat, NEW node \in Nat, NEW bytes \in Nat,
         node = Len(nodes'), nodes' \in Seq(Nat), at >= HeaderOf(node), filled' = at + size, cap' \in Nat,
         \/ node = Len(nodes) /\ at = place
         \/ node = Len(nodes) + 1,
         size + NodeHeader <= Chunk => at + size <= bytes,
         GiveOut(node, at, size, bytes)
  PROVE  PiecesInv'
<1> DEFINE piece == [node |-> node, from |-> at, to |-> at + size,
                     bytes |-> bytes, small |-> size + NodeHeader <= Chunk]
<1>1. /\ size \in Nat /\ NodeHeader \in Nat /\ Chunk \in Nat /\ Len(nodes) \in Nat /\ nodes \in Seq(Nat)
      /\ place \in Nat
  BY TempAssumption DEF PiecesInv
<1>2. taken' = taken \cup {piece} /\ place' = at + size
  BY DEF GiveOut
<1>3. /\ piece.node = node /\ piece.from = at /\ piece.to = at + size /\ piece.bytes = bytes
      /\ piece.small = (size + NodeHeader <= Chunk)
  OBVIOUS
<1> HIDE DEF piece
<1>4. ASSUME NEW p, p = piece PROVE PieceInv(p)'
  <2>1. p.small <=> size + NodeHeader <= Chunk
    BY <1>3, <1>4, Zenon
  <2>2. p.small => p.to <= p.bytes
    BY <1>3, <1>4, <2>1
  <2>3. /\ p.node \in 0 .. Len(nodes') /\ p.from \in Nat /\ p.to \in Nat /\ p.bytes \in Nat
        /\ p.from >= HeaderOf(p.node) /\ p.to <= place'
    BY <1>1, <1>2, <1>3, <1>4
  <2>4. QED BY <2>2, <2>3 DEF PieceInv
<1>5. ASSUME NEW p \in taken PROVE PieceInv(p)' /\ Apart(p, piece) /\ Apart(piece, p)
  <2>1. PieceInv(p)
    BY DEF PiecesInv
  <2>2. CASE node = Len(nodes) /\ at = place
    BY <1>1, <1>2, <1>3, <2>1, <2>2 DEF PieceInv, Apart
  <2>3. CASE node = Len(nodes) + 1
    BY <1>1, <1>2, <1>3, <2>1, <2>3 DEF PieceInv, Apart
  <2>4. QED BY <2>2, <2>3
<1>6. Apart(piece, piece)
  BY DEF Apart
<1>7. \A p, q \in taken : Apart(p, q)
  BY DEF PiecesInv
<1>8. \A p \in taken' : PieceInv(p)' /\ \A q \in taken' : Apart(p, q)
  BY <1>2, <1>4, <1>5, <1>6, <1>7
<1>9. \A p, q : Apart(p, q)' = Apart(p, q)
  BY DEF Apart
<1>10. place' \in Nat /\ \A n : n = node => place' >= HeaderOf(n)
  <2>1. HeaderOf(node) \in Nat
    BY TempAssumption DEF HeaderOf
  <2>2. at + size >= HeaderOf(node) /\ at + size \in Nat
    BY <1>1, <2>1
  <2>3. QED BY <1>2, <2>2
<1>11. QED BY <1>1, <1>2, <1>8, <1>9, <1>10 DEF PiecesInv, HeaderOf

LEMMA TempInvariance == TempSpec => []PiecesInv
<1>1. TempInit => PiecesInv
  BY TempStarts
<1>2. PiecesInv /\ [TempNext]_tempVars => PiecesInv'
  <2>1. SUFFICES ASSUME PiecesInv, [TempNext]_tempVars PROVE PiecesInv'
    OBVIOUS
  <2>2. /\ nodes \in Seq(Nat) /\ Len(nodes) \in Nat /\ filled = place /\ place \in Nat /\ place >= HeaderOf(Len(nodes))
        /\ cap \in Nat /\ NodeHeader \in Nat /\ PieceSizes \subseteq Nat
    BY <2>1, TempAssumption DEF PiecesInv
  <2>3. ASSUME NEW size \in PieceSizes, AllocHere(size) PROVE PiecesInv'
    <3>1. /\ place + size <= cap /\ filled' = place + size /\ GiveOut(Len(nodes), place, size, cap)
          /\ nodes' = nodes /\ cap' = cap
      BY <2>2, <2>3 DEF AllocHere
    <3>2. QED BY <2>1, <2>2, <3>1, PieceKeeps
  <2>4. ASSUME NEW size \in PieceSizes, AllocNode(size) PROVE PiecesInv'
    <3>1. NodeSize(size) \in Nat /\ (size + NodeHeader <= Chunk => size + NodeHeader <= NodeSize(size))
      BY NodeHolds
    <3>2. /\ nodes' = Append(nodes, NodeSize(size)) /\ filled' = NodeHeader + size /\ cap' = NodeSize(size)
          /\ GiveOut(Len(nodes'), NodeHeader, size, NodeSize(size))
      BY <2>4 DEF AllocNode
    <3>3. nodes' \in Seq(Nat) /\ Len(nodes') = Len(nodes) + 1
      BY <2>2, <3>1, <3>2
    <3>4. size + NodeHeader = NodeHeader + size
      BY <2>2
    <3> DEFINE node == Len(nodes')
    <3>5. node \in Nat /\ node = Len(nodes) + 1 /\ NodeHeader >= HeaderOf(node)
      BY <2>2, <3>3 DEF HeaderOf
    <3>6. QED BY <2>1, <2>2, <3>1, <3>2, <3>3, <3>4, <3>5, PieceKeeps
  <2>5. CASE UNCHANGED tempVars
    BY <2>1, <2>5 DEF tempVars, PiecesInv, PieceInv, Apart
  <2>6. QED BY <2>1, <2>3, <2>4, <2>5 DEF TempNext
<1>3. QED BY <1>1, <1>2, PTL DEF TempSpec

\* temp_realloc, for every size of the buffer, of a chunk and of the requests:
\* pieces that a node can hold lie in their node and no two share a byte.
THEOREM PiecesDoNotOverlap == TempSpec => []PiecesFit
<1>1. PiecesInv => PiecesFit
  BY DEF PiecesInv, PieceInv, Apart, PiecesFit
<1>2. QED BY <1>1, TempInvariance, PTL

(* Arena *******************************************************************)
\* The slabs that were handed out of an arena of which m were asked for.
Whole == ArenaCap \div SlabSize
HandedOut(m) == {k * SlabSize : k \in {k \in Nat : k < m /\ k < Whole}}
Held == UNION {has[t] : t \in ArenaThreads}

ArenaInv ==
  /\ freed \in Seq(Nat) /\ has \in [ArenaThreads -> SUBSET Nat]
  /\ \A i, j \in 1 .. Len(freed) : freed[i] = freed[j] => i = j
  /\ \A t, u \in ArenaThreads : t # u => has[t] \cap has[u] = {}
  /\ \A t \in ArenaThreads : has[t] \cap ToSet(freed) = {}
  /\ \E m \in Nat : reached = m * SlabSize /\ ToSet(freed) \cup Held = HandedOut(m)
-----------------------------------------------------------------------------
\* The slabs are as many as the arena has room for, and each is apart.
LEMMA ArenaSlabs ==
  /\ Whole \in Nat /\ SlabSize \in Nat /\ SlabSize > 0
  /\ \A m \in Nat : m * SlabSize \in Nat /\ m * SlabSize + SlabSize = (m + 1) * SlabSize
  /\ \A m \in Nat : Fits(m * SlabSize) <=> m < Whole
  /\ \A m, k \in Nat : m * SlabSize = k * SlabSize => m = k
<1>1. ArenaCap \in Nat /\ SlabSize \in Nat \ {0}
  BY ArenaAssumption
<1> DEFINE S == SlabSize  W == Whole  r == ArenaCap % SlabSize
<1>2. S \in Nat /\ S > 0 /\ W \in Int /\ r \in 0 .. S - 1 /\ ArenaCap = S * W + r
  BY <1>1, Remainder DEF Whole
<1>3. \A m \in Nat : Fits(m * S) <=> m * S + S <= ArenaCap
  BY DEF Fits
<1> HIDE DEF S, W, r
<1>4. W \in Nat
  <2>1. CASE W <= -1
    <3>1. S * W <= -S
      BY <1>2, <2>1, Z3
    <3>2. QED BY <1>1, <1>2, <3>1
  <2>2. QED BY <1>2, <2>1
<1>5. \A m \in Nat : m * S \in Nat /\ m * S + S = (m + 1) * S
  BY <1>2, Z3
<1>6. \A m \in Nat : m * S + S <= ArenaCap <=> m < W
  <2>1. TAKE m \in Nat
  <2>2. m * S \in Nat /\ m * S + S = (m + 1) * S /\ S * W \in Nat
    BY <1>2, <1>4, <1>5, Z3
  <2>3. CASE m < W
    <3>1. (W - (m + 1)) * S >= 0
      BY <1>2, <1>4, <2>3, Z3
    <3>2. (m + 1) * S <= S * W
      BY <1>2, <1>4, <2>1, <3>1, Z3
    <3>3. QED BY <1>1, <1>2, <2>2, <2>3, <3>2
  <2>4. CASE m >= W
    <3>1. (m - W) * S >= 0
      BY <1>2, <1>4, <2>4, Z3
    <3>2. m * S >= S * W
      BY <1>2, <1>4, <2>1, <3>1, Z3
    <3>3. QED BY <1>1, <1>2, <1>4, <2>2, <2>4, <3>2
  <2>5. QED BY <1>4, <2>1, <2>3, <2>4
<1>7. \A m, k \in Nat : m * S = k * S => m = k
  <2>1. TAKE m, k \in Nat
  <2>2. m > k => (m - k) * S > 0
    BY <1>2, Z3
  <2>3. k > m => (k - m) * S > 0
    BY <1>2, Z3
  <2>4. (m - k) * S = m * S - k * S /\ (k - m) * S = k * S - m * S
    BY <1>2, Z3
  <2>5. m * S \in Nat /\ k * S \in Nat
    BY <1>5
  <2>6. QED BY <2>2, <2>3, <2>4, <2>5
<1>8. QED BY <1>2, <1>3, <1>4, <1>5, <1>6, <1>7 DEF S, W

LEMMA ToSetIs ==
  ASSUME NEW s \in Seq(Nat)
  PROVE  ToSet(s) = {s[i] : i \in 1 .. Len(s)}
<1>1. DOMAIN s = 1 .. Len(s)
  OBVIOUS
<1>2. QED BY <1>1, Zenon DEF ToSet

LEMMA ArenaStarts == ArenaInit => ArenaInv
<1>1. SUFFICES ASSUME ArenaInit PROVE ArenaInv
  OBVIOUS
<1>2. freed = <<>> /\ has = [t \in ArenaThreads |-> {}] /\ reached = 0
  BY <1>1 DEF ArenaInit
<1>3. ToSet(freed) = {} /\ Held = {} /\ HandedOut(0) = {}
  BY <1>2 DEF ToSet, Held, HandedOut
<1>4. 0 \in Nat /\ reached = 0 * SlabSize
  BY <1>2, ArenaSlabs
<1>5. \E m \in Nat : reached = m * SlabSize /\ ToSet(freed) \cup Held = HandedOut(m)
  BY <1>3, <1>4
<1>6. freed \in Seq(Nat) /\ Len(freed) = 0
  BY <1>2
<1>7. /\ has \in [ArenaThreads -> SUBSET Nat]
      /\ \A t \in ArenaThreads : has[t] = {}
  BY <1>2
<1>8. QED
  BY <1>5, <1>6, <1>7 DEF ArenaInv

\* A slab leaves the list for one thread.
LEMMA ArenaPopKeeps ==
  ASSUME ArenaInv, NEW t \in ArenaThreads, ArenaPop(t)
  PROVE  ArenaInv'
<1>1. /\ freed \in Seq(Nat) /\ has \in [ArenaThreads -> SUBSET Nat] /\ Len(freed) \in Nat
      /\ \A i, j \in 1 .. Len(freed) : freed[i] = freed[j] => i = j
      /\ \A u, v \in ArenaThreads : u # v => has[u] \cap has[v] = {}
      /\ \A u \in ArenaThreads : has[u] \cap ToSet(freed) = {}
  BY DEF ArenaInv
<1>2. PICK m \in Nat : reached = m * SlabSize /\ ToSet(freed) \cup Held = HandedOut(m)
  BY DEF ArenaInv
<1>3. CASE freed = <<>>
  BY <1>3 DEF ArenaPop, ArenaInv, Held
<1>4. CASE freed # <<>>
  <2> DEFINE h == Head(freed)  f == Tail(freed)
  <2>1. freed' = f /\ has' = [has EXCEPT ![t] = @ \cup {h}] /\ reached' = reached
    BY <1>4 DEF ArenaPop
  <2>2. /\ f \in Seq(Nat) /\ Len(f) = Len(freed) - 1 /\ Len(freed) > 0
        /\ \A i \in 1 .. Len(f) : f[i] = freed[i + 1]
        /\ h = freed[1] /\ h \in Nat
    BY <1>1, <1>4
  <2> HIDE DEF h, f
  <2>3. \A i, j \in 1 .. Len(f) : f[i] = f[j] => i = j
    <3>1. TAKE i, j \in 1 .. Len(f)
    <3>2. i + 1 \in 1 .. Len(freed) /\ j + 1 \in 1 .. Len(freed) /\ (i + 1 = j + 1 => i = j)
      BY <1>1, <2>2
    <3>3. QED BY <1>1, <2>2, <3>2
  <2>4. ToSet(freed) = ToSet(f) \cup {h} /\ h \notin ToSet(f)
    <3>1. ToSet(freed) = {freed[i] : i \in 1 .. Len(freed)} /\ ToSet(f) = {f[i] : i \in 1 .. Len(f)}
      BY <1>1, <2>2, ToSetIs
    <3>2. \A i \in 1 .. Len(f) : i + 1 \in 1 .. Len(freed) /\ i + 1 # 1
      BY <1>1, <2>2
    <3>3. \A i \in 1 .. Len(freed) : i = 1 \/ (i - 1 \in 1 .. Len(f) /\ (i - 1) + 1 = i)
      BY <1>1, <2>2
    <3>4. 1 \in 1 .. Len(freed)
      BY <1>1, <2>2
    <3>5. \A x \in ToSet(f) : x \in ToSet(freed) /\ x # h
      <4>1. TAKE x \in ToSet(f)
      <4>2. PICK i \in 1 .. Len(f) : x = f[i]
        BY <3>1
      <4>3. x = freed[i + 1] /\ i + 1 \in 1 .. Len(freed) /\ i + 1 # 1
        BY <2>2, <3>2, <4>2
      <4>4. x # freed[1]
        BY <1>1, <3>4, <4>3
      <4>5. QED BY <2>2, <3>1, <4>3, <4>4
    <3>6. \A x \in ToSet(freed) : x \in ToSet(f) \/ x = h
      <4>1. TAKE x \in ToSet(freed)
      <4>2. PICK i \in 1 .. Len(freed) : x = freed[i]
        BY <3>1
      <4>3. CASE i = 1
        BY <2>2, <4>2, <4>3
      <4>4. CASE i # 1
        <5>1. i - 1 \in 1 .. Len(f) /\ f[i - 1] = freed[i]
          BY <2>2, <3>3, <4>4
        <5>2. QED BY <3>1, <4>2, <5>1
      <4>5. QED BY <4>3, <4>4
    <3>7. h \in ToSet(freed)
      BY <2>2, <3>1, <3>4
    <3>8. QED BY <3>5, <3>6, <3>7
  <2>5. /\ has' \in [ArenaThreads -> SUBSET Nat] /\ has'[t] = has[t] \cup {h}
        /\ \A u \in ArenaThreads \ {t} : has'[u] = has[u]
    BY <1>1, <2>1, <2>2
  <2>6. /\ \A u, v \in ArenaThreads : u # v => has'[u] \cap has'[v] = {}
        /\ \A u \in ArenaThreads : has'[u] \cap ToSet(f) = {}
    BY <1>1, <2>4, <2>5
  <2>7. ToSet(f) \cup Held' = HandedOut(m)
    <3>1. Held' = Held \cup {h}
      BY <2>5 DEF Held
    <3>2. QED BY <1>2, <2>4, <3>1
  <2>8. QED BY <1>2, <2>1, <2>2, <2>3, <2>5, <2>6, <2>7 DEF ArenaInv, HandedOut
<1>5. QED BY <1>3, <1>4

\* The next slab of the end is one that nobody has had.
LEMMA ArenaAddKeeps ==
  ASSUME ArenaInv, NEW t \in ArenaThreads, ArenaAdd(t)
  PROVE  ArenaInv'
<1>1. /\ freed \in Seq(Nat) /\ has \in [ArenaThreads -> SUBSET Nat] /\ Len(freed) \in Nat
      /\ \A i, j \in 1 .. Len(freed) : freed[i] = freed[j] => i = j
      /\ \A u, v \in ArenaThreads : u # v => has[u] \cap has[v] = {}
      /\ \A u \in ArenaThreads : has[u] \cap ToSet(freed) = {}
  BY DEF ArenaInv
<1>2. PICK m \in Nat : reached = m * SlabSize /\ ToSet(freed) \cup Held = HandedOut(m)
  BY DEF ArenaInv
<1>3. /\ reached' = reached + SlabSize /\ freed' = freed
      /\ has' = IF Fits(reached) THEN [has EXCEPT ![t] = @ \cup {reached}] ELSE has
  BY DEF ArenaAdd
<1>4. reached \in Nat /\ m + 1 \in Nat /\ reached' = (m + 1) * SlabSize /\ Whole \in Nat
  BY <1>2, <1>3, ArenaSlabs
<1>5. Fits(reached) <=> m < Whole
  BY <1>2, ArenaSlabs
<1>6. CASE ~ Fits(reached)
  <2>1. {k \in Nat : k < m + 1 /\ k < Whole} = {k \in Nat : k < m /\ k < Whole}
    BY <1>4, <1>5, <1>6
  <2>2. HandedOut(m + 1) = HandedOut(m)
    BY <2>1 DEF HandedOut
  <2>3. Held' = Held
    BY <1>3, <1>6 DEF Held
  <2>4. QED BY <1>1, <1>2, <1>3, <1>4, <1>6, <2>2, <2>3 DEF ArenaInv, HandedOut
<1>7. CASE Fits(reached)
  <2>1. /\ has' \in [ArenaThreads -> SUBSET Nat] /\ has'[t] = has[t] \cup {reached}
        /\ \A u \in ArenaThreads \ {t} : has'[u] = has[u]
    BY <1>1, <1>3, <1>4, <1>7
  <2>2. reached \notin HandedOut(m)
    <3>1. ASSUME NEW k \in Nat, k < m, k * SlabSize = reached PROVE FALSE
      BY <1>2, <3>1, ArenaSlabs
    <3>2. QED BY <3>1 DEF HandedOut
  <2>3. reached \notin ToSet(freed) /\ \A u \in ArenaThreads : reached \notin has[u]
    BY <1>2, <2>2 DEF Held
  <2>4. {k \in Nat : k < m + 1 /\ k < Whole} = {k \in Nat : k < m /\ k < Whole} \cup {m}
    BY <1>4, <1>5, <1>7
  <2>5. HandedOut(m + 1) = HandedOut(m) \cup {reached}
    BY <1>2, <2>4 DEF HandedOut
  <2>6. Held' = Held \cup {reached}
    BY <2>1 DEF Held
  <2>7. ToSet(freed) \cup Held' = HandedOut(m + 1)
    BY <1>2, <2>5, <2>6
  <2>8. /\ \A u, v \in ArenaThreads : u # v => has'[u] \cap has'[v] = {}
        /\ \A u \in ArenaThreads : has'[u] \cap ToSet(freed) = {}
    BY <1>1, <2>1, <2>3
  <2>9. QED BY <1>1, <1>3, <1>4, <2>1, <2>7, <2>8 DEF ArenaInv, HandedOut
<1>8. QED BY <1>6, <1>7

\* A slab goes back from the thread that has it.
LEMMA ArenaFreeKeeps ==
  ASSUME ArenaInv, NEW t \in ArenaThreads, NEW slab \in has[t], ArenaFree(t, slab)
  PROVE  ArenaInv'
<1>1. /\ freed \in Seq(Nat) /\ has \in [ArenaThreads -> SUBSET Nat] /\ Len(freed) \in Nat
      /\ \A i, j \in 1 .. Len(freed) : freed[i] = freed[j] => i = j
      /\ \A u, v \in ArenaThreads : u # v => has[u] \cap has[v] = {}
      /\ \A u \in ArenaThreads : has[u] \cap ToSet(freed) = {}
  BY DEF ArenaInv
<1>2. PICK m \in Nat : reached = m * SlabSize /\ ToSet(freed) \cup Held = HandedOut(m)
  BY DEF ArenaInv
<1> DEFINE f == <<slab>> \o freed
<1>3. freed' = f /\ has' = [has EXCEPT ![t] = @ \ {slab}] /\ reached' = reached
  BY DEF ArenaFree
<1>4. slab \in Nat /\ slab \notin ToSet(freed)
  BY <1>1
<1>5. /\ f \in Seq(Nat) /\ Len(f) = Len(freed) + 1 /\ f[1] = slab
      /\ \A i \in 2 .. Len(f) : f[i] = freed[i - 1] /\ i - 1 \in 1 .. Len(freed)
      /\ \A i \in 1 .. Len(freed) : f[i + 1] = freed[i] /\ i + 1 \in 1 .. Len(f)
  BY <1>1, <1>4
<1> HIDE DEF f
<1>6. ToSet(freed) = {freed[i] : i \in 1 .. Len(freed)} /\ ToSet(f) = {f[i] : i \in 1 .. Len(f)}
  BY <1>1, <1>5, ToSetIs
<1>7. \A i \in 1 .. Len(f) : i = 1 \/ i \in 2 .. Len(f)
  BY <1>1, <1>5
<1>8. \A i, j \in 1 .. Len(f) : f[i] = f[j] => i = j
  <2>1. TAKE i, j \in 1 .. Len(f)
  <2>2. \A k \in 2 .. Len(f) : f[k] # f[1]
    BY <1>4, <1>5, <1>6
  <2>3. CASE i = 1 \/ j = 1
    BY <1>7, <2>2, <2>3
  <2>4. CASE i \in 2 .. Len(f) /\ j \in 2 .. Len(f)
    <3>1. f[i] = freed[i - 1] /\ f[j] = freed[j - 1] /\ i - 1 \in 1 .. Len(freed) /\ j - 1 \in 1 .. Len(freed)
      BY <1>5, <2>4
    <3>2. f[i] = f[j] => i - 1 = j - 1
      BY <1>1, <3>1
    <3>3. QED BY <2>4, <3>2
  <2>5. QED BY <1>7, <2>3, <2>4
<1>9. ToSet(f) = ToSet(freed) \cup {slab}
  <2>1. 1 \in 1 .. Len(f)
    BY <1>1, <1>5
  <2>2. slab \in ToSet(f)
    BY <1>5, <1>6, <2>1
  <2>3. \A x \in ToSet(freed) : x \in ToSet(f)
    BY <1>5, <1>6
  <2>4. \A x \in ToSet(f) : x = slab \/ x \in ToSet(freed)
    BY <1>5, <1>6, <1>7
  <2>5. QED BY <2>2, <2>3, <2>4
<1>10. /\ has' \in [ArenaThreads -> SUBSET Nat] /\ has'[t] = has[t] \ {slab}
       /\ \A u \in ArenaThreads \ {t} : has'[u] = has[u] /\ slab \notin has[u]
  BY <1>1, <1>3
<1>11. /\ \A u, v \in ArenaThreads : u # v => has'[u] \cap has'[v] = {}
       /\ \A u \in ArenaThreads : has'[u] \cap ToSet(f) = {}
  BY <1>1, <1>9, <1>10
<1>12. ToSet(f) \cup Held' = HandedOut(m)
  <2>1. Held = Held' \cup {slab}
    BY <1>10 DEF Held
  <2>2. QED BY <1>2, <1>9, <2>1
<1>13. QED BY <1>2, <1>3, <1>5, <1>8, <1>10, <1>11, <1>12 DEF ArenaInv, HandedOut

LEMMA ArenaInvariance == ArenaSpec => []ArenaInv
<1>1. ArenaInit => ArenaInv
  BY ArenaStarts
<1>2. ArenaInv /\ [ArenaNext]_arenaVars => ArenaInv'
  <2>1. SUFFICES ASSUME ArenaInv, [ArenaNext]_arenaVars PROVE ArenaInv'
    OBVIOUS
  <2>2. CASE UNCHANGED arenaVars
    BY <2>1, <2>2 DEF arenaVars, ArenaInv, Held, HandedOut
  <2>3. ASSUME NEW t \in ArenaThreads, ArenaPop(t) PROVE ArenaInv'
    BY <2>1, <2>3, ArenaPopKeeps
  <2>4. ASSUME NEW t \in ArenaThreads, ArenaAdd(t) PROVE ArenaInv'
    BY <2>1, <2>4, ArenaAddKeeps
  <2>5. ASSUME NEW t \in ArenaThreads, NEW slab \in has[t], ArenaFree(t, slab) PROVE ArenaInv'
    BY <2>1, <2>5, ArenaFreeKeeps
  <2>6. QED BY <2>1, <2>2, <2>3, <2>4, <2>5 DEF ArenaNext
<1>3. QED BY <1>1, <1>2, PTL DEF ArenaSpec

\* arena_alloc and arena_free, for every arena, size of its slabs and number of
\* threads: each slab that was handed out is in the list once or with one
\* thread, and none but those of the arena were.
THEOREM SlabsOfAnArenaAreApart == ArenaSpec => []EverySlabOnce
<1>1. ArenaInv => EverySlabOnce
  <2>1. SUFFICES ASSUME ArenaInv PROVE EverySlabOnce
    OBVIOUS
  <2>2. freed \in Seq(Nat) /\ Len(freed) \in Nat /\ \A i, j \in 1 .. Len(freed) : freed[i] = freed[j] => i = j
    BY <2>1 DEF ArenaInv
  <2>3. Len(freed) = Cardinality(ToSet(freed))
    <3>1. freed \in Bijection(1 .. Len(freed), ToSet(freed))
      <4>1. DOMAIN freed = 1 .. Len(freed) /\ ToSet(freed) = {freed[i] : i \in 1 .. Len(freed)}
        BY <2>2 DEF ToSet
      <4>2. freed \in [1 .. Len(freed) -> ToSet(freed)]
        BY <2>2, <4>1
      <4>3. QED BY <2>2, <4>1, <4>2 DEF Bijection, Injection, Surjection, IsInjective
    <3>2. ExistsBijection(1 .. Len(freed), ToSet(freed))
      BY <3>1 DEF ExistsBijection
    <3>3. QED BY <2>2, <3>2, FS_CountingElements
  <2>4. PICK m \in Nat : reached = m * SlabSize /\ ToSet(freed) \cup Held = HandedOut(m)
    BY <2>1 DEF ArenaInv
  <2>5. reached \div SlabSize = m
    <3> DEFINE d == reached \div SlabSize  r == reached % SlabSize
    <3>1. /\ SlabSize \in Nat \ {0} /\ reached \in Nat /\ Whole \in Nat
      BY <2>4, ArenaSlabs
    <3>2. d \in Int /\ r \in 0 .. SlabSize - 1 /\ reached = SlabSize * d + r
      BY <3>1, Remainder
    <3>3. 0 \in 0 .. SlabSize - 1 /\ reached = SlabSize * m + 0
      BY <2>4, <3>1, Z3
    <3> HIDE DEF d, r
    <3>4. \A a, b \in Int : \A v, w \in 0 .. SlabSize - 1 : SlabSize * a + v = SlabSize * b + w => a = b
      BY <3>1, RemainderUnique
    <3>5. d \in Int /\ m \in Int /\ r \in 0 .. SlabSize - 1 /\ 0 \in 0 .. SlabSize - 1 /\ SlabSize * d + r = SlabSize * m + 0
      BY <3>2, <3>3
    <3>6. d = m
      BY <3>4, <3>5, Zenon
    <3>7. QED BY <3>6 DEF d
  <2> DEFINE handed == IF reached \div SlabSize < Whole THEN reached \div SlabSize ELSE Whole
  <2>6. {k \in Nat : k < m /\ k < Whole} = 0 .. handed - 1
    BY <2>5, ArenaSlabs
  <2>7. HandedOut(m) = {k * SlabSize : k \in 0 .. handed - 1}
    BY <2>6 DEF HandedOut
  <2>8. QED BY <2>1, <2>3, <2>4, <2>7 DEF EverySlabOnce, ArenaInv, Held, Whole
<1>2. QED BY <1>1, ArenaInvariance, PTL

(* Resources ***************************************************************)
FreePlaces == used .. Elements - 1   \* the free part of the free list

\* The free part names every index once that no live id has.  A live id has
\* the generation of its index, a freed one an earlier one.
TableInv ==
  /\ entries \in [Indices -> Nat] /\ list \in [Indices -> Indices]
  /\ \A i, j \in FreePlaces : list[i] = list[j] => i = j
  /\ \A id \in live :
       /\ id = [index |-> id.index, gen |-> id.gen] /\ id.index \in Indices
       /\ id.gen = entries[id.index] % Width
       /\ \A i \in FreePlaces : list[i] # id.index
  /\ \A id \in stale : /\ id.index \in Indices /\ id.gen \in Nat
                       /\ id.gen < entries[id.index]

IdsInv ==
  /\ used \in 0 .. Elements
  /\ IsFiniteSet(live) /\ Cardinality(live) = used
  /\ \A a, b \in live : a.index = b.index => a = b
  /\ IF entries = <<>> THEN used = 0 /\ live = {} /\ stale = {} ELSE TableInv
-----------------------------------------------------------------------------
\* Cutting a counter to the width of an id makes it no larger, and leaves it
\* alone while it fits.
LEMMA Narrowed ==
  ASSUME ResourcesAssumption, NEW n \in Nat
  PROVE  /\ n % Width \in Nat /\ n % Width <= n
         /\ n < Width => n % Width = n
<1> USE DEF ResourcesAssumption
<1>1. n \div Width \in Int /\ n % Width \in 0 .. Width - 1 /\ n = Width * (n \div Width) + (n % Width)
  BY Z3
<1> DEFINE q == n \div Width  r == n % Width
<1> HIDE DEF q, r
<1>2. q \in Int /\ r \in 0 .. Width - 1 /\ n = Width * q + r
  BY <1>1 DEF q, r
<1>3. CASE q <= -1
  <2>1. Width * q <= -Width
    BY <1>2, <1>3, Z3
  <2>2. QED BY <1>2, <2>1
<1>4. CASE q >= 1
  <2>1. Width * q >= Width
    BY <1>2, <1>4, Z3
  <2>2. QED BY <1>2, <2>1 DEF r
<1>5. CASE q = 0
  BY <1>2, <1>5 DEF r
<1>6. QED BY <1>2, <1>3, <1>4, <1>5

LEMMA TableStarts == ASSUME ResourcesAssumption, TableInit PROVE IdsInv
  BY FS_EmptySet DEF TableInit, IdsInv, ResourcesAssumption

\* The chunk res_alloc starts with, or the one there is.
LEMMA ResAllocKeeps ==
  ASSUME ResourcesAssumption, IdsInv, ResAlloc
  PROVE  IdsInv'
<1> USE DEF ResourcesAssumption
<1> DEFINE first == entries = <<>>
           gens == IF first THEN [i \in Indices |-> 1] ELSE entries
           places == IF first THEN [i \in Indices |-> used + i] ELSE list
           new == places[used]
           id == IdOf(new, gens)
<1>1. /\ entries' = gens /\ list' = places /\ used' = used + 1
      /\ live' = live \cup {id} /\ stale' = stale
      /\ used # ResCap \/ first
  BY DEF ResAlloc
<1>2. /\ gens \in [Indices -> Nat] /\ places \in [Indices -> Indices]
      /\ used \in Indices /\ used \in Nat
      /\ \A i, j \in FreePlaces : places[i] = places[j] => i = j
      /\ \A d \in live : /\ d = [index |-> d.index, gen |-> d.gen] /\ d.index \in Indices
                         /\ d.gen = gens[d.index] % Width
                         /\ \A i \in FreePlaces : places[i] # d.index
      /\ \A d \in stale : d.index \in Indices /\ d.gen \in Nat /\ d.gen < gens[d.index]
  <2>1. CASE first
    <3>1. used = 0 /\ live = {} /\ stale = {}
      BY <2>1 DEF IdsInv
    <3>2. QED BY <2>1, <3>1 DEF Indices, FreePlaces
  <2>2. CASE ~first
    <3>1. TableInv /\ used \in 0 .. Elements /\ used # Elements
      BY <1>1, <2>2 DEF IdsInv, ResCap
    <3>2. QED BY <2>2, <3>1 DEF TableInv, Indices
  <2>3. QED BY <2>1, <2>2
<1> HIDE DEF gens, places, first
<1>3. new \in Indices /\ \A d \in live : d.index # new
  BY <1>2 DEF FreePlaces, Indices
<1>4. id = [index |-> new, gen |-> gens[new] % Width] /\ id.index = new /\ id \notin live
  BY <1>3 DEF IdOf
<1> HIDE DEF new, id
<1>5. entries' # <<>>
  BY <1>1, <1>2 DEF Indices
<1>6. used' \in 0 .. Elements /\ IsFiniteSet(live') /\ Cardinality(live') = used'
  <2>1. IsFiniteSet(live) /\ Cardinality(live) = used
    BY DEF IdsInv
  <2>2. IsFiniteSet(live \cup {id}) /\ Cardinality(live \cup {id}) = Cardinality(live) + 1
    BY <1>4, <2>1, FS_AddElement
  <2>3. used + 1 \in 0 .. Elements
    BY <1>2 DEF Indices
  <2>4. QED BY <1>1, <2>1, <2>2, <2>3
<1>7. \A a, b \in live' : a.index = b.index => a = b
  BY <1>1, <1>3, <1>4 DEF IdsInv
<1>8. FreePlaces' \subseteq FreePlaces /\ used \in FreePlaces /\ used \notin FreePlaces'
  BY <1>1, <1>2 DEF FreePlaces, Indices
<1>9. ASSUME NEW d \in live'
      PROVE  /\ d = [index |-> d.index, gen |-> d.gen] /\ d.index \in Indices
             /\ d.gen = gens[d.index] % Width
             /\ \A i \in FreePlaces' : places[i] # d.index
  <2>1. CASE d = id
    BY <1>2, <1>3, <1>4, <1>8, <2>1 DEF new
  <2>2. CASE d \in live
    BY <1>2, <1>8, <2>2
  <2>3. QED BY <1>1, <2>1, <2>2
<1>10. TableInv'
  BY <1>1, <1>2, <1>8, <1>9 DEF TableInv, Indices
<1>11. QED BY <1>5, <1>6, <1>7, <1>10 DEF IdsInv

LEMMA ResFreeKeeps ==
  ASSUME ResourcesAssumption, IdsInv, NEW id \in live, ResFree(id)
  PROVE  IdsInv'
<1> USE DEF ResourcesAssumption
<1>1. /\ entries' = [entries EXCEPT ![id.index] = @ + 1]
      /\ list' = [list EXCEPT ![used - 1] = id.index]
      /\ used' = used - 1 /\ live' = live \ {id} /\ stale' = stale \cup {id}
  BY DEF ResFree, Freed, Listed
<1>2. TableInv /\ entries # <<>>
  BY DEF IdsInv
<1>3. used \in 1 .. Elements /\ IsFiniteSet(live') /\ Cardinality(live') = used'
  <2>1. Cardinality(live) # 0
    BY FS_EmptySet DEF IdsInv
  <2>2. IsFiniteSet(live) /\ Cardinality(live) = used /\ used \in 0 .. Elements
    BY DEF IdsInv
  <2>3. IsFiniteSet(live \ {id}) /\ Cardinality(live \ {id}) = Cardinality(live) - 1
    BY <2>2, FS_RemoveElement
  <2>4. used \in 1 .. Elements
    BY <2>1, <2>2
  <2>5. QED BY <1>1, <2>2, <2>3, <2>4
<1>4. /\ id.index \in Indices /\ used - 1 \in Indices /\ entries[id.index] \in Nat
      /\ entries' \in [Indices -> Nat] /\ list' \in [Indices -> Indices] /\ entries' # <<>>
  BY <1>1, <1>2, <1>3 DEF TableInv, Indices
<1>5. FreePlaces' = FreePlaces \cup {used - 1} /\ used - 1 \notin FreePlaces
  BY <1>1, <1>3 DEF FreePlaces
<1>6. /\ list'[used - 1] = id.index
      /\ \A i \in FreePlaces : list'[i] = list[i] /\ list[i] # id.index
  BY <1>1, <1>2, <1>4, <1>5 DEF TableInv
<1>7. \A i, j \in FreePlaces' : list'[i] = list'[j] => i = j
  BY <1>2, <1>5, <1>6 DEF TableInv
<1>8. \A a, b \in live : a.index = b.index => a = b
  BY DEF IdsInv
<1>9. ASSUME NEW d \in live'
      PROVE  /\ d = [index |-> d.index, gen |-> d.gen] /\ d.index \in Indices
             /\ d.gen = entries'[d.index] % Width
             /\ \A i \in FreePlaces' : list'[i] # d.index
  <2>1. d \in live /\ d.index # id.index
    BY <1>1, <1>8
  <2>2. QED BY <1>1, <1>2, <1>5, <1>6, <2>1 DEF TableInv
<1>10. ASSUME NEW d \in stale'
       PROVE  d.index \in Indices /\ d.gen \in Nat /\ d.gen < entries'[d.index]
  <2>1. CASE d = id
    <3>1. d.gen = entries[d.index] % Width /\ entries'[d.index] = entries[d.index] + 1
      BY <1>1, <1>2, <1>4, <2>1 DEF TableInv
    <3>2. entries[d.index] % Width \in Nat /\ entries[d.index] % Width <= entries[d.index]
      BY <1>4, <2>1, Narrowed
    <3>3. QED BY <1>4, <2>1, <3>1, <3>2
  <2>2. CASE d \in stale
    <3>1. d.index \in Indices /\ d.gen \in Nat /\ d.gen < entries[d.index]
      BY <1>2, <2>2 DEF TableInv
    <3>2. entries'[d.index] \in {entries[d.index], entries[d.index] + 1} /\ entries[d.index] \in Nat
      BY <1>1, <1>2, <1>4, <3>1 DEF TableInv
    <3>3. QED BY <3>1, <3>2
  <2>3. QED BY <1>1, <2>1, <2>2
<1>11. TableInv'
  BY <1>4, <1>7, <1>9, <1>10 DEF TableInv, Indices
<1>12. QED BY <1>1, <1>3, <1>4, <1>8, <1>11 DEF IdsInv

LEMMA TableInvariance ==
  ASSUME ResourcesAssumption
  PROVE  TableSpec => []IdsInv
<1>1. TableInit => IdsInv
  BY TableStarts
<1>2. IdsInv /\ [TableNext]_tableVars => IdsInv'
  <2>1. SUFFICES ASSUME IdsInv, [TableNext]_tableVars PROVE IdsInv'
    OBVIOUS
  <2>2. CASE ResAlloc
    BY <2>1, <2>2, ResAllocKeeps
  <2>3. CASE \E id \in live : ResFree(id)
    BY <2>1, <2>3, ResFreeKeeps
  <2>4. CASE ResGrow \/ UNCHANGED tableVars
    BY <2>1, <2>4 DEF ResGrow, tableVars, IdsInv, TableInv, FreePlaces, Indices
  <2>5. QED BY <2>1, <2>2, <2>3, <2>4 DEF TableNext
<1>3. QED BY <1>1, <1>2, PTL DEF TableSpec

\* A freed id finds nothing, however often its index was used again and
\* whatever became of the counter; an id in use finds its own slot while the
\* counter fits; there are as many in use as are counted.
THEOREM TableIdsLeadToTheirs ==
  ASSUME ResourcesAssumption
  PROVE  TableSpec => []IdsLeadToTheirs
<1>1. IdsInv => IdsLeadToTheirs
  <2>1. SUFFICES ASSUME IdsInv PROVE StaleIsRefused /\ LiveIsFound
    BY DEF IdsLeadToTheirs
  <2>2. CASE entries = <<>>
    BY <2>1, <2>2 DEF IdsInv, StaleIsRefused, LiveIsFound
  <2>3. CASE entries # <<>>
    <3>1. TableInv /\ ResCap = Elements
      BY <2>1, <2>3 DEF IdsInv, ResCap
    <3>2. ASSUME NEW id \in stale PROVE ResGet(id) = {}
      <4>1. id.gen \in Nat /\ id.gen < entries[id.index] /\ entries[id.index] \in Nat
        BY <3>1 DEF TableInv
      <4>2. entries[id.index] # id.gen
        BY <4>1
      <4>3. QED BY <4>2 DEF ResGet
    <3>3. ASSUME NEW id \in live, entries[id.index] < Width PROVE ResGet(id) = {id.index}
      <4>1. id.index \in Indices /\ entries[id.index] \in Nat /\ id.gen = entries[id.index] % Width
        BY <3>1 DEF TableInv
      <4>2. id.gen = entries[id.index]
        BY <3>3, <4>1, Narrowed
      <4>3. id.index < ResCap
        BY <3>1, <4>1 DEF Indices, ResourcesAssumption
      <4>4. QED BY <4>2, <4>3 DEF ResGet
    <3>4. QED BY <2>1, <3>2, <3>3 DEF IdsInv, StaleIsRefused, LiveIsFound
  <2>4. QED BY <2>2, <2>3
<1>2. QED BY <1>1, TableInvariance, PTL

(* Registry ****************************************************************)
\* A name was stored in the first slot of its search that was free, and the
\* slots before that one are never free again.
Placed(name, s) ==
  \E i \in ModuleSlots : Probe(name, i) = s /\ \A j \in 0 .. i - 1 : hashes[Probe(name, j)].low # 0

\* A slot holds a name with its hash, or neither.
SlotsHold ==
  \A s \in ModuleSlots : IF names[s] = NoName THEN hashes[s] = NoHash ELSE hashes[s] = Hash(names[s])

\* Modules whose hash fits 32 bits have one slot at most.
SlotsApart ==
  \A s \in ModuleSlots : names[s] # NoName /\ Hash(names[s]).high = 0 =>
    /\ Placed(names[s], s)
    /\ \A t \in ModuleSlots : names[t] = names[s] => t = s

AskedHaveSlots ==
  \A name \in asked : Hash(name).high = 0 => failed # "no" \/ \E s \in ModuleSlots : names[s] = name

ModulesInv ==
  /\ hashes \in [ModuleSlots -> [high : Nat, low : Nat]]
  /\ names \in [ModuleSlots -> Names \cup {NoName}]
  /\ asked \subseteq Names
  /\ SlotsHold /\ SlotsApart /\ AskedHaveSlots /\ NoRoomMeansFull
-----------------------------------------------------------------------------
\* The turns of a search stay in the table, and there is one for every slot.
LEMMA ProbesReachAll ==
  ASSUME NEW name \in Names
  PROVE  /\ \A i \in ModuleSlots : Probe(name, i) \in ModuleSlots
         /\ \A s \in ModuleSlots : \E i \in ModuleSlots : Probe(name, i) = s
<1> DEFINE D == MaxModules  low == Hash(name).low
<1>1. D \in Nat \ {0} /\ low \in Nat
  BY RegistryAssumption
<1>2. \A i \in ModuleSlots : low + i \in Nat
  BY <1>1 DEF ModuleSlots
<1>3. \A i \in ModuleSlots : Probe(name, i) \in ModuleSlots
  <2>1. TAKE i \in ModuleSlots
  <2>2. (low + i) % D \in 0 .. D - 1
    BY <1>1, <1>2, Remainder
  <2>3. QED BY <2>2 DEF Probe, ModuleSlots
<1>4. ASSUME NEW s \in ModuleSlots PROVE \E i \in ModuleSlots : Probe(name, i) = s
  <2> DEFINE q == low \div D  r == low % D
  <2>1. q \in Int /\ r \in 0 .. D - 1 /\ low = D * q + r /\ s \in 0 .. D - 1
    BY <1>1, Remainder DEF ModuleSlots
  <2> HIDE DEF q, r
  <2>2. PICK i \in ModuleSlots, k \in Int : low + i = D * k + s
    <3>1. CASE s >= r
      <4>1. s - r \in ModuleSlots /\ low + (s - r) = D * q + s
        <5> HIDE DEF D, low
        <5>1. s - r \in 0 .. D - 1
          BY <1>1, <2>1, <3>1
        <5>2. PICK n \in Int : n = D * q
          BY <1>1, <2>1, Z3
        <5>3. low + (s - r) = n + s
          BY <1>1, <2>1, <5>2
        <5>4. QED BY <5>1, <5>2, <5>3 DEF ModuleSlots, D
      <4>2. QED BY <2>1, <4>1
    <3>2. CASE s < r
      <4>1. s - r + D \in ModuleSlots /\ low + (s - r + D) = D * (q + 1) + s
        <5> HIDE DEF D, low
        <5>1. s - r + D \in 0 .. D - 1
          BY <1>1, <2>1, <3>2
        <5>2. PICK n \in Int : n = D * q
          BY <1>1, <2>1, Z3
        <5>3. D * (q + 1) = n + D
          BY <1>1, <2>1, <5>2, Z3
        <5>4. low + (s - r + D) = n + D + s
          BY <1>1, <2>1, <5>2
        <5>5. QED BY <1>1, <5>1, <5>2, <5>3, <5>4 DEF ModuleSlots, D
      <4>2. q + 1 \in Int
        BY <2>1
      <4>3. QED BY <4>1, <4>2
    <3>3. QED BY <1>1, <2>1, <3>1, <3>2
  <2>3. (low + i) \div D \in Int /\ (low + i) % D \in 0 .. D - 1
        /\ low + i = D * ((low + i) \div D) + ((low + i) % D)
    BY <1>1, <1>2, Remainder
  <2>4. (low + i) % D = s
    <3> DEFINE j == (low + i) \div D  t == (low + i) % D
    <3>1. j \in Int /\ t \in 0 .. D - 1 /\ D * j + t = D * k + s
      BY <2>2, <2>3
    <3> HIDE DEF j, t, D
    <3>2. t = s
      <4>1. k \in Int /\ s \in 0 .. D - 1 /\ D \in Nat \ {0}
        BY <1>1, <2>1, <2>2
      <4>2. \A a, b \in Int : \A v, w \in 0 .. D - 1 : D * a + v = D * b + w => v = w
        BY <4>1, RemainderUnique
      <4>3. QED BY <3>1, <4>1, <4>2, Zenon
    <3>3. QED BY <3>2 DEF t, D
  <2>5. QED BY <2>4 DEF Probe
<1>5. QED BY <1>3, <1>4

LEMMA RegistryStarts == RegistryInit => ModulesInv
<1>1. SUFFICES ASSUME RegistryInit PROVE ModulesInv
  OBVIOUS
<1>2. NoHash \in [high : Nat, low : Nat]
  BY DEF NoHash
<1>3. QED
  BY <1>1, <1>2 DEF RegistryInit, ModulesInv, SlotsHold, SlotsApart, AskedHaveSlots, NoRoomMeansFull

\* A search that goes past every slot found all of them taken.
LEMMA PastAll ==
  ASSUME ModulesInv, NEW name \in Names, Stops(name) = {}, Hash(name) # NoHash
  PROVE  \A s \in ModuleSlots : names[s] # NoName
<1>1. ~ (Hash(name).high = 0 /\ Hash(name).low = 0)
  BY RegistryAssumption DEF NoHash
<1>2. TAKE s \in ModuleSlots
<1>3. PICK i \in ModuleSlots : Probe(name, i) = s
  BY ProbesReachAll
<1>4. hashes[s].low # 0
  BY <1>1, <1>3 DEF Stops
<1>5. QED BY <1>4 DEF ModulesInv, SlotsHold, NoHash

\* A module that has a slot is found in it.
LEMMA FoundAgain ==
  ASSUME ModulesInv, NEW name \in Names, NEW s \in ModuleSlots,
         names[s] = name, Hash(name).high = 0,
         NEW i \in Stops(name), \A j \in Stops(name) : i <= j
  PROVE  Match(name, Probe(name, i))
<1>1. name # NoName
  BY RegistryAssumption
<1>2. Match(name, s)
  BY <1>1 DEF ModulesInv, SlotsHold, Match
<1>3. PICK k \in ModuleSlots : Probe(name, k) = s /\ \A j \in 0 .. k - 1 : hashes[Probe(name, j)].low # 0
  BY <1>1 DEF ModulesInv, SlotsApart, Placed
<1>4. k \in Stops(name) /\ i \in ModuleSlots /\ i \in Nat /\ k \in Nat
  BY <1>2, <1>3 DEF Stops, ModuleSlots
<1>5. CASE i = k
  BY <1>2, <1>3, <1>5
<1>6. CASE i # k
  <2>1. i \in 0 .. k - 1
    BY <1>4, <1>6
  <2>2. hashes[Probe(name, i)].low # 0
    BY <1>3, <2>1
  <2>3. QED BY <2>2 DEF Stops
<1>7. QED BY <1>5, <1>6

\* _get_module, of a module that gets a slot.
LEMMA StoredKeeps ==
  ASSUME ModulesInv, NEW name \in Names, failed = "no",
         NEW i \in Stops(name), \A j \in Stops(name) : i <= j,
         NEW s, s = Probe(name, i), ~ Match(name, s), names[s] = NoName,
         hashes' = [hashes EXCEPT ![s] = Hash(name)],
         names' = [names EXCEPT ![s] = name],
         asked' = asked \cup {name}, failed' = failed
  PROVE  ModulesInv'
<1>1. /\ hashes \in [ModuleSlots -> [high : Nat, low : Nat]]
      /\ names \in [ModuleSlots -> Names \cup {NoName}] /\ asked \subseteq Names
      /\ SlotsHold /\ SlotsApart /\ AskedHaveSlots
  BY DEF ModulesInv
<1>2. /\ i \in ModuleSlots /\ s \in ModuleSlots /\ name # NoName
      /\ Hash(name) \in [high : Nat, low : Nat]
  BY ProbesReachAll, RegistryAssumption DEF Stops
<1>3. /\ hashes'[s] = Hash(name) /\ \A t \in ModuleSlots \ {s} : hashes'[t] = hashes[t]
      /\ names'[s] = name /\ \A t \in ModuleSlots \ {s} : names'[t] = names[t]
  BY <1>1, <1>2
<1>4. hashes[s].low = 0 /\ hashes[s] = NoHash
  <2>1. hashes[s] = NoHash
    BY <1>1, <1>2 DEF SlotsHold
  <2>2. QED BY <2>1 DEF NoHash
<1>5. \A j \in 0 .. i - 1 : hashes[Probe(name, j)].low # 0
  <2>1. TAKE j \in 0 .. i - 1
  <2>2. j \in ModuleSlots /\ ~ (i <= j)
    BY <1>2, RegistryAssumption DEF ModuleSlots
  <2>3. j \notin Stops(name)
    BY <2>2
  <2>4. ~ (Hash(name).high = 0 /\ Hash(name).low = 0)
    BY DEF Stops
  <2>5. QED BY <2>2, <2>3, <2>4 DEF Stops
\* Taken slots stay as they are, so those before a name's slot stay taken.
<1>6. \A m \in Names : \A t \in ModuleSlots : Placed(m, t) => Placed(m, t)'
  <2>1. SUFFICES ASSUME NEW m \in Names, NEW t \in ModuleSlots, Placed(m, t) PROVE Placed(m, t)'
    OBVIOUS
  <2>2. PICK k \in ModuleSlots : Probe(m, k) = t /\ \A j \in 0 .. k - 1 : hashes[Probe(m, j)].low # 0
    BY <2>1 DEF Placed
  <2>3. \A j \in 0 .. k - 1 : hashes'[Probe(m, j)].low # 0
    <3>1. TAKE j \in 0 .. k - 1
    <3>2. j \in ModuleSlots
      BY <2>2, RegistryAssumption DEF ModuleSlots
    <3>3. Probe(m, j) \in ModuleSlots \ {s}
      BY <2>2, <3>2, <1>4, ProbesReachAll
    <3>4. hashes'[Probe(m, j)] = hashes[Probe(m, j)]
      BY <1>3, <3>3
    <3>5. QED BY <2>2, <3>4
  <2>4. QED BY <2>2, <2>3 DEF Placed, Probe
<1>7. Placed(name, s)'
  <2>1. \A j \in 0 .. i - 1 : hashes'[Probe(name, j)].low # 0
    <3>1. TAKE j \in 0 .. i - 1
    <3>2. j \in ModuleSlots
      BY <1>2, RegistryAssumption DEF ModuleSlots
    <3>3. Probe(name, j) \in ModuleSlots \ {s}
      BY <1>4, <1>5, <3>2, ProbesReachAll
    <3>4. hashes'[Probe(name, j)] = hashes[Probe(name, j)]
      BY <1>3, <3>3
    <3>5. QED BY <1>5, <3>4
  <2>2. QED BY <1>2, <2>1 DEF Placed, Probe
<1>8. Hash(name).high = 0 => \A t \in ModuleSlots : names[t] # name
  <2>1. SUFFICES ASSUME Hash(name).high = 0, NEW t \in ModuleSlots, names[t] = name PROVE FALSE
    OBVIOUS
  <2>2. Match(name, Probe(name, i))
    BY <2>1, FoundAgain
  <2>3. QED BY <2>2
<1>9. SlotsHold'
  <2>1. ASSUME NEW t \in ModuleSlots
        PROVE  IF names'[t] = NoName THEN hashes'[t] = NoHash ELSE hashes'[t] = Hash(names'[t])
    <3>1. CASE t = s
      BY <1>2, <1>3, <3>1
    <3>2. CASE t # s
      BY <1>1, <1>3, <3>2 DEF SlotsHold
    <3>3. QED BY <3>1, <3>2
  <2>2. QED BY <2>1 DEF SlotsHold
<1>10. SlotsApart'
  <2>1. ASSUME NEW t \in ModuleSlots, NEW m, m = names'[t], m # NoName, Hash(m).high = 0
        PROVE  Placed(m, t)' /\ \A u \in ModuleSlots : names'[u] = m => u = t
    <3>1. CASE t = s
      <4>1. m = name
        BY <1>3, <2>1, <3>1
      <4>2. Placed(m, t)'
        BY <1>7, <3>1, <4>1
      <4>3. \A u \in ModuleSlots \ {s} : names'[u] # m
        BY <1>3, <1>8, <2>1, <4>1
      <4>4. QED BY <3>1, <4>2, <4>3
    <3>2. CASE t # s
      <4>1. m = names[t] /\ m \in Names
        BY <1>1, <1>3, <2>1, <3>2
      <4>2. Placed(m, t) /\ \A u \in ModuleSlots : names[u] = m => u = t
        BY <1>1, <2>1, <4>1 DEF SlotsApart
      <4>3. m # name
        BY <1>8, <2>1, <4>1
      <4>4. Placed(m, t)'
        BY <1>6, <4>1, <4>2
      <4>5. \A u \in ModuleSlots : names'[u] = m => u = t
        BY <1>3, <4>2, <4>3
      <4>6. QED BY <4>4, <4>5
    <3>3. QED BY <3>1, <3>2
  <2>2. QED BY <2>1, Zenon DEF SlotsApart
<1>11. AskedHaveSlots'
  <2>1. SUFFICES ASSUME NEW m \in asked', Hash(m).high = 0, failed' = "no"
                 PROVE  \E t \in ModuleSlots : names'[t] = m
    BY DEF AskedHaveSlots
  <2>2. CASE m = name
    BY <1>2, <1>3, <2>2
  <2>3. CASE m # name
    <3>1. PICK t \in ModuleSlots : names[t] = m
      BY <1>1, <2>1, <2>3 DEF AskedHaveSlots
    <3>2. t # s
      BY <1>1, <2>1, <3>1, RegistryAssumption, <2>3
    <3>3. QED BY <1>3, <3>1, <3>2
  <2>4. QED BY <2>2, <2>3
<1>12. NoRoomMeansFull'
  BY DEF NoRoomMeansFull
<1>13. hashes' \in [ModuleSlots -> [high : Nat, low : Nat]] /\ names' \in [ModuleSlots -> Names \cup {NoName}] /\ asked' \subseteq Names
  BY <1>1, <1>2
<1>14. QED BY <1>9, <1>10, <1>11, <1>12, <1>13 DEF ModulesInv

\* The other calls: nothing is stored.
LEMMA NotStoredKeeps ==
  ASSUME ModulesInv, NEW name \in Names, UNCHANGED <<hashes, names>>,
         asked' = asked \cup {name},
         failed' # "no" \/ (failed' = failed /\ \E s \in ModuleSlots : names[s] = name),
         failed' = "no room" => NoRoomMeansFull'
  PROVE  ModulesInv'
<1>1. SlotsHold'
  BY DEF ModulesInv, SlotsHold
<1>2. SlotsApart'
  <2>1. \A m, s : Placed(m, s) => Placed(m, s)'
    BY DEF Placed, Probe
  <2>2. ASSUME NEW t \in ModuleSlots, NEW m, m = names[t], m # NoName, Hash(m).high = 0
        PROVE  Placed(m, t)' /\ \A u \in ModuleSlots : names'[u] = m => u = t
    BY <2>1, <2>2 DEF ModulesInv, SlotsApart
  <2>3. QED BY <2>2, Zenon DEF SlotsApart
<1>3. AskedHaveSlots'
  BY DEF ModulesInv, AskedHaveSlots
<1>4. NoRoomMeansFull'
  BY DEF NoRoomMeansFull
<1>5. QED BY <1>1, <1>2, <1>3, <1>4 DEF ModulesInv

LEMMA GetModuleKeeps ==
  ASSUME ModulesInv, NEW name \in Names, GetModule(name)
  PROVE  ModulesInv'
<1>1. failed = "no" /\ asked' = asked \cup {name}
  BY DEF GetModule
<1>2. CASE Stops(name) = {}
  <2>1. failed' = "no room" /\ UNCHANGED <<hashes, names>>
    BY <1>2 DEF GetModule
  <2>2. NoRoomMeansFull'
    <3>1. Hash(name) # NoHash => \A s \in ModuleSlots : names[s] # NoName
      BY <1>2, PastAll
    <3>2. QED BY <1>1, <2>1, <3>1 DEF NoRoomMeansFull
  <2>3. QED BY <1>1, <2>1, <2>2, NotStoredKeeps
<1>3. CASE Stops(name) # {}
  <2> DEFINE i == CHOOSE i \in Stops(name) : \A j \in Stops(name) : i <= j
             s == Probe(name, i)
  <2>1. /\ i \in Stops(name) /\ \A j \in Stops(name) : i <= j
    <3>1. Stops(name) \subseteq Nat
      BY DEF Stops, ModuleSlots
    <3>2. \E m \in Stops(name) : \A j \in Stops(name) : m <= j
      BY <1>3, <3>1, LeastNumber
    <3>3. QED BY <3>2
  <2>2. IF Match(name, s) THEN UNCHANGED <<hashes, names, failed>>
        ELSE IF names[s] # NoName
        THEN failed' = "not empty" /\ UNCHANGED <<hashes, names>>
        ELSE /\ hashes' = [hashes EXCEPT ![s] = Hash(name)]
             /\ names' = [names EXCEPT ![s] = name]
             /\ UNCHANGED failed
    BY <1>3 DEF GetModule
  <2>3. i \in ModuleSlots /\ s \in ModuleSlots
    BY <2>1, ProbesReachAll DEF Stops
  <2> HIDE DEF i
  <2>4. CASE Match(name, s)
    <3>1. names[s] = name
      BY <2>4 DEF Match
    <3>2. QED BY <1>1, <2>2, <2>3, <2>4, <3>1, NotStoredKeeps
  <2>5. CASE ~ Match(name, s) /\ names[s] # NoName
    <3>1. failed' = "not empty" /\ UNCHANGED <<hashes, names>>
      BY <2>2, <2>5
    <3>2. QED BY <1>1, <3>1, NotStoredKeeps
  <2>6. CASE ~ Match(name, s) /\ names[s] = NoName
    <3>1. /\ hashes' = [hashes EXCEPT ![s] = Hash(name)]
          /\ names' = [names EXCEPT ![s] = name] /\ failed' = failed
      BY <2>2, <2>6
    <3>2. QED BY <1>1, <2>1, <2>6, <3>1, StoredKeeps
  <2>7. QED BY <2>4, <2>5, <2>6
<1>4. QED BY <1>2, <1>3

LEMMA RegistryInvariance == RegistrySpec => []ModulesInv
<1>1. RegistryInit => ModulesInv
  BY RegistryStarts
<1>2. ModulesInv /\ [RegistryNext]_registryVars => ModulesInv'
  <2>1. SUFFICES ASSUME ModulesInv, [RegistryNext]_registryVars PROVE ModulesInv'
    OBVIOUS
  <2>2. CASE RegistryNext
    <3>1. PICK name \in Names : GetModule(name)
      BY <2>2 DEF RegistryNext
    <3>2. QED BY <2>1, <3>1, GetModuleKeeps
  <2>3. CASE UNCHANGED registryVars
    <3>1. UNCHANGED <<hashes, names, asked, failed>>
      BY <2>3 DEF registryVars
    <3>2. \A m, s : Placed(m, s) => Placed(m, s)'
      BY <3>1 DEF Placed, Probe
    <3>3. ASSUME NEW t \in ModuleSlots, NEW m, m = names[t], m # NoName, Hash(m).high = 0
          PROVE  Placed(m, t)' /\ \A u \in ModuleSlots : names'[u] = m => u = t
      BY <2>1, <3>1, <3>2, <3>3 DEF ModulesInv, SlotsApart
    <3>4. SlotsApart'
      BY <3>1, <3>3, Zenon DEF SlotsApart
    <3>5. SlotsHold' /\ AskedHaveSlots' /\ NoRoomMeansFull'
      BY <2>1, <3>1 DEF ModulesInv, SlotsHold, AskedHaveSlots, NoRoomMeansFull
    <3>6. QED BY <2>1, <3>1, <3>4, <3>5 DEF ModulesInv
  <2>4. QED BY <2>1, <2>2, <2>3
<1>3. QED BY <1>1, <1>2, PTL DEF RegistrySpec

\* _get_module, for every table, every hash function and any number of calls: a
\* module whose hash fits 32 bits has one slot from its first call on, and "no
\* more room" is only said of a full table, or of a module whose hash is 0.
THEOREM ModulesAreFound == RegistrySpec => []ModulesHaveOneSlot
<1>1. ModulesInv => ModulesHaveOneSlot
  <2>1. SUFFICES ASSUME ModulesInv PROVE ModulesHaveOneSlot
    OBVIOUS
  <2>2. ASSUME NEW name \in asked, Hash(name).high = 0
        PROVE  Cardinality(SlotsOf(name)) = 1 \/ (failed # "no" /\ SlotsOf(name) = {})
    <3>1. CASE \E s \in ModuleSlots : names[s] = name
      <4>1. PICK s \in ModuleSlots : names[s] = name
        BY <3>1
      <4>2. \A t \in ModuleSlots : names[t] = name => t = s
        BY <2>1, <2>2, <4>1, RegistryAssumption DEF ModulesInv, SlotsApart
      <4>3. SlotsOf(name) = {s}
        BY <4>1, <4>2 DEF SlotsOf
      <4>4. QED BY <4>3, FS_Singleton
    <3>2. CASE ~ \E s \in ModuleSlots : names[s] = name
      BY <2>1, <2>2, <3>2 DEF ModulesInv, AskedHaveSlots, SlotsOf
    <3>3. QED BY <3>1, <3>2
  <2>3. QED BY <2>1, <2>2 DEF ModulesHaveOneSlot, SmallHashHasOneSlot, ModulesInv
<1>2. QED BY <1>1, RegistryInvariance, PTL

(* MemStream ***************************************************************)
\* What a reader sees of a stream.
View(m) == SubSeq(m.buffer, 1, m.size)
Sound(m) == m \in Memory /\ m.cursor <= m.size /\ m.size <= Len(m.buffer)

\* The bytes before the cursor are the ones that were taken.
KeptIn(m, sofar) ==
  /\ Len(sofar) <= m.cursor
  /\ \A i \in 1 .. Len(sofar) : m.buffer[m.cursor - Len(sofar) + i] = sofar[i]

StreamsSound ==
  /\ stream = [s \in Streams |-> stream[s]]
  /\ \A s \in Streams : stream[s] = NoStream \/ Sound(stream[s])

CopySound ==
  copy # NoStream =>
    /\ copy \in Copying /\ copy.from # copy.to /\ stream[copy.from] # NoStream /\ stream[copy.to] # NoStream
    /\ copy.ok = TRUE => copy.left = 0
    /\ copy.ok # FALSE =>
         /\ copy.left > 0 \/ Writes(stream[copy.to].flags)
         /\ KeptIn(stream[copy.to], copy.taken)

StreamInv == StreamsSound /\ CopySound

LEMMA RoundedUp ==
  ASSUME NEW n \in Nat
  PROVE  Rounded(n) \in Nat /\ Rounded(n) >= n
<1> DEFINE q == n \div GrowSize
           r == n % GrowSize
<1>1. GrowSize \in Nat \ {0}
  BY MemStreamAssumption
<1>2. q \in Int /\ r \in 0 .. GrowSize - 1 /\ n = GrowSize * q + r
  BY <1>1, Remainder
<1>3. CASE r = 0
  <2>1. Rounded(n) = GrowSize * (q + 0)
    BY <1>3 DEF Rounded
  <2> HIDE DEF q, r
  <2>2. q + 0 = q
    BY <1>2
  <2>3. Rounded(n) = GrowSize * q
    BY <2>1, <2>2
  <2> DEFINE p == GrowSize * q
  <2> HIDE DEF p
  <2>4. p = n /\ Rounded(n) = p
    <3>1. p \in Int
      BY <1>1, <1>2 DEF p
    <3>2. n = p + r /\ Rounded(n) = p
      BY <1>2, <2>3 DEF p
    <3>3. QED BY <1>3, <3>1, <3>2
  <2>5. QED BY <2>4
<1>4. CASE r # 0
  <2>1. Rounded(n) = GrowSize * (q + 1)
    BY <1>4 DEF Rounded
  <2> HIDE DEF q, r
  <2>2. GrowSize * (q + 1) = GrowSize * q + GrowSize
    BY <1>1, <1>2, Z3
  <2>3. GrowSize * q \in Int
    BY <1>1, <1>2
  <2> DEFINE p == GrowSize * q
  <2> HIDE DEF p
  <2>4. p \in Int /\ n = p + r /\ Rounded(n) = p + GrowSize
    BY <1>2, <2>1, <2>2, <2>3 DEF p
  <2>5. QED BY <1>1, <1>2, <2>4
<1>5. QED BY <1>3, <1>4

LEMMA ResizedTo ==
  ASSUME NEW b \in Seq(Stored), NEW n \in Nat
  PROVE  /\ Resized(b, n) \in Seq(Stored) /\ Len(Resized(b, n)) = n
         /\ \A i \in 1 .. n : i <= Len(b) => Resized(b, n)[i] = b[i]
<1>1. Resized(b, n) \in [1 .. n -> Stored]
  BY DEF Resized, Stored
<1>2. QED BY <1>1 DEF Resized

\* The bytes of a stream do not depend on what its buffer holds beyond them.
LEMMA SameView ==
  ASSUME NEW b \in Seq(Stored), NEW c \in Seq(Stored), NEW n \in Nat, n <= Len(b), n <= Len(c),
         \A i \in 1 .. n : c[i] = b[i]
  PROVE  SubSeq(c, 1, n) = SubSeq(b, 1, n)
<1>1. SubSeq(c, 1, n) = [i \in 1 .. n |-> c[i]] /\ SubSeq(b, 1, n) = [i \in 1 .. n |-> b[i]]
  OBVIOUS
<1>2. QED BY <1>1

LEMMA ViewIs ==
  ASSUME NEW m, Sound(m)
  PROVE  /\ View(m) \in Seq(Stored) /\ Len(View(m)) = m.size
         /\ \A i \in 1 .. m.size : View(m)[i] = m.buffer[i]
BY DEF Sound, Memory, View

\* A part of a buffer.
LEMMA PartOf ==
  ASSUME NEW b \in Seq(Stored), NEW c \in Nat, NEW n \in Nat, c + n <= Len(b)
  PROVE  /\ SubSeq(b, c + 1, c + n) \in Seq(Stored) /\ Len(SubSeq(b, c + 1, c + n)) = n
         /\ \A i \in 1 .. n : SubSeq(b, c + 1, c + n)[i] = b[c + i]
<1>1. SubSeq(b, c + 1, c + n) = [i \in 1 .. n |-> b[c + i]]
  <2>1. SubSeq(b, c + 1, c + n) = [i \in 1 .. (c + n) - (c + 1) + 1 |-> b[i + (c + 1) - 1]]
    OBVIOUS
  <2>2. (c + n) - (c + 1) + 1 = n
    OBVIOUS
  <2>3. ASSUME NEW i \in 1 .. n PROVE i + (c + 1) - 1 = c + i
    BY <2>2
  <2>4. QED BY <2>1, <2>2, <2>3
<1>2. \A i \in 1 .. n : b[c + i] \in Stored
  OBVIOUS
<1>3. QED BY <1>1, <1>2

LEMMA GrownEnough ==
  ASSUME NEW m, Sound(m), NEW n \in Nat
  PROVE  /\ Grown(m, n) \in Seq(Stored) /\ Len(Grown(m, n)) >= Len(m.buffer) /\ Len(Grown(m, n)) >= m.cursor + n
         /\ \A i \in 1 .. Len(m.buffer) : Grown(m, n)[i] = m.buffer[i]
<1>1. m.buffer \in Seq(Stored) /\ m.cursor \in Nat /\ m.cursor <= Len(m.buffer)
  BY DEF Sound, Memory
<1>2. CASE n > Len(m.buffer) - m.cursor
  <2>1. Rounded(m.cursor + n) \in Nat /\ Rounded(m.cursor + n) >= m.cursor + n
    <3>1. m.cursor + n \in Nat
      BY <1>1
    <3>2. QED BY <3>1, RoundedUp
  <2>2. Grown(m, n) = Resized(m.buffer, Rounded(m.cursor + n))
    BY <1>2 DEF Grown
  <2> DEFINE r == Rounded(m.cursor + n)
  <2>3. Resized(m.buffer, r) \in Seq(Stored) /\ Len(Resized(m.buffer, r)) = r
        /\ \A i \in 1 .. r : i <= Len(m.buffer) => Resized(m.buffer, r)[i] = m.buffer[i]
    BY <1>1, <2>1, ResizedTo
  <2> HIDE DEF r
  <2>4. r >= m.cursor + n /\ r >= Len(m.buffer) /\ r \in Nat
    BY <1>1, <1>2, <2>1 DEF r
  <2>5. Grown(m, n) = Resized(m.buffer, r)
    BY <2>2 DEF r
  <2>6. QED BY <1>1, <2>3, <2>4, <2>5
<1>3. CASE ~ (n > Len(m.buffer) - m.cursor)
  BY <1>1, <1>3 DEF Grown
<1>4. QED BY <1>2, <1>3

LEMMA ReadKeeps ==
  ASSUME NEW m, Sound(m), NEW n \in Nat
  PROVE  /\ ReadCount(m, n) \in 0 .. n /\ m.cursor + ReadCount(m, n) <= m.size
         /\ Sound(AfterRead(m, n)) /\ AfterRead(m, n).cursor = m.cursor + ReadCount(m, n)
         /\ View(AfterRead(m, n)) = View(m)
<1>1. m \in Memory /\ m.cursor \in Nat /\ m.size \in Nat /\ m.cursor <= m.size
  BY DEF Sound, Memory
<1>2. ReadCount(m, n) \in 0 .. n /\ m.cursor + ReadCount(m, n) <= m.size
  BY <1>1 DEF ReadCount, Available, Least, Greater
<1>3. AfterRead(m, n) \in Memory
  BY <1>1, <1>2 DEF AfterRead, Memory
<1>4. /\ AfterRead(m, n).cursor = m.cursor + ReadCount(m, n)
      /\ AfterRead(m, n).size = m.size /\ AfterRead(m, n).buffer = m.buffer
  BY <1>1 DEF AfterRead, Memory
<1>5. QED BY <1>2, <1>3, <1>4 DEF Sound, View

\* A stream that does not write is as it was.
LEMMA WriteKeeps ==
  ASSUME NEW m, Sound(m), NEW new \in Seq(Stored), Writes(m.flags)
  PROVE  LET w == AfterWrite(m, new) IN
         /\ Sound(w) /\ w.flags = m.flags /\ w.cursor = m.cursor + Len(new)
         /\ w.size = (IF m.size > w.cursor THEN m.size ELSE w.cursor)
         /\ \A i \in 1 .. Len(new) : w.buffer[m.cursor + i] = new[i]
         /\ \A i \in 1 .. Len(m.buffer) : (i <= m.cursor \/ i > w.cursor) => w.buffer[i] = m.buffer[i]
<1> DEFINE stop == m.cursor + Len(new)
           room == Grown(m, Len(new))
           written == [i \in DOMAIN room |-> IF i > m.cursor /\ i <= stop THEN new[i - m.cursor] ELSE room[i]]
           w == AfterWrite(m, new)
<1>1. m \in Memory /\ m.cursor \in Nat /\ m.size \in Nat /\ m.cursor <= m.size /\ m.size <= Len(m.buffer)
      /\ m.buffer \in Seq(Stored) /\ Len(m.buffer) \in Nat
  BY DEF Sound, Memory
<1>2. stop \in Nat /\ Len(new) \in Nat
  BY <1>1
<1>3. /\ room \in Seq(Stored) /\ Len(room) >= Len(m.buffer) /\ Len(room) >= stop
      /\ \A i \in 1 .. Len(m.buffer) : room[i] = m.buffer[i]
  BY <1>2, GrownEnough
<1>4. w = [m EXCEPT !.buffer = written, !.cursor = stop, !.size = Greater(@, stop)]
  BY DEF AfterWrite
<1> HIDE DEF room, w
<1>5. DOMAIN room = 1 .. Len(room) /\ Len(room) \in Nat
  BY <1>3
<1>6. written \in Seq(Stored) /\ Len(written) = Len(room)
  <2>1. ASSUME NEW i \in 1 .. Len(room), i > m.cursor, i <= stop PROVE new[i - m.cursor] \in Stored
    <3>1. i - m.cursor \in 1 .. Len(new)
      BY <1>1, <1>2, <1>5, <2>1
    <3>2. QED BY <3>1
  <2>2. ASSUME NEW i \in 1 .. Len(room) PROVE room[i] \in Stored
    BY <1>3
  <2>3. written \in [1 .. Len(room) -> Stored]
    BY <1>5, <2>1, <2>2
  <2> HIDE DEF written
  <2>4. QED BY <1>5, <2>3
<1>7. \A i \in 1 .. Len(new) : written[m.cursor + i] = new[i]
  <2>1. ASSUME NEW i \in 1 .. Len(new) PROVE written[m.cursor + i] = new[i]
    <3>1. m.cursor + i \in DOMAIN room /\ m.cursor + i > m.cursor /\ m.cursor + i <= stop /\ (m.cursor + i) - m.cursor = i
      BY <1>1, <1>2, <1>3, <1>5
    <3>2. QED BY <3>1
  <2>2. QED BY <2>1
<1>8. \A i \in 1 .. Len(m.buffer) : (i <= m.cursor \/ i > stop) => written[i] = m.buffer[i]
  <2>1. ASSUME NEW i \in 1 .. Len(m.buffer), i <= m.cursor \/ i > stop PROVE written[i] = m.buffer[i]
    <3>1. i \in DOMAIN room /\ ~ (i > m.cursor /\ i <= stop)
      BY <1>1, <1>2, <1>3, <1>5, <2>1
    <3>2. QED BY <1>3, <3>1
  <2>2. QED BY <2>1
<1> HIDE DEF written
<1>9. w.buffer = written /\ w.cursor = stop /\ w.size = Greater(m.size, stop) /\ w.flags = m.flags /\ w \in Memory
  <2>1. Greater(m.size, stop) \in Nat
    BY <1>1, <1>2 DEF Greater
  <2> HIDE DEF stop
  <2>2. QED BY <1>1, <1>2, <1>4, <1>6, <2>1 DEF Memory
<1>10. w.cursor <= w.size /\ w.size <= Len(w.buffer)
  BY <1>1, <1>2, <1>3, <1>6, <1>9 DEF Greater
<1>11. w.size = (IF m.size > w.cursor THEN m.size ELSE w.cursor)
  BY <1>1, <1>2, <1>9 DEF Greater
<1>12. Sound(w)
  BY <1>9, <1>10 DEF Sound
<1> HIDE DEF stop
<1>13. w.cursor = m.cursor + Len(new)
  BY <1>9 DEF stop
<1>14. QED BY <1>7, <1>8, <1>9, <1>11, <1>12, <1>13 DEF w

\* A write puts its bytes where the cursor is and leaves the others.
LEMMA WriteOverwrites ==
  ASSUME NEW m, Sound(m), NEW new \in Seq(Stored), Writes(m.flags)
  PROVE  View(AfterWrite(m, new)) = Abstract!Overwritten(View(m), m.cursor, new)
<1> DEFINE w == AfterWrite(m, new)
           stop == m.cursor + Len(new)
           ov == Abstract!Overwritten(View(m), m.cursor, new)
<1>1. /\ Sound(w) /\ w.cursor = stop /\ w.size = (IF m.size > stop THEN m.size ELSE stop)
      /\ \A i \in 1 .. Len(new) : w.buffer[m.cursor + i] = new[i]
      /\ \A i \in 1 .. Len(m.buffer) : (i <= m.cursor \/ i > stop) => w.buffer[i] = m.buffer[i]
  BY WriteKeeps
<1> HIDE DEF w
<1>2. m.cursor \in Nat /\ m.size \in Nat /\ m.cursor <= m.size /\ m.size <= Len(m.buffer) /\ m.buffer \in Seq(Stored)
  BY DEF Sound, Memory
<1>3. View(w) \in Seq(Stored) /\ Len(View(w)) = w.size /\ \A i \in 1 .. w.size : View(w)[i] = w.buffer[i]
  BY <1>1, ViewIs
<1>4. Len(View(m)) = m.size /\ \A i \in 1 .. m.size : View(m)[i] = m.buffer[i]
  BY ViewIs
<1>5. ov = [i \in 1 .. w.size |-> IF i > m.cursor /\ i <= stop THEN new[i - m.cursor] ELSE View(m)[i]]
  BY <1>1, <1>4 DEF Abstract!Overwritten
<1>6. ASSUME NEW i \in 1 .. w.size
      PROVE  View(w)[i] = IF i > m.cursor /\ i <= stop THEN new[i - m.cursor] ELSE View(m)[i]
  <2>1. View(w)[i] = w.buffer[i] /\ i \in Nat /\ Len(new) \in Nat
    BY <1>1, <1>2, <1>3
  <2>2. CASE i > m.cursor /\ i <= stop
    <3>1. i - m.cursor \in 1 .. Len(new) /\ m.cursor + (i - m.cursor) = i
      BY <1>2, <2>1, <2>2
    <3>2. QED BY <1>1, <2>1, <2>2, <3>1
  <2>3. CASE ~ (i > m.cursor /\ i <= stop)
    <3>1. i \in 1 .. m.size /\ i \in 1 .. Len(m.buffer) /\ (i <= m.cursor \/ i > stop)
      BY <1>1, <1>2, <2>1, <2>3
    <3>2. QED BY <1>1, <1>4, <2>1, <2>3, <3>1
  <2>4. QED BY <2>2, <2>3
<1>7. View(w) = [i \in 1 .. w.size |-> View(w)[i]]
  BY <1>3
<1>8. QED BY <1>5, <1>6, <1>7 DEF w
\* What mstream_write puts into a stream.
Put(m, new) == IF Writes(m.flags) THEN new ELSE <<>>

LEMMA WriteIsOverwrite ==
  ASSUME NEW m, Sound(m), NEW new \in Seq(Stored)
  PROVE  /\ Sound(AfterWrite(m, new)) /\ AfterWrite(m, new).flags = m.flags
         /\ AfterWrite(m, new).cursor = m.cursor + Len(Put(m, new))
         /\ View(AfterWrite(m, new)) = Abstract!Overwritten(View(m), m.cursor, Put(m, new))
<1>1. CASE Writes(m.flags)
  <2>1. Put(m, new) = new
    BY <1>1 DEF Put
  <2>2. QED BY <1>1, <2>1, WriteKeeps, WriteOverwrites
<1>2. CASE ~Writes(m.flags)
  <2>1. Put(m, new) = <<>> /\ AfterWrite(m, new) = m
    BY <1>2 DEF Put, AfterWrite
  <2>2. m.cursor \in Nat /\ m.size \in Nat /\ m.cursor <= m.size
    BY DEF Sound, Memory
  <2>3. View(m) \in Seq(Stored) /\ Len(View(m)) = m.size
    BY ViewIs
  <2>4. Abstract!Overwritten(View(m), m.cursor, <<>>) = [i \in 1 .. m.size |-> View(m)[i]]
    BY <2>2, <2>3 DEF Abstract!Overwritten
  <2>5. View(m) = [i \in 1 .. m.size |-> View(m)[i]]
    BY <2>3
  <2>6. m.cursor + Len(<<>>) = m.cursor
    BY <2>2
  <2>7. QED BY <2>1, <2>4, <2>5, <2>6
<1>3. QED BY <1>1, <1>2

\* What users see of the streams.
BytesNow == [s \in Streams |-> IF stream[s] = NoStream THEN <<>> ELSE View(stream[s])]
CursorsNow == [s \in Streams |-> IF stream[s] = NoStream THEN 0 ELSE stream[s].cursor]
ViewOf(m) == IF m = NoStream THEN <<>> ELSE View(m)
CursorOf(m) == IF m = NoStream THEN 0 ELSE m.cursor
AbsMax == Greater(MaxWrite, CopySize)

LEMMA StreamChanges ==
  ASSUME StreamsSound, NEW s \in Streams, NEW m, m = NoStream \/ Sound(m), stream' = [stream EXCEPT ![s] = m]
  PROVE  /\ StreamsSound' /\ stream'[s] = m /\ \A t \in Streams \ {s} : stream'[t] = stream[t]
         /\ BytesNow' = [BytesNow EXCEPT ![s] = ViewOf(m)]
         /\ CursorsNow' = [CursorsNow EXCEPT ![s] = CursorOf(m)]
<1>1. stream = [t \in Streams |-> stream[t]] /\ \A t \in Streams : stream[t] = NoStream \/ Sound(stream[t])
  BY DEF StreamsSound
<1>2. /\ stream' = [t \in Streams |-> stream'[t]] /\ stream'[s] = m
      /\ \A t \in Streams \ {s} : stream'[t] = stream[t]
  BY <1>1
<1>3. StreamsSound'
  <2>1. ASSUME NEW t \in Streams PROVE stream'[t] = NoStream \/ Sound(stream'[t])
    BY <1>1, <1>2
  <2>2. QED BY <1>2, <2>1 DEF StreamsSound, Sound
<1>4. BytesNow' = [BytesNow EXCEPT ![s] = ViewOf(m)]
  <2>1. BytesNow' = [t \in Streams |-> ViewOf(stream'[t])] /\ BytesNow = [t \in Streams |-> ViewOf(stream[t])]
    BY DEF BytesNow, ViewOf, View
  <2>2. QED BY <1>2, <2>1
<1>5. CursorsNow' = [CursorsNow EXCEPT ![s] = CursorOf(m)]
  <2>1. CursorsNow' = [t \in Streams |-> CursorOf(stream'[t])] /\ CursorsNow = [t \in Streams |-> CursorOf(stream[t])]
    BY DEF CursorsNow, CursorOf
  <2>2. QED BY <1>2, <2>1
<1>6. QED BY <1>2, <1>3, <1>4, <1>5

LEMMA SeenOf ==
  ASSUME StreamsSound, NEW s \in Streams, stream[s] # NoStream
  PROVE  Sound(stream[s]) /\ BytesNow[s] = View(stream[s]) /\ CursorsNow[s] = stream[s].cursor
BY DEF StreamsSound, BytesNow, CursorsNow

LEMMA WritesToo == MaxWrite \in Nat /\ CopySize \in Nat \ {0} /\ AbsMax \in Nat /\ MaxWrite <= AbsMax /\ CopySize <= AbsMax
BY MemStreamAssumption DEF AbsMax, Greater

LEMMA OpenStep ==
  ASSUME StreamInv, NEW s \in Streams, NEW b \in Data, NEW f \in Flags, NEW o \in BOOLEAN, Open(s, b, f, o)
  PROVE  StreamInv' /\ Abstract!Open(s)
<1> DEFINE fresh == Writes(f) /\ (~o \/ b = <<>>)
           buf == IF fresh THEN Resized(b, Rounded(Len(b))) ELSE b
           at == IF "append" \in f THEN Len(b) ELSE 0
           m == [buffer |-> buf, cursor |-> at, size |-> Len(b), flags |-> f, owner |-> o \/ fresh]
<1>1. stream' = [stream EXCEPT ![s] = m] /\ copy' = NoStream /\ StreamsSound
  BY DEF Open, StreamInv
<1>2. PICK n \in 0 .. MaxWrite : b \in [1 .. n -> UserBytes]
  BY DEF Data
<1>3. b \in Seq(Stored) /\ Len(b) = n /\ b \in [1 .. n -> Stored]
  BY <1>2 DEF Stored
<1>4. buf \in Seq(Stored) /\ Len(buf) >= n /\ \A i \in 1 .. n : buf[i] = b[i]
  <2>1. CASE fresh
    <3> DEFINE r == Rounded(n)
    <3>1. r \in Nat /\ r >= n
      BY RoundedUp
    <3> HIDE DEF r
    <3>2. Resized(b, r) \in Seq(Stored) /\ Len(Resized(b, r)) = r
          /\ \A i \in 1 .. r : i <= Len(b) => Resized(b, r)[i] = b[i]
      BY <1>3, <3>1, ResizedTo
    <3>3. buf = Resized(b, r)
      BY <1>3, <2>1 DEF r
    <3> HIDE DEF buf
    <3>4. QED BY <1>3, <3>1, <3>2, <3>3
  <2>2. CASE ~fresh
    BY <1>3, <2>2
  <2>3. QED BY <2>1, <2>2
<1>5. at \in Nat /\ at <= n /\ f \in SUBSET {"read", "write", "append"}
  BY <1>3 DEF Flags
<1>6. (o \/ fresh) \in BOOLEAN
  OBVIOUS
<1> HIDE DEF fresh, buf
<1>7. Sound(m)
  BY <1>3, <1>4, <1>5, <1>6 DEF Sound, Memory
<1>8. View(m) = b
  <2>1. SubSeq(buf, 1, n) = SubSeq(b, 1, n)
    BY <1>3, <1>4, SameView
  <2>2. SubSeq(b, 1, n) = b
    BY <1>3
  <2>3. QED BY <1>3, <2>1, <2>2 DEF View
<1>9. m.cursor = at /\ m # NoStream
  <2>1. m \in Memory
    BY <1>7 DEF Sound
  <2> HIDE DEF m
  <2>2. m # NoStream
    BY <2>1, MemStreamAssumption
  <2>3. QED BY <2>2 DEF m
<1> HIDE DEF m, at
<1>10. StreamsSound' /\ BytesNow' = [BytesNow EXCEPT ![s] = b] /\ CursorsNow' = [CursorsNow EXCEPT ![s] = at]
  BY <1>1, <1>7, <1>8, <1>9, StreamChanges DEF ViewOf, CursorOf
<1>11. CopySound'
  BY <1>1 DEF CopySound
<1>12. b \in UNION {[1 .. k -> UserBytes \cup {0}] : k \in 0 .. AbsMax}
  <2>1. n \in 0 .. AbsMax
    BY WritesToo
  <2>2. QED BY <1>3, <2>1 DEF Stored
<1>13. BytesNow'[s] = b
  BY <1>10 DEF BytesNow
<1>14. at = 0 \/ at = Len(BytesNow'[s])
  BY <1>13 DEF at
<1>15. Abstract!Open(s)
  <2>1. BytesNow' \in {[BytesNow EXCEPT ![s] = x] : x \in UNION {[1 .. k -> UserBytes \cup {0}] : k \in 0 .. AbsMax}}
    BY <1>10, <1>12
  <2>2. CursorsNow' \in {[CursorsNow EXCEPT ![s] = 0], [CursorsNow EXCEPT ![s] = Len(BytesNow'[s])]}
    BY <1>10, <1>14
  <2>3. QED BY <2>1, <2>2 DEF Abstract!Open, BytesNow, CursorsNow, AbsMax, View
<1>16. QED BY <1>10, <1>11, <1>15 DEF StreamInv

LEMMA ReadStep ==
  ASSUME StreamInv, NEW s \in Streams, NEW n \in 1 .. MaxWrite, Read(s, n)
  PROVE  StreamInv' /\ Abstract!Next
<1> DEFINE m == stream[s]
           k == ReadCount(m, n)
<1>1. stream' = [stream EXCEPT ![s] = AfterRead(m, n)] /\ copy' = NoStream /\ StreamsSound /\ m # NoStream
  BY DEF Read, StreamInv
<1>2. Sound(m) /\ BytesNow[s] = View(m) /\ CursorsNow[s] = m.cursor
  BY <1>1, SeenOf
<1>3. n \in Nat
  BY WritesToo
<1> HIDE DEF m
<1>4. /\ k \in 0 .. n /\ m.cursor + k <= m.size /\ Sound(AfterRead(m, n))
      /\ AfterRead(m, n).cursor = m.cursor + k /\ View(AfterRead(m, n)) = View(m)
  BY <1>2, <1>3, ReadKeeps
<1> HIDE DEF k
<1>5. AfterRead(m, n) # NoStream
  BY <1>4, MemStreamAssumption DEF Sound
<1>6. /\ StreamsSound' /\ BytesNow' = [BytesNow EXCEPT ![s] = View(m)]
      /\ CursorsNow' = [CursorsNow EXCEPT ![s] = m.cursor + k]
  <2> DEFINE r == AfterRead(m, n)
  <2>1. ViewOf(r) = View(m) /\ CursorOf(r) = m.cursor + k
    BY <1>4, <1>5 DEF ViewOf, CursorOf
  <2>2. Sound(r) /\ stream' = [stream EXCEPT ![s] = r]
    BY <1>1, <1>4
  <2> HIDE DEF r
  <2>3. StreamsSound' /\ BytesNow' = [BytesNow EXCEPT ![s] = ViewOf(r)] /\ CursorsNow' = [CursorsNow EXCEPT ![s] = CursorOf(r)]
    BY <1>1, <2>2, StreamChanges
  <2>4. QED BY <2>1, <2>3
<1>7. BytesNow' = BytesNow
  BY <1>2, <1>6 DEF BytesNow
<1>8. k \in 0 .. AbsMax
  BY <1>4, WritesToo
<1>9. CursorsNow[s] + k <= Len(BytesNow[s])
  BY <1>2, <1>4, ViewIs
<1>10. PICK j \in 0 .. AbsMax : j = k
  BY <1>8
<1>11. Abstract!Next
  <2>1. CursorsNow' = [CursorsNow EXCEPT ![s] = CursorsNow[s] + j] /\ CursorsNow[s] + j <= Len(BytesNow[s])
    BY <1>2, <1>6, <1>9, <1>10
  <2>2. Abstract!Read(s, j)
    BY <1>7, <2>1 DEF Abstract!Read, BytesNow, CursorsNow, View
  <2>3. QED BY <2>2 DEF Abstract!Next, AbsMax
<1>12. CopySound'
  BY <1>1 DEF CopySound
<1>13. QED BY <1>6, <1>11, <1>12 DEF StreamInv

LEMMA CloseStep ==
  ASSUME StreamInv, NEW s \in Streams, Close(s)
  PROVE  StreamInv' /\ Abstract!Close(s)
<1>1. stream' = [stream EXCEPT ![s] = NoStream] /\ copy' = NoStream /\ StreamsSound
  BY DEF Close, StreamInv
<1>2. /\ StreamsSound' /\ BytesNow' = [BytesNow EXCEPT ![s] = <<>>]
      /\ CursorsNow' = [CursorsNow EXCEPT ![s] = 0]
  BY <1>1, StreamChanges DEF ViewOf, CursorOf
<1>3. CopySound'
  BY <1>1 DEF CopySound
<1>4. Abstract!Close(s)
  BY <1>2 DEF Abstract!Close, BytesNow, CursorsNow, View
<1>5. QED BY <1>2, <1>3, <1>4 DEF StreamInv

LEMMA WriteStep ==
  ASSUME StreamInv, NEW s \in Streams, NEW d \in Data, Write(s, d)
  PROVE  StreamInv' /\ Abstract!Next
<1> DEFINE m == stream[s]
           w == AfterWrite(m, d)
           new == Put(m, d)
<1>1. stream' = [stream EXCEPT ![s] = w] /\ copy' = NoStream /\ StreamsSound /\ m # NoStream
  BY DEF Write, StreamInv
<1>2. Sound(m) /\ BytesNow[s] = View(m) /\ CursorsNow[s] = m.cursor
  BY <1>1, SeenOf
<1>3. CopySound'
  BY <1>1 DEF CopySound
<1>4. PICK k \in 0 .. MaxWrite : d \in [1 .. k -> UserBytes]
  BY DEF Data
<1>5. d \in Seq(Stored)
  BY <1>4 DEF Stored
<1> HIDE DEF m
<1>6. PICK n \in 0 .. AbsMax : new \in [1 .. n -> UserBytes \cup {0}]
  <2>1. CASE Writes(m.flags)
    BY <1>4, <2>1, WritesToo DEF Put
  <2>2. CASE ~Writes(m.flags)
    <3>1. new \in [1 .. 0 -> UserBytes \cup {0}] /\ 0 \in 0 .. AbsMax
      BY <2>2, WritesToo DEF Put
    <3>2. QED BY <3>1
  <2>3. QED BY <2>1, <2>2
<1>7. Sound(w) /\ w.cursor = m.cursor + Len(new) /\ View(w) = Abstract!Overwritten(View(m), m.cursor, new)
  BY <1>2, <1>5, WriteIsOverwrite
<1> HIDE DEF w
<1>8. ViewOf(w) = View(w) /\ CursorOf(w) = w.cursor
  BY <1>7, MemStreamAssumption DEF ViewOf, CursorOf, Sound
<1>9. StreamsSound' /\ BytesNow' = [BytesNow EXCEPT ![s] = ViewOf(w)] /\ CursorsNow' = [CursorsNow EXCEPT ![s] = CursorOf(w)]
  BY <1>1, <1>7, StreamChanges
<1>10. PICK x \in [1 .. n -> UserBytes \cup {0}] : x = new
  BY <1>6
<1> HIDE DEF new
<1>11. /\ BytesNow' = [BytesNow EXCEPT ![s] = Abstract!Overwritten(BytesNow[s], CursorsNow[s], x)]
       /\ CursorsNow' = [CursorsNow EXCEPT ![s] = CursorsNow[s] + Len(x)]
  BY <1>2, <1>7, <1>8, <1>9, <1>10
<1>12. Abstract!Write(s, x)
  BY <1>11 DEF Abstract!Write, BytesNow, CursorsNow, View
<1>13. Abstract!Next
  BY <1>12 DEF Abstract!Next, AbsMax
<1>14. QED BY <1>3, <1>9, <1>13 DEF StreamInv

LEMMA StartCopyStep ==
  ASSUME StreamInv, NEW s \in Streams, NEW t \in Streams, NEW n \in 1 .. MaxBytes, StartCopy(s, t, n)
  PROVE  StreamInv' /\ BytesNow' = BytesNow /\ CursorsNow' = CursorsNow
<1> DEFINE m == stream[t]
           larger == [m EXCEPT !.buffer = Resized(m.buffer, Rounded(n))]
<1>1. /\ s # t /\ m # NoStream /\ stream[s] # NoStream /\ StreamsSound
      /\ copy' = [from |-> s, to |-> t, left |-> n, taken |-> <<>>, ok |-> NoStream]
  BY DEF StartCopy, StreamInv
<1>2. Sound(m) /\ BytesNow[t] = View(m) /\ CursorsNow[t] = m.cursor
  BY <1>1, SeenOf
<1>3. PICK r : Sound(r) /\ View(r) = View(m) /\ r.cursor = m.cursor /\ r.flags = m.flags /\ stream' = [stream EXCEPT ![t] = r]
  <2>1. CASE m.buffer # <<>> /\ Len(m.buffer) < n
    <3> DEFINE c == Rounded(n)
               b == Resized(m.buffer, c)
    <3>1. m \in Memory /\ m.buffer \in Seq(Stored) /\ m.size \in Nat /\ m.size <= Len(m.buffer) /\ m.cursor <= m.size
      BY <1>2 DEF Sound, Memory
    <3>2. c \in Nat /\ c >= n
      BY RoundedUp, MemStreamAssumption
    <3> HIDE DEF c
    <3>3. b \in Seq(Stored) /\ Len(b) = c /\ \A i \in 1 .. c : i <= Len(m.buffer) => b[i] = m.buffer[i]
      BY <3>1, <3>2, ResizedTo
    <3>4. stream' = [stream EXCEPT ![t] = larger]
      BY <2>1 DEF StartCopy
    <3>5. larger = [m EXCEPT !.buffer = b]
      BY DEF b, c
    <3> HIDE DEF b, larger, m
    <3>6. larger \in Memory /\ larger.buffer = b /\ larger.size = m.size /\ larger.cursor = m.cursor /\ larger.flags = m.flags
      BY <3>1, <3>3, <3>5 DEF Memory
    <3>7. m.size <= Len(b)
      BY <2>1, <3>1, <3>2, <3>3
    <3>8. \A i \in 1 .. m.size : b[i] = m.buffer[i]
      BY <3>1, <3>3, <3>7
    <3>9. View(larger) = View(m)
      <4>1. SubSeq(b, 1, m.size) = SubSeq(m.buffer, 1, m.size)
        BY <3>1, <3>3, <3>7, <3>8, SameView
      <4>2. QED BY <3>6, <4>1 DEF View
    <3>10. Sound(larger)
      BY <3>1, <3>6, <3>7 DEF Sound
    <3>11. QED BY <3>4, <3>6, <3>9, <3>10
  <2>2. CASE ~ (m.buffer # <<>> /\ Len(m.buffer) < n)
    <3>1. stream' = stream
      BY <2>2 DEF StartCopy
    <3>2. stream' = [stream EXCEPT ![t] = m]
      BY <1>1, <3>1 DEF StreamsSound
    <3>3. QED BY <1>2, <3>2
  <2>3. QED BY <2>1, <2>2
<1> HIDE DEF m
<1>4. r # NoStream
  BY <1>3, MemStreamAssumption DEF Sound
<1>5. ViewOf(r) = View(m) /\ CursorOf(r) = m.cursor
  BY <1>3, <1>4 DEF ViewOf, CursorOf
<1>6. /\ StreamsSound' /\ stream'[t] = r /\ (\A u \in Streams \ {t} : stream'[u] = stream[u])
      /\ BytesNow' = [BytesNow EXCEPT ![t] = ViewOf(r)] /\ CursorsNow' = [CursorsNow EXCEPT ![t] = CursorOf(r)]
  BY <1>1, <1>3, StreamChanges
<1>7. BytesNow' = BytesNow /\ CursorsNow' = CursorsNow
  BY <1>2, <1>5, <1>6 DEF BytesNow, CursorsNow
<1>8. CopySound'
  <2>1. /\ copy'.from = s /\ copy'.to = t /\ copy'.left = n /\ copy'.taken = <<>> /\ copy'.ok = NoStream
        /\ n \in Nat /\ n > 0
    BY <1>1, MemStreamAssumption
  <2>2. copy' \in Copying
    BY <1>1, <2>1 DEF Copying
  <2>3. stream'[s] # NoStream /\ stream'[t] # NoStream
    BY <1>1, <1>4, <1>6
  <2>4. KeptIn(r, <<>>)
    BY <1>3 DEF KeptIn, Sound, Memory
  <2>5. copy'.ok # TRUE
    BY <2>1, MemStreamAssumption
  <2>6. QED BY <1>1, <1>6, <2>1, <2>2, <2>3, <2>4, <2>5 DEF CopySound, KeptIn
<1>9. QED BY <1>6, <1>7, <1>8 DEF StreamInv

LEMMA CopyEndsStep ==
  ASSUME StreamInv, CopyEnds
  PROVE  StreamInv' /\ BytesNow' = BytesNow /\ CursorsNow' = CursorsNow
<1>1. stream' = stream /\ copy # NoStream /\ copy \in Copying
  BY DEF CopyEnds, StreamInv, CopySound
<1>2. StreamsSound' /\ BytesNow' = BytesNow /\ CursorsNow' = CursorsNow
  BY <1>1 DEF StreamInv, StreamsSound, BytesNow, CursorsNow, Sound, View
<1>3. CASE copy.ok = NoStream
  <2>1. copy.left = 0 /\ copy' = [copy EXCEPT !.ok = TRUE] /\ copy.ok # FALSE
    BY <1>3, MemStreamAssumption DEF CopyEnds
  <2>2. /\ copy'.from = copy.from /\ copy'.to = copy.to /\ copy'.left = 0 /\ copy'.taken = copy.taken
        /\ copy' \in Copying
    BY <1>1, <2>1 DEF Copying
  <2>3. QED BY <1>1, <1>2, <2>1, <2>2 DEF StreamInv, CopySound, KeptIn
<1>4. CASE copy.ok # NoStream
  <2>1. copy' = NoStream
    BY <1>4 DEF CopyEnds
  <2>2. QED BY <1>2, <2>1 DEF StreamInv, CopySound
<1>5. QED BY <1>3, <1>4
\* Two streams change at once.
LEMMA TwoStreamsChange ==
  ASSUME StreamsSound, NEW s \in Streams, NEW t \in Streams, s # t, NEW m, Sound(m), NEW w, Sound(w),
         stream' = [stream EXCEPT ![s] = m, ![t] = w]
  PROVE  /\ StreamsSound' /\ stream'[s] = m /\ stream'[t] = w
         /\ BytesNow' = [BytesNow EXCEPT ![s] = View(m), ![t] = View(w)]
         /\ CursorsNow' = [CursorsNow EXCEPT ![s] = m.cursor, ![t] = w.cursor]
<1>1. stream = [u \in Streams |-> stream[u]] /\ \A u \in Streams : stream[u] = NoStream \/ Sound(stream[u])
  BY DEF StreamsSound
<1>2. /\ stream' = [u \in Streams |-> stream'[u]] /\ stream'[s] = m /\ stream'[t] = w
      /\ \A u \in Streams \ {s, t} : stream'[u] = stream[u]
  BY <1>1
<1>3. StreamsSound'
  <2>1. ASSUME NEW u \in Streams PROVE stream'[u] = NoStream \/ Sound(stream'[u])
    BY <1>1, <1>2
  <2>2. QED BY <1>2, <2>1 DEF StreamsSound, Sound
<1>4. m # NoStream /\ w # NoStream
  BY MemStreamAssumption DEF Sound
<1>5. BytesNow' = [BytesNow EXCEPT ![s] = View(m), ![t] = View(w)]
  <2>1. BytesNow' = [u \in Streams |-> ViewOf(stream'[u])] /\ BytesNow = [u \in Streams |-> ViewOf(stream[u])]
    BY DEF BytesNow, ViewOf, View
  <2>2. ViewOf(m) = View(m) /\ ViewOf(w) = View(w)
    BY <1>4 DEF ViewOf
  <2>3. QED BY <1>2, <2>1, <2>2
<1>6. CursorsNow' = [CursorsNow EXCEPT ![s] = m.cursor, ![t] = w.cursor]
  <2>1. CursorsNow' = [u \in Streams |-> CursorOf(stream'[u])] /\ CursorsNow = [u \in Streams |-> CursorOf(stream[u])]
    BY DEF CursorsNow, CursorOf
  <2>2. CursorOf(m) = m.cursor /\ CursorOf(w) = w.cursor
    BY <1>4 DEF CursorOf
  <2>3. QED BY <1>2, <2>1, <2>2
<1>7. QED BY <1>2, <1>3, <1>5, <1>6

\* What is written after the bytes that were taken is held with them.
LEMMA KeptOn ==
  ASSUME NEW m, Sound(m), NEW sofar \in Seq(Stored), NEW new \in Seq(Stored), Writes(m.flags), KeptIn(m, sofar)
  PROVE  KeptIn(AfterWrite(m, new), sofar \o new)
<1> DEFINE w == AfterWrite(m, new)
           all == sofar \o new
<1>1. /\ Sound(w) /\ w.cursor = m.cursor + Len(new)
      /\ \A i \in 1 .. Len(new) : w.buffer[m.cursor + i] = new[i]
      /\ \A i \in 1 .. Len(m.buffer) : (i <= m.cursor \/ i > w.cursor) => w.buffer[i] = m.buffer[i]
  BY WriteKeeps
<1>2. m.cursor \in Nat /\ m.cursor <= Len(m.buffer) /\ m.buffer \in Seq(Stored)
  BY DEF Sound, Memory
<1>3. /\ Len(sofar) \in Nat /\ Len(new) \in Nat /\ Len(sofar) <= m.cursor /\ Len(all) = Len(sofar) + Len(new)
      /\ \A i \in 1 .. Len(sofar) : m.buffer[m.cursor - Len(sofar) + i] = sofar[i] /\ all[i] = sofar[i]
      /\ \A i \in 1 .. Len(new) : all[Len(sofar) + i] = new[i]
  BY DEF KeptIn
<1> HIDE DEF w, all
<1>4. ASSUME NEW i \in 1 .. Len(all) PROVE w.buffer[w.cursor - Len(all) + i] = all[i]
  <2>1. w.cursor - Len(all) + i = m.cursor - Len(sofar) + i
    BY <1>1, <1>2, <1>3
  <2>2. CASE i <= Len(sofar)
    <3>1. i \in 1 .. Len(sofar) /\ m.cursor - Len(sofar) + i \in 1 .. Len(m.buffer) /\ m.cursor - Len(sofar) + i <= m.cursor
      BY <1>2, <1>3, <2>2
    <3>2. QED BY <1>1, <1>3, <2>1, <3>1
  <2>3. CASE i > Len(sofar)
    <3> DEFINE j == i - Len(sofar)
    <3>1. j \in 1 .. Len(new) /\ m.cursor - Len(sofar) + i = m.cursor + j /\ Len(sofar) + j = i
      BY <1>2, <1>3, <2>3
    <3> HIDE DEF j
    <3>2. QED BY <1>1, <1>3, <2>1, <3>1
  <2>4. QED BY <1>3, <2>2, <2>3
<1>5. Len(all) <= w.cursor
  BY <1>1, <1>2, <1>3
<1>6. KeptIn(w, all)
  BY <1>4, <1>5 DEF KeptIn
<1>7. QED BY <1>6 DEF w, all

LEMMA CopyTurnStep ==
  ASSUME StreamInv, CopyTurn
  PROVE  StreamInv' /\ (Abstract!Next \/ (BytesNow' = BytesNow /\ CursorsNow' = CursorsNow))
<1>0. PICK s \in Streams, t \in Streams : s = copy.from /\ t = copy.to
  BY DEF CopyTurn, StreamInv, CopySound, Copying
<1> DEFINE f == stream[s]
           m == stream[t]
           bound == Least(copy.left, CopySize)
           read == ReadCount(f, bound)
           data == [i \in 1 .. bound |-> IF i <= read THEN f.buffer[f.cursor + i] ELSE 0]
           part == SubSeq(f.buffer, f.cursor + 1, f.cursor + read)
           wrote == IF Writes(m.flags) THEN bound ELSE 0
           fr == AfterRead(f, bound)
           wr == AfterWrite(m, data)
<1>1. /\ copy # NoStream /\ copy.ok = NoStream /\ copy.left > 0 /\ StreamsSound
      /\ copy \in Copying /\ s # t /\ f # NoStream /\ m # NoStream
      /\ copy.left > 0 \/ Writes(m.flags)
      /\ KeptIn(m, copy.taken)
  BY <1>0, MemStreamAssumption DEF CopyTurn, StreamInv, CopySound
<1>2. copy.left \in Nat /\ copy.taken \in Seq(Stored)
  BY <1>1 DEF Copying
<1>3. Sound(f) /\ BytesNow[s] = View(f) /\ CursorsNow[s] = f.cursor
  BY <1>1, <1>2, SeenOf
<1>4. Sound(m) /\ BytesNow[t] = View(m) /\ CursorsNow[t] = m.cursor
  BY <1>1, <1>2, SeenOf
<1>5. bound \in 1 .. AbsMax /\ bound \in Nat /\ bound <= copy.left
  BY <1>1, <1>2, WritesToo DEF Least
<1>6. IF read = 0
      THEN copy' = [copy EXCEPT !.ok = FALSE] /\ UNCHANGED stream
      ELSE /\ stream' = [stream EXCEPT ![s] = fr, ![t] = wr]
           /\ copy' = IF TurnOk(read, wrote) THEN [copy EXCEPT !.left = @ - bound, !.taken = @ \o part]
                      ELSE [copy EXCEPT !.ok = FALSE]
  BY <1>0 DEF CopyTurn
<1> HIDE DEF f, m, bound
<1>7. /\ read \in 0 .. bound /\ f.cursor + read <= f.size /\ Sound(fr)
      /\ fr.cursor = f.cursor + read /\ View(fr) = View(f)
  BY <1>3, <1>5, ReadKeeps
<1> HIDE DEF read
<1>8. /\ f.buffer \in Seq(Stored) /\ f.cursor \in Nat /\ f.size \in Nat /\ f.size <= Len(f.buffer)
      /\ m.cursor \in Nat
  BY <1>3, <1>4 DEF Sound, Memory
<1>9. data \in [1 .. bound -> Stored]
  <2>1. ASSUME NEW i \in 1 .. bound, i <= read PROVE f.buffer[f.cursor + i] \in Stored
    <3>1. f.cursor + i \in 1 .. Len(f.buffer)
      BY <1>5, <1>7, <1>8, <2>1
    <3>2. QED BY <1>8, <3>1
  <2>2. 0 \in Stored
    BY DEF Stored
  <2>3. QED BY <2>1, <2>2
<1>10. part \in Seq(Stored) /\ Len(part) = read /\ \A i \in 1 .. read : part[i] = f.buffer[f.cursor + i]
  <2>1. read \in Nat /\ f.cursor + read <= Len(f.buffer)
    BY <1>5, <1>7, <1>8
  <2>2. QED BY <1>8, <2>1, PartOf
<1>11. read = bound => data = part
  <2>1. ASSUME read = bound, NEW i \in 1 .. bound PROVE data[i] = part[i]
    BY <1>5, <1>10, <2>1
  <2>2. data = [i \in 1 .. bound |-> data[i]]
    BY <1>9
  <2>3. part = [i \in 1 .. read |-> part[i]]
    <3>1. part \in Seq(Stored) /\ Len(part) = read
      BY <1>10
    <3> HIDE DEF part
    <3>2. QED BY <3>1
  <2> HIDE DEF data, part
  <2>4. QED BY <2>1, <2>2, <2>3
<1> HIDE DEF data, part
<1>12. data \in Seq(Stored) /\ Len(data) = bound
  BY <1>5, <1>9
<1>13. /\ Sound(wr) /\ wr.flags = m.flags /\ wr.cursor = m.cursor + Len(Put(m, data))
       /\ View(wr) = Abstract!Overwritten(View(m), m.cursor, Put(m, data))
  BY <1>4, <1>12, WriteIsOverwrite
<1> HIDE DEF fr
<1>14. CASE read = 0
  <2>1. copy' = [copy EXCEPT !.ok = FALSE] /\ stream' = stream
    BY <1>6, <1>14
  <2>2. StreamsSound' /\ BytesNow' = BytesNow /\ CursorsNow' = CursorsNow
    BY <1>1, <2>1 DEF StreamsSound, BytesNow, CursorsNow, Sound, View
  <2>3. copy' \in Copying /\ copy'.from = s /\ copy'.to = t /\ copy'.ok = FALSE
    BY <1>0, <1>1, <2>1 DEF Copying
  <2>4. CopySound'
    BY <1>1, <2>1, <2>3 DEF CopySound, f, m
  <2>5. QED BY <2>2, <2>4 DEF StreamInv
<1>15. CASE read # 0
  <2>1. stream' = [stream EXCEPT ![s] = fr, ![t] = wr]
    BY <1>6, <1>15
  <2>2. /\ StreamsSound' /\ stream'[s] = fr /\ stream'[t] = wr
        /\ BytesNow' = [BytesNow EXCEPT ![s] = View(fr), ![t] = View(wr)]
        /\ CursorsNow' = [CursorsNow EXCEPT ![s] = fr.cursor, ![t] = wr.cursor]
    <3> HIDE DEF wr
    <3>1. Sound(fr) /\ Sound(wr) /\ StreamsSound /\ s # t
      BY <1>1, <1>7, <1>13
    <3>2. QED BY <2>1, <3>1, TwoStreamsChange, Zenon
  <2>3. fr # NoStream /\ wr # NoStream
    BY <1>7, <1>13, MemStreamAssumption DEF Sound
  <2>4. ASSUME TurnOk(read, wrote) PROVE CopySound'
    <3>1. Writes(m.flags) /\ bound = read
      BY <1>15, <2>4 DEF TurnOk
    <3>2. copy' = [copy EXCEPT !.left = @ - bound, !.taken = @ \o part]
      BY <1>6, <1>15, <2>4
    <3>3. copy.taken \o part \in Seq(Stored) /\ copy.left - bound \in Nat
      BY <1>2, <1>5, <1>10
    <3>4. /\ copy' \in Copying /\ copy'.from = s /\ copy'.to = t /\ copy'.ok = NoStream
          /\ copy'.taken = copy.taken \o part
      BY <1>0, <1>1, <3>2, <3>3 DEF Copying
    <3>5. data = part
      BY <1>11, <3>1
    <3>6. KeptIn(wr, copy.taken \o part)
      BY <1>1, <1>2, <1>4, <1>12, <3>1, <3>5, KeptOn
    <3> HIDE DEF wr
    <3>7. QED
      BY <1>1, <1>13, <2>2, <2>3, <3>1, <3>4, <3>6, MemStreamAssumption DEF CopySound, KeptIn
  <2>5. ASSUME ~TurnOk(read, wrote) PROVE CopySound'
    <3>1. copy' = [copy EXCEPT !.ok = FALSE]
      BY <1>6, <1>15, <2>5
    <3>2. copy' \in Copying /\ copy'.from = s /\ copy'.to = t /\ copy'.ok = FALSE
      BY <1>0, <1>1, <3>1 DEF Copying
    <3> HIDE DEF wr
    <3>3. QED
      BY <1>1, <2>2, <2>3, <3>2 DEF CopySound
  <2>6. Abstract!Next
    <3> DEFINE new == Put(m, data)
    <3>1. PICK n \in 0 .. AbsMax : new \in [1 .. n -> UserBytes \cup {0}]
      <4>1. CASE Writes(m.flags)
        BY <1>5, <1>9, <4>1 DEF Put, Stored
      <4>2. CASE ~Writes(m.flags)
        <5>1. new = <<>> /\ 0 \in 0 .. AbsMax
          BY <4>2, WritesToo DEF Put
        <5>2. new \in [1 .. 0 -> UserBytes \cup {0}]
          BY <5>1
        <5>3. QED BY <5>1, <5>2
      <4>3. QED BY <4>1, <4>2
    <3>2. PICK j \in 0 .. AbsMax : j = read
      BY <1>5, <1>7, WritesToo
    <3>3. PICK x \in [1 .. n -> UserBytes \cup {0}] : x = new
      BY <3>1
    <3>6. CursorsNow[s] + j <= Len(BytesNow[s])
      BY <1>3, <1>7, <3>2, ViewIs
    <3> HIDE DEF new, wr
    <3>7. BytesNow' = [BytesNow EXCEPT ![t] = Abstract!Overwritten(BytesNow[t], CursorsNow[t], x)]
      <4>1. View(fr) = BytesNow[s]
        BY <1>3, <1>7
      <4>2. View(wr) = Abstract!Overwritten(BytesNow[t], CursorsNow[t], x)
        BY <1>4, <1>13, <3>3 DEF new
      <4>3. [BytesNow EXCEPT ![s] = View(fr)] = BytesNow
        BY <4>1 DEF BytesNow
      <4>4. QED BY <2>2, <4>2, <4>3
    <3>8. CursorsNow' = [CursorsNow EXCEPT ![s] = CursorsNow[s] + j, ![t] = CursorsNow[t] + Len(x)]
      <4>1. fr.cursor = CursorsNow[s] + j
        BY <1>3, <1>7, <3>2
      <4>2. wr.cursor = CursorsNow[t] + Len(x)
        BY <1>4, <1>13, <3>3 DEF new
      <4>3. QED BY <2>2, <4>1, <4>2
    <3>9. Abstract!Copy(s, t, j, x)
      BY <1>1, <3>6, <3>7, <3>8 DEF Abstract!Copy, BytesNow, CursorsNow, View
    <3>10. QED BY <1>1, <3>9 DEF Abstract!Next, AbsMax
  <2>7. QED BY <2>2, <2>4, <2>5, <2>6 DEF StreamInv
<1>16. QED BY <1>14, <1>15

LEMMA StreamStep ==
  ASSUME StreamInv, [StreamNext]_streamVars
  PROVE  StreamInv' /\ [Abstract!Next]_(Abstract!vars)
<1>1. SUFFICES StreamInv' /\ (Abstract!Next \/ (BytesNow' = BytesNow /\ CursorsNow' = CursorsNow))
  BY DEF Abstract!vars, BytesNow, CursorsNow, View
<1>2. CASE UNCHANGED streamVars
  <2>1. stream' = stream /\ copy' = copy
    BY <1>2 DEF streamVars
  <2>2. QED BY <2>1 DEF StreamInv, StreamsSound, CopySound, BytesNow, CursorsNow, Sound, KeptIn, View
<1>3. ASSUME NEW s \in Streams, NEW b \in Data, NEW f \in Flags, NEW o \in BOOLEAN, Open(s, b, f, o)
      PROVE  StreamInv' /\ Abstract!Next
  <2>1. StreamInv' /\ Abstract!Open(s)
    BY <1>3, OpenStep
  <2>2. QED BY <2>1 DEF Abstract!Next
<1>4. ASSUME NEW s \in Streams, Close(s) PROVE StreamInv' /\ Abstract!Next
  <2>1. StreamInv' /\ Abstract!Close(s)
    BY <1>4, CloseStep
  <2>2. QED BY <2>1 DEF Abstract!Next
<1>5. CASE CopyTurn
  BY <1>5, CopyTurnStep
<1>6. CASE CopyEnds
  BY <1>6, CopyEndsStep
<1>7. ASSUME NEW s \in Streams, NEW t \in Streams, NEW n \in 1 .. MaxBytes, StartCopy(s, t, n)
      PROVE  StreamInv' /\ BytesNow' = BytesNow /\ CursorsNow' = CursorsNow
  BY <1>7, StartCopyStep
<1>8. ASSUME NEW s \in Streams, NEW n \in 1 .. MaxWrite, Read(s, n) PROVE StreamInv' /\ Abstract!Next
  BY <1>8, ReadStep
<1>9. ASSUME NEW s \in Streams, NEW d \in Data, Write(s, d)
      PROVE  StreamInv' /\ Abstract!Next
  BY <1>9, WriteStep
<1>10. QED BY <1>2, <1>3, <1>4, <1>5, <1>6, <1>7, <1>8, <1>9 DEF StreamNext

\* What a copy that succeeds has copied.
LEMMA KeptIsCopied ==
  ASSUME StreamInv
  PROVE  CopiedIsExact
<1>1. SUFFICES ASSUME copy # NoStream, copy.ok = TRUE
               PROVE  LET to == stream[copy.to] IN
                      /\ Writes(to.flags) /\ to.cursor <= to.size
                      /\ SubSeq(to.buffer, to.cursor - Len(copy.taken) + 1, to.cursor) = copy.taken
  BY DEF CopiedIsExact
<1> DEFINE m == stream[copy.to]
           sofar == copy.taken
           part == SubSeq(m.buffer, m.cursor - Len(sofar) + 1, m.cursor)
<1>2. /\ copy \in Copying /\ copy.left = 0 /\ m # NoStream /\ StreamsSound
      /\ Writes(m.flags) /\ KeptIn(m, sofar)
  <2>1. copy.ok # FALSE
    BY <1>1
  <2>2. QED BY <1>1, <2>1 DEF StreamInv, CopySound
<1>3. copy.to \in Streams /\ sofar \in Seq(Stored)
  BY <1>2 DEF Copying
<1>4. Sound(m)
  BY <1>2, <1>3, SeenOf
<1> HIDE DEF m, sofar
<1>5. m.buffer \in Seq(Stored) /\ m.cursor \in Nat /\ m.size \in Nat /\ m.cursor <= m.size /\ m.size <= Len(m.buffer)
  BY <1>4 DEF Sound, Memory
<1>6. /\ Len(sofar) \in Nat /\ Len(sofar) <= m.cursor
      /\ \A i \in 1 .. Len(sofar) : m.buffer[m.cursor - Len(sofar) + i] = sofar[i]
  BY <1>2, <1>3 DEF KeptIn
<1>7. part \in Seq(Stored) /\ Len(part) = Len(sofar)
      /\ \A i \in 1 .. Len(sofar) : part[i] = m.buffer[m.cursor - Len(sofar) + i]
  <2> DEFINE from == m.cursor - Len(sofar)
  <2>1. from \in Nat /\ from + Len(sofar) = m.cursor /\ from + Len(sofar) <= Len(m.buffer)
    BY <1>5, <1>6
  <2> HIDE DEF from
  <2>2. /\ SubSeq(m.buffer, from + 1, from + Len(sofar)) \in Seq(Stored)
        /\ Len(SubSeq(m.buffer, from + 1, from + Len(sofar))) = Len(sofar)
        /\ \A i \in 1 .. Len(sofar) : SubSeq(m.buffer, from + 1, from + Len(sofar))[i] = m.buffer[from + i]
    BY <1>5, <1>6, <2>1, PartOf
  <2>3. part = SubSeq(m.buffer, from + 1, from + Len(sofar))
    BY <2>1 DEF from
  <2> HIDE DEF part
  <2>4. QED BY <2>2, <2>3 DEF from
<1> HIDE DEF part
<1>8. part = sofar
  BY <1>3, <1>6, <1>7
<1>9. QED BY <1>2, <1>5, <1>8 DEF m, sofar, part

\* Memory streams implement a byte stream, and a copy that says it succeeded
\* put the bytes of its source before the cursor of its destination, for every
\* number of streams, grow size and size of a copy's buffer.
THEOREM StreamsAreAbstract == StreamSpec => RefinesAbstractStream
<1>1. StreamInit => StreamInv /\ Abstract!Init
  BY DEF StreamInit, StreamInv, StreamsSound, CopySound, Abstract!Init
<1>2. StreamInv /\ [StreamNext]_streamVars => StreamInv' /\ [Abstract!Next]_(Abstract!vars)
  BY StreamStep
<1>3. StreamInv => CopiedIsExact
  BY KeptIsCopied
<1>4. QED BY <1>1, <1>2, <1>3, PTL DEF StreamSpec, Abstract!Spec, RefinesAbstractStream
=============================================================================
