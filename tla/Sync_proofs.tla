----------------------------- MODULE Sync_proofs -----------------------------
(***************************************************************************)
(* Machine-checked proofs about what fibers wait with: LfLifo, for any     *)
(* number of threads, elements and tags, as long as no thread is overtaken *)
(* by a whole round of tags; Future, for any number of threads and slots;  *)
(* Requests, for any number of fibers, objects, workers and repeats.       *)
(***************************************************************************)
EXTENDS LfLifo, Future, Requests, FiniteSetTheorems, FunctionTheorems, SequenceTheorems,
        WellFoundedInduction, TLAPS

(* LfLifo *******************************************************************)

\* s is the stack: its elements are different, the head is the first one and
\* the links lead from each to the next and from the last to Nil.
Linked(s) ==
  /\ s \in Seq(Elems)
  /\ \A i, j \in 1 .. Len(s) : s[i] = s[j] => i = j
  /\ head.top = IF s = <<>> THEN Nil ELSE s[1]
  /\ \A i \in 1 .. Len(s) : next[s[i]] = IF i = Len(s) THEN Nil ELSE s[i+1]

\* What nobody holds is on the stack, and nothing else is.
Covers(s) ==
  \A e \in Elems : (\E i \in 1 .. Len(s) : s[i] = e) <=> \A t \in Threads : e \notin held[t]

OneOwner == \A t, u \in Threads : t # u => held[t] \cap held[u] = {}

\* What t may rely on between its load of the head and its compare-and-swap:
\* the tag counts the swaps since, and while there was none, the link that t
\* read or wrote is the one its swap needs.
ThreadInv(t) ==
  /\ tpc[t] \in {"push_load", "push_link", "push_cas"} => elem[t] \in held[t]
  /\ Loaded(t) => head.tag = (snap[t].tag + age[t]) % TagMod
  /\ Loaded(t) /\ age[t] = 0 => snap[t] = head
  /\ tpc[t] = "push_cas" => next[elem[t]] = snap[t].top
  /\ tpc[t] = "pop_cas" =>
       snap[t].top # Nil /\ (age[t] = 0 => link[t] = next[snap[t].top])

StackInv ==
  /\ StackTypeOK
  /\ \E s \in Seq(Elems) : Linked(s) /\ Covers(s)
  /\ OneOwner
  /\ \A t \in Threads : ThreadInv(t)
-----------------------------------------------------------------------------
(***************************************************************************)
(* The links and the sequence they spell out                               *)
(***************************************************************************)
LEMMA LeastNumber ==
  ASSUME NEW T, T \subseteq Nat, T # {}
  PROVE  \E m \in T : \A n \in T : m <= n
<1>1. PICK m \in T : \A n \in T : ~ (<<n, m>> \in OpToRel(<, Nat))
  BY NatLessThanWellFounded, WFMin
<1>2. ASSUME NEW n \in T PROVE m <= n
  <2>1. m \in Nat /\ n \in Nat
    OBVIOUS
  <2>2. ~ (n < m)
    BY <1>1, <2>1 DEF OpToRel
  <2>3. QED BY <2>1, <2>2
<1>3. QED BY <1>2

\* A sequence of different elements is no longer than there are elements.
LEMMA ShortEnough ==
  ASSUME ElemAssumption, NEW s \in Seq(Elems),
         \A i, j \in 1 .. Len(s) : s[i] = s[j] => i = j
  PROVE  Len(s) <= Cardinality(Elems) /\ Len(s) \in Nat /\ Cardinality(Elems) \in Nat
<1>1. Len(s) \in Nat /\ s \in [1 .. Len(s) -> Elems]
  BY LenProperties
<1>2. s \in Injection(1 .. Len(s), Elems)
  BY <1>1 DEF Injection, IsInjective
<1>3. Cardinality(1 .. Len(s)) <= Cardinality(Elems)
  BY <1>2, FS_Injection DEF ElemAssumption
<1>4. Cardinality(1 .. Len(s)) = Len(s)
  BY <1>1, FS_Interval
<1>5. Cardinality(Elems) \in Nat
  BY FS_CardinalityType DEF ElemAssumption
<1>6. QED BY <1>1, <1>3, <1>4, <1>5

\* Following the links visits the sequence and then stays at Nil.
LEMMA WalkVisits ==
  ASSUME ElemAssumption, NEW s, Linked(s)
  PROVE  \A k \in 0 .. Cardinality(Elems) :
           Walk[k] = IF k < Len(s) THEN s[k + 1] ELSE Nil
<1> DEFINE C == Cardinality(Elems)
           w == [k \in 0 .. C |-> IF k < Len(s) THEN s[k + 1] ELSE Nil]
           Go(f, k) == IF k = 0 THEN head.top
                       ELSE IF f[k-1] = Nil THEN Nil ELSE next[f[k-1]]
<1>1. /\ Len(s) <= C /\ Len(s) \in Nat /\ C \in Nat /\ s \in Seq(Elems)
      /\ \A i \in 1 .. Len(s) : s[i] \in Elems /\ s[i] # Nil
      /\ Len(s) = 0 <=> s = <<>>
  BY ShortEnough, ElementOfSeq, EmptySeq DEF Linked, ElemAssumption
<1> HIDE DEF C
<1>2. ASSUME NEW k \in 0 .. C PROVE w[k] = Go(w, k)
  <2>1. CASE k = 0
    BY <1>1, <2>1 DEF Linked
  <2>2. CASE k \in 1 .. Len(s) - 1
    <3>1. k \in 1 .. Len(s) /\ k # Len(s) /\ k - 1 \in 0 .. C /\ k - 1 < Len(s) /\ (k - 1) + 1 = k
      BY <1>1, <2>2
    <3>2. w[k - 1] = s[k] /\ w[k] = s[k + 1] /\ next[s[k]] = s[k + 1] /\ s[k] # Nil
      BY <1>1, <3>1, <2>2 DEF Linked
    <3>3. QED BY <3>1, <3>2
  <2>3. CASE k = Len(s) /\ k > 0
    <3>1. k \in 1 .. Len(s) /\ k - 1 \in 0 .. C /\ k - 1 < Len(s) /\ (k - 1) + 1 = k
      BY <1>1, <2>3
    <3>2. next[s[k]] = Nil /\ s[k] # Nil
      BY <1>1, <3>1, <2>3 DEF Linked
    <3>3. w[k - 1] = s[k] /\ w[k] = Nil
      BY <1>1, <3>1, <2>3
    <3>4. QED BY <3>1, <3>2, <3>3
  <2>4. CASE k > Len(s)
    <3>1. k - 1 \in 0 .. C /\ ~ (k - 1 < Len(s)) /\ ~ (k < Len(s)) /\ k # 0
      BY <1>1, <2>4
    <3>2. w[k - 1] = Nil /\ w[k] = Nil
      BY <3>1
    <3>3. QED BY <3>1, <3>2
  <2>5. QED BY <1>1, <2>1, <2>2, <2>3, <2>4
<1>3. w = [k \in 0 .. C |-> Go(w, k)]
  BY <1>2
<1>4. Walk = CHOOSE f : f = [k \in 0 .. C |-> Go(f, k)]
  BY DEF Walk, C
<1> HIDE DEF w
<1>5. Walk = [k \in 0 .. C |-> Go(Walk, k)]
  BY <1>3, <1>4
<1>6. \A k \in 0 .. C : Walk[k] = w[k]
  <2> DEFINE T == {k \in 0 .. C : Walk[k] # w[k]}
  <2>1. SUFFICES ASSUME T # {} PROVE FALSE
    OBVIOUS
  <2>2. PICK m \in T : \A n \in T : m <= n
    <3>1. T \subseteq Nat
      BY <1>1
    <3>2. QED BY <2>1, <3>1, LeastNumber
  <2>3. m \in 0 .. C /\ Walk[m] # w[m] /\ Walk[m] = Go(Walk, m) /\ w[m] = Go(w, m)
    BY <1>2, <1>5
  <2>4. m # 0 /\ Walk[m - 1] # w[m - 1]
    BY <2>3
  <2>5. m - 1 \in T /\ ~ (m <= m - 1)
    BY <1>1, <2>3, <2>4
  <2>6. QED BY <2>2, <2>5
<1>7. QED BY <1>6 DEF w, C

LEMMA ChainIs ==
  ASSUME ElemAssumption, NEW s, Linked(s)
  PROVE  Chain = s
<1> DEFINE C == Cardinality(Elems)
<1>1. /\ Len(s) <= C /\ Len(s) \in Nat /\ C \in Nat /\ s \in Seq(Elems)
      /\ \A i \in 1 .. Len(s) : s[i] \in Elems /\ s[i] # Nil
  BY ShortEnough, ElementOfSeq DEF Linked, ElemAssumption
<1>2. \A k \in 0 .. C : Walk[k] = IF k < Len(s) THEN s[k + 1] ELSE Nil
  BY WalkVisits
<1>3. {k \in 0 .. C : Walk[k] # Nil} = 0 .. Len(s) - 1
  <2>1. ASSUME NEW k \in 0 .. C PROVE Walk[k] # Nil <=> k \in 0 .. Len(s) - 1
    <3>1. CASE k < Len(s)
      <4>1. k + 1 \in 1 .. Len(s)
        BY <1>1, <3>1
      <4>2. QED BY <1>1, <1>2, <3>1, <4>1
    <3>2. CASE ~ (k < Len(s))
      BY <1>1, <1>2, <3>2
    <3>3. QED BY <3>1, <3>2
  <2>2. 0 .. Len(s) - 1 \subseteq 0 .. C
    BY <1>1
  <2>3. QED BY <2>1, <2>2
<1>4. Height = Len(s)
  <2>1. PICK last \in Int : last = Len(s) - 1
    BY <1>1
  <2>2. Cardinality(0 .. last) = IF 0 > last THEN 0 ELSE last - 0 + 1
    BY FS_Interval
  <2>3. Cardinality(0 .. last) = Len(s)
    BY <1>1, <2>1, <2>2
  <2>4. QED BY <1>3, <2>1, <2>3 DEF Height
<1>5. ASSUME NEW k \in 1 .. Len(s) PROVE Walk[k - 1] = s[k]
  <2>1. k - 1 \in 0 .. C /\ k - 1 < Len(s) /\ (k - 1) + 1 = k
    BY <1>1
  <2>2. QED BY <1>2, <2>1
<1>6. Chain = [k \in 1 .. Len(s) |-> s[k]]
  BY <1>4, <1>5 DEF Chain
<1>7. s = [k \in 1 .. Len(s) |-> s[k]]
  BY <1>1, LenProperties
<1>8. QED BY <1>6, <1>7
\* The same of the next state.
LEMMA ChainIsNext ==
  ASSUME ElemAssumption
  PROVE  \A s : Linked(s)' => Chain' = s
<1>1. \A s : Linked(s) => Chain = s
  BY ChainIs
<1>2. (\A s : Linked(s) => Chain = s)'
  BY <1>1, PTL
<1>3. QED BY <1>2

-----------------------------------------------------------------------------
(***************************************************************************)
(* Tags                                                                    *)
(***************************************************************************)
LEMMA ModSmall ==
  ASSUME TagAssumption
  PROVE  \A x \in Nat : x < TagMod + TagMod => x % TagMod = IF x < TagMod THEN x ELSE x - TagMod
<1> USE DEF TagAssumption
<1>1. SUFFICES ASSUME NEW x \in Nat, x < TagMod + TagMod
               PROVE  x % TagMod = IF x < TagMod THEN x ELSE x - TagMod
  OBVIOUS
<1>2. /\ x \div TagMod \in Int /\ x % TagMod \in 0 .. TagMod - 1
      /\ x = TagMod * (x \div TagMod) + (x % TagMod)
  BY Z3
<1> DEFINE q == x \div TagMod  r == x % TagMod
<1> HIDE DEF q, r
<1>3. q \in Int /\ r \in 0 .. TagMod - 1 /\ x = TagMod * q + r
  BY <1>2 DEF q, r
<1>4. CASE q >= 2
  <2>1. TagMod * q >= TagMod * 2
    BY <1>4, <1>3, Z3
  <2>2. QED BY <1>1, <1>3, <2>1
<1>5. CASE q <= -1
  <2>1. TagMod * q <= -TagMod
    BY <1>5, <1>3, Z3
  <2>2. QED BY <1>1, <1>3, <2>1
<1>6. CASE q = 0
  BY <1>6, <1>3 DEF r
<1>7. CASE q = 1
  BY <1>7, <1>3 DEF r
<1>8. QED BY <1>3, <1>4, <1>5, <1>6, <1>7

\* The window is shorter than a round of the tag: a tag that is the same
\* again means that no swap succeeded meanwhile.
LEMMA SameTag ==
  ASSUME TagAssumption, NEW g \in 0 .. TagMod - 1, NEW n \in 0 .. Window, g = (g + n) % TagMod
  PROVE  n = 0
<1>1. g + n \in Nat /\ g + n < TagMod + TagMod /\ TagMod \in Nat
  BY DEF TagAssumption
<1>2. (g + n) % TagMod = IF g + n < TagMod THEN g + n ELSE g + n - TagMod
  BY <1>1, ModSmall
<1>3. QED BY <1>2 DEF TagAssumption

LEMMA NextTag ==
  ASSUME TagAssumption, NEW g \in 0 .. TagMod - 1, NEW n \in Nat, NEW m \in 0 .. Window, m = n + 1
  PROVE  (((g + n) % TagMod) + 1) % TagMod = (g + m) % TagMod
<1>1. /\ g + n \in Nat /\ g + n < TagMod + TagMod
      /\ g + m \in Nat /\ g + m < TagMod + TagMod /\ TagMod \in Nat
  BY DEF TagAssumption
<1>2. /\ (g + n) % TagMod = IF g + n < TagMod THEN g + n ELSE g + n - TagMod
      /\ (g + m) % TagMod = IF g + m < TagMod THEN g + m ELSE g + m - TagMod
  BY <1>1, ModSmall
<1> DEFINE h == (g + n) % TagMod
<1>3. h \in Nat /\ h + 1 \in Nat /\ h + 1 < TagMod + TagMod /\ TagMod \in Nat
  BY <1>1, <1>2 DEF TagAssumption
<1> HIDE DEF h
<1>4. (h + 1) % TagMod = IF h + 1 < TagMod THEN h + 1 ELSE h + 1 - TagMod
  BY <1>3, ModSmall
<1>5. QED BY <1>1, <1>2, <1>4 DEF TagAssumption, h

LEMMA BumpType ==
  ASSUME TagAssumption, NEW g \in 0 .. TagMod - 1
  PROVE  Bump(g) \in 0 .. TagMod - 1
<1>1. g + 1 \in Nat /\ g + 1 < TagMod + TagMod /\ TagMod \in Nat
  BY DEF TagAssumption
<1>2. (g + 1) % TagMod = IF g + 1 < TagMod THEN g + 1 ELSE g + 1 - TagMod
  BY <1>1, ModSmall
<1>3. QED BY <1>1, <1>2 DEF Bump

-----------------------------------------------------------------------------
(***************************************************************************)
(* The inductive invariant                                                 *)
(***************************************************************************)
PC == {"idle", "push_load", "push_link", "push_cas", "pop_load", "pop_next", "pop_cas"}

LEMMA StackStarts == ASSUME TagAssumption, ElemAssumption, StackInit PROVE StackInv
<1> USE DEF StackInit, TagAssumption, ElemAssumption
<1>1. StackTypeOK
  BY DEF StackTypeOK, Word, Ptr, NoSnap
<1>2. <<>> \in Seq(Elems) /\ Len(<<>>) = 0
  BY EmptySeq
<1>3. Linked(<<>>)
  BY <1>2 DEF Linked, NoSnap
<1>4. Covers(<<>>) /\ OneOwner
  BY <1>2 DEF Covers, OneOwner
<1>5. ASSUME NEW t \in Threads PROVE ThreadInv(t)
  BY DEF ThreadInv, Loaded
<1>6. QED BY <1>1, <1>2, <1>3, <1>4, <1>5 DEF StackInv

LEMMA NextType ==
  ASSUME TagAssumption, StackInv, [StackNext]_stackVars
  PROVE  StackTypeOK'
<1>1. StackTypeOK /\ \A t \in Threads : ThreadInv(t)
  BY DEF StackInv
<1> USE <1>1 DEF StackTypeOK, Word, Ptr, NoSnap
<1>2. \A t \in Threads : Bump(snap[t].tag) \in 0 .. TagMod - 1
  BY BumpType
<1>3. ASSUME NEW t \in Threads, NEW top \in Ptr, Swap(t, top)
      PROVE  /\ head' \in Word /\ age' \in [Threads -> 0 .. Window]
             /\ tpc' \in [Threads -> PC] /\ snap' \in [Threads -> Word]
             /\ elem' \in [Threads -> Ptr] /\ link' \in [Threads -> Ptr]
  <2>1. age' \in [Threads -> 0 .. Window]
    BY <1>3 DEF Swap, TagAssumption
  <2>2. head' \in Word
    BY <1>2, <1>3 DEF Swap
  <2>3. QED BY <1>3, <2>1, <2>2 DEF Swap, PC, TagAssumption
<1>4. ASSUME NEW t \in Threads, NEW l \in PC, LoadHead(t, l) \/ SwapFails(t, l) PROVE StackTypeOK'
  BY <1>4 DEF LoadHead, SwapFails, PC, TagAssumption
<1>5. ASSUME NEW t \in Threads, PushSwap(t) PROVE StackTypeOK'
  <2>1. elem[t] \in Ptr /\ Swap(t, elem[t]) /\ next' = next /\ held' = [held EXCEPT ![t] = @ \ {elem[t]}]
    BY <1>5 DEF PushSwap
  <2>2. QED BY <1>3, <2>1 DEF PC
<1>6. ASSUME NEW t \in Threads, PopSwap(t) PROVE StackTypeOK'
  <2>1. /\ link[t] \in Ptr /\ Swap(t, link[t]) /\ next' = next
        /\ held' = [held EXCEPT ![t] = @ \cup {snap[t].top}] /\ snap[t].top \in Elems
    BY <1>6 DEF PopSwap, ThreadInv
  <2>2. QED BY <1>3, <2>1 DEF PC
<1>7. ASSUME NEW t \in Threads, NEW e \in Elems, CallPush(t, e) PROVE StackTypeOK'
  BY <1>7 DEF CallPush
<1>8. ASSUME NEW t \in Threads, NEW e \in Elems, NEW x \in Ptr, OwnerLink(t, e, x) PROVE StackTypeOK'
  BY <1>8 DEF OwnerLink
<1>9. ASSUME NEW t \in Threads, CallPop(t) PROVE StackTypeOK'
  BY <1>9 DEF CallPop
<1>10. ASSUME NEW t \in Threads, PushLink(t) PROVE StackTypeOK'
  BY <1>10 DEF PushLink
<1>11. ASSUME NEW t \in Threads, PopEmpty(t) PROVE StackTypeOK'
  BY <1>11 DEF PopEmpty, TagAssumption
<1>12. ASSUME NEW t \in Threads, PopNext(t) PROVE StackTypeOK'
  BY <1>12 DEF PopNext
<1>13. CASE UNCHANGED stackVars
  BY <1>13 DEF stackVars
<1>14. QED
  BY <1>4, <1>5, <1>6, <1>7, <1>8, <1>9, <1>10, <1>11, <1>12, <1>13
     DEF StackNext, Step, PushLoad, PushRetry, PopLoad, PopRetry, PC

\* A swap that succeeds comes before any other swap since the load.
LEMMA SwapIsFresh ==
  ASSUME TagAssumption, StackInv, NEW t \in Threads, Loaded(t), head = snap[t]
  PROVE  age[t] = 0
<1>1. /\ head.tag \in 0 .. TagMod - 1 /\ age[t] \in 0 .. Window
      /\ head.tag = (head.tag + age[t]) % TagMod
  BY DEF StackInv, StackTypeOK, Word, ThreadInv
<1>2. QED BY <1>1, SameTag

\* The elements of the stack are in nobody's hands.
LEMMA StackedIsFree ==
  ASSUME ElemAssumption, StackInv, NEW s, Linked(s), Covers(s)
  PROVE  /\ \A i \in 1 .. Len(s) : s[i] \in Elems /\ \A t \in Threads : s[i] \notin held[t]
         /\ head.top \in Elems => s # <<>> /\ s[1] = head.top /\ 1 \in 1 .. Len(s)
<1>1. s \in Seq(Elems) /\ Len(s) \in Nat
  BY LenProperties DEF Linked
<1>2. \A i \in 1 .. Len(s) : s[i] \in Elems /\ \A t \in Threads : s[i] \notin held[t]
  BY <1>1, ElementOfSeq DEF Covers
<1>3. s # <<>> => 1 \in 1 .. Len(s)
  BY <1>1, EmptySeq
<1>4. QED BY <1>2, <1>3 DEF Linked, ElemAssumption

\* Writing the link of an element one holds leaves the stack alone.
LEMMA OwnLink ==
  ASSUME ElemAssumption, StackInv, NEW s, Linked(s), Covers(s),
         NEW t \in Threads, NEW e \in held[t], NEW x,
         next' = [next EXCEPT ![e] = x], UNCHANGED <<head, held>>
  PROVE  Linked(s)' /\ Covers(s)'
<1>1. \A i \in 1 .. Len(s) : s[i] \in Elems /\ s[i] # e
  BY StackedIsFree
<1>2. \A i \in 1 .. Len(s) : next'[s[i]] = next[s[i]]
  BY <1>1 DEF StackInv, StackTypeOK
<1>3. QED BY <1>2 DEF Linked, Covers

\* A push puts its element under the head, once.
LEMMA PushStep ==
  ASSUME TagAssumption, ElemAssumption, StackInv, NEW s, Linked(s), Covers(s),
         NEW t \in Threads, PushSwap(t), NEW e, e = elem[t]
  PROVE  /\ e \in held[t] /\ held' = [held EXCEPT ![t] = @ \ {e}]
         /\ Linked(<<e>> \o s)' /\ Covers(<<e>> \o s)'
<1> DEFINE z == <<e>> \o s
<1>1. /\ e \in held[t] /\ e \in Elems /\ next[e] = snap[t].top /\ head = snap[t]
      /\ head'.top = e /\ next' = next /\ held' = [held EXCEPT ![t] = @ \ {e}]
  BY DEF StackInv, StackTypeOK, ThreadInv, PushSwap, Swap
<1>2. /\ s \in Seq(Elems) /\ Len(s) \in Nat /\ \A i \in 1 .. Len(s) : s[i] \in Elems /\ s[i] # e
      /\ Len(s) = 0 <=> s = <<>>
  BY <1>1, StackedIsFree, LenProperties, EmptySeq DEF Linked
<1>3. /\ z \in Seq(Elems) /\ Len(z) = Len(s) + 1 /\ z[1] = e
      /\ \A i \in 1 .. Len(s) + 1 : z[i] = IF i = 1 THEN e ELSE s[i - 1]
  <2>1. <<e>> \in Seq(Elems) /\ Len(<<e>>) = 1 /\ <<e>>[1] = e
    BY <1>1
  <2>2. /\ z \in Seq(Elems) /\ Len(z) = 1 + Len(s)
        /\ \A i \in 1 .. 1 + Len(s) : z[i] = IF i <= 1 THEN <<e>>[i] ELSE s[i - 1]
    BY <1>2, <2>1, ConcatProperties
  <2>3. QED BY <1>2, <2>1, <2>2
<1> HIDE DEF z
<1>4. \A i, j \in 1 .. Len(z) : z[i] = z[j] => i = j
  <2>1. SUFFICES ASSUME NEW i \in 1 .. Len(z), NEW j \in 1 .. Len(z), z[i] = z[j] PROVE i = j
    OBVIOUS
  <2>2. CASE i = 1 \/ j = 1
    <3>1. ASSUME NEW k \in 1 .. Len(z), k # 1 PROVE z[k] # e
      <4>1. k - 1 \in 1 .. Len(s) /\ z[k] = s[k - 1]
        BY <1>2, <1>3, <3>1
      <4>2. QED BY <1>2, <4>1
    <3>2. QED BY <1>3, <2>1, <2>2, <3>1
  <2>3. CASE i # 1 /\ j # 1
    <3>1. i - 1 \in 1 .. Len(s) /\ j - 1 \in 1 .. Len(s) /\ s[i - 1] = s[j - 1]
      BY <1>2, <1>3, <2>1, <2>3
    <3>2. i - 1 = j - 1
      BY <3>1 DEF Linked
    <3>3. QED BY <1>2, <1>3, <3>2
  <2>4. QED BY <2>2, <2>3
<1>5. ASSUME NEW i \in 1 .. Len(z) PROVE next'[z[i]] = IF i = Len(z) THEN Nil ELSE z[i + 1]
  <2>1. CASE i = 1
    <3>1. z[i] = e /\ next'[z[i]] = head.top
      BY <1>1, <1>3, <2>1
    <3>2. CASE Len(s) = 0
      BY <1>2, <1>3, <2>1, <3>1, <3>2 DEF Linked
    <3>3. CASE Len(s) # 0
      <4>1. 2 \in 1 .. Len(s) + 1 /\ z[2] = s[1] /\ i # Len(z)
        BY <1>2, <1>3, <2>1, <3>3
      <4>2. QED BY <1>2, <2>1, <3>1, <3>3, <4>1 DEF Linked
    <3>4. QED BY <3>2, <3>3
  <2>2. CASE i # 1
    <3>1. PICK k \in 1 .. Len(s) : k = i - 1
      BY <1>2, <1>3, <2>2
    <3>2. z[i] = s[k] /\ (i = Len(z) <=> k = Len(s)) /\ (i # Len(z) => z[i + 1] = s[k + 1])
      BY <1>2, <1>3, <2>2, <3>1
    <3>3. next'[s[k]] = IF k = Len(s) THEN Nil ELSE s[k + 1]
      BY <1>1 DEF Linked
    <3>4. QED BY <3>2, <3>3
  <2>3. QED BY <2>1, <2>2
<1>6. z # <<>>
  BY <1>2, <1>3, EmptySeq
<1>7. Linked(z)'
  BY <1>1, <1>3, <1>4, <1>5, <1>6 DEF Linked
<1>8. ASSUME NEW d \in Elems
      PROVE  (\E i \in 1 .. Len(z) : z[i] = d) <=> \A u \in Threads : d \notin held'[u]
  <2>1. (\E i \in 1 .. Len(z) : z[i] = d) <=> d = e \/ \E i \in 1 .. Len(s) : s[i] = d
    <3>1. ASSUME NEW i \in 1 .. Len(z), z[i] = d PROVE d = e \/ \E k \in 1 .. Len(s) : s[k] = d
      <4>1. i = 1 \/ i - 1 \in 1 .. Len(s)
        BY <1>2, <1>3
      <4>2. QED BY <1>2, <1>3, <3>1, <4>1
    <3>2. ASSUME d = e PROVE \E i \in 1 .. Len(z) : z[i] = d
      <4>1. 1 \in 1 .. Len(z)
        BY <1>2, <1>3
      <4>2. QED BY <1>3, <3>2, <4>1
    <3>3. ASSUME NEW k \in 1 .. Len(s), s[k] = d PROVE \E i \in 1 .. Len(z) : z[i] = d
      <4>1. k + 1 \in 1 .. Len(z) /\ k + 1 # 1 /\ (k + 1) - 1 = k
        BY <1>2, <1>3
      <4>2. z[k + 1] = d
        BY <1>3, <3>3, <4>1
      <4>3. QED BY <4>1, <4>2
    <3>4. QED BY <3>1, <3>2, <3>3
  <2>2. (\E i \in 1 .. Len(s) : s[i] = d) <=> \A u \in Threads : d \notin held[u]
    BY DEF Covers
  <2>3. \A u \in Threads : d \in held'[u] <=> d \in held[u] /\ (u = t => d # e)
    BY <1>1 DEF StackInv, StackTypeOK
  <2>4. \A u \in Threads : e \in held[u] => u = t
    BY <1>1 DEF StackInv, OneOwner
  <2>5. QED BY <1>1, <2>1, <2>2, <2>3, <2>4
<1>9. Covers(z)'
  BY <1>8 DEF Covers
<1>10. QED BY <1>1, <1>7, <1>9 DEF z

\* A pop takes the first element and leaves the rest.
LEMMA PopStep ==
  ASSUME TagAssumption, ElemAssumption, StackInv, NEW s, Linked(s), Covers(s),
         NEW t \in Threads, PopSwap(t)
  PROVE  /\ s # <<>> /\ s[1] \in Elems /\ held' = [held EXCEPT ![t] = @ \cup {s[1]}]
         /\ Linked(Tail(s))' /\ Covers(Tail(s))'
<1> DEFINE z == Tail(s)
<1>1. /\ Loaded(t) /\ head = snap[t] /\ snap[t].top \in Elems /\ ThreadInv(t) /\ tpc[t] = "pop_cas"
      /\ head'.top = link[t] /\ next' = next
      /\ held' = [held EXCEPT ![t] = @ \cup {snap[t].top}]
  BY DEF StackInv, StackTypeOK, Word, Ptr, ThreadInv, PopSwap, Swap, Loaded
<1>2. age[t] = 0 /\ head'.top = next[head.top]
  <2>1. age[t] = 0
    BY <1>1, SwapIsFresh
  <2>2. QED BY <1>1, <2>1 DEF ThreadInv
<1>3. /\ s \in Seq(Elems) /\ Len(s) \in Nat /\ s # <<>> /\ s[1] = head.top /\ 1 \in 1 .. Len(s)
      /\ \A i \in 1 .. Len(s) : s[i] \in Elems
  BY <1>1, StackedIsFree, LenProperties DEF Linked
<1>4. /\ z \in Seq(Elems) /\ Len(z) = Len(s) - 1
      /\ \A i \in 1 .. Len(s) - 1 : z[i] = s[i + 1]
      /\ Len(z) = 0 <=> z = <<>>
  BY <1>3, HeadTailProperties, EmptySeq
<1> HIDE DEF z
<1>5. \A i, j \in 1 .. Len(s) : s[i] = s[j] => i = j
  BY DEF Linked
<1>6. \A i, j \in 1 .. Len(z) : z[i] = z[j] => i = j
  <2>1. SUFFICES ASSUME NEW i \in 1 .. Len(z), NEW j \in 1 .. Len(z), z[i] = z[j] PROVE i = j
    OBVIOUS
  <2>2. i + 1 \in 1 .. Len(s) /\ j + 1 \in 1 .. Len(s) /\ s[i + 1] = s[j + 1]
    BY <1>3, <1>4, <2>1
  <2>3. i + 1 = j + 1
    BY <1>5, <2>2
  <2>4. QED BY <2>3
<1>7. head'.top = IF z = <<>> THEN Nil ELSE z[1]
  <2>1. next[s[1]] = IF 1 = Len(s) THEN Nil ELSE s[1 + 1]
    BY <1>3 DEF Linked
  <2>2. CASE Len(s) = 1
    BY <1>2, <1>3, <1>4, <2>1, <2>2
  <2>3. CASE Len(s) # 1
    <3>1. 1 \in 1 .. Len(s) - 1 /\ z # <<>>
      BY <1>3, <1>4, <2>3
    <3>2. z[1] = s[1 + 1]
      BY <1>4, <3>1
    <3>3. QED BY <1>2, <1>3, <2>1, <2>3, <3>1, <3>2
  <2>4. QED BY <2>2, <2>3
<1>8. ASSUME NEW i \in 1 .. Len(z) PROVE next'[z[i]] = IF i = Len(z) THEN Nil ELSE z[i + 1]
  <2>1. PICK k \in 1 .. Len(s) : k = i + 1
    BY <1>3, <1>4
  <2>2. z[i] = s[k] /\ (i = Len(z) <=> k = Len(s)) /\ (i # Len(z) => z[i + 1] = s[k + 1])
    BY <1>3, <1>4, <2>1
  <2>3. next'[s[k]] = IF k = Len(s) THEN Nil ELSE s[k + 1]
    BY <1>1 DEF Linked
  <2>4. QED BY <2>2, <2>3
<1>9. Linked(z)'
  BY <1>4, <1>6, <1>7, <1>8 DEF Linked
<1>10. ASSUME NEW d \in Elems
      PROVE  (\E i \in 1 .. Len(z) : z[i] = d) <=> \A u \in Threads : d \notin held'[u]
  <2>1. (\E i \in 1 .. Len(z) : z[i] = d) <=> d # s[1] /\ \E i \in 1 .. Len(s) : s[i] = d
    <3>1. ASSUME NEW i \in 1 .. Len(z), z[i] = d PROVE d # s[1] /\ \E k \in 1 .. Len(s) : s[k] = d
      <4>1. i + 1 \in 1 .. Len(s) /\ i + 1 # 1 /\ s[i + 1] = d
        BY <1>3, <1>4, <3>1
      <4>2. QED BY <1>3, <1>5, <4>1
    <3>2. ASSUME NEW k \in 1 .. Len(s), s[k] = d, d # s[1] PROVE \E i \in 1 .. Len(z) : z[i] = d
      <4>1. k - 1 \in 1 .. Len(z) /\ (k - 1) + 1 = k
        BY <1>3, <1>4, <3>2
      <4>2. z[k - 1] = d
        BY <1>4, <3>2, <4>1
      <4>3. QED BY <4>1, <4>2
    <3>3. QED BY <3>1, <3>2
  <2>2. (\E i \in 1 .. Len(s) : s[i] = d) <=> \A u \in Threads : d \notin held[u]
    BY DEF Covers
  <2>3. \A u \in Threads : d \in held'[u] <=> d \in held[u] \/ (u = t /\ d = s[1])
    BY <1>1, <1>3 DEF StackInv, StackTypeOK
  <2>4. QED BY <2>1, <2>2, <2>3
<1>11. Covers(z)'
  BY <1>10 DEF Covers
<1>12. QED BY <1>1, <1>3, <1>9, <1>11 DEF z

\* What a step does to the stack, and to who holds what.
LEMMA StackStep ==
  ASSUME TagAssumption, ElemAssumption, StackInv, [StackNext]_stackVars, NEW s, Linked(s), Covers(s)
  PROVE  \/ held' = held /\ Linked(s)' /\ Covers(s)'
         \/ \E t \in Threads, e \in Elems :
              /\ e \in held[t] /\ held' = [held EXCEPT ![t] = @ \ {e}]
              /\ Linked(<<e>> \o s)' /\ Covers(<<e>> \o s)'
         \/ \E t \in Threads :
              /\ s # <<>> /\ s[1] \in Elems /\ held' = [held EXCEPT ![t] = @ \cup {s[1]}]
              /\ Linked(Tail(s))' /\ Covers(Tail(s))'
<1>1. ASSUME UNCHANGED <<head, next, held>> PROVE held' = held /\ Linked(s)' /\ Covers(s)'
  BY <1>1 DEF Linked, Covers
<1>2. ASSUME NEW t \in Threads, CallPop(t) \/ PushLoad(t) \/ PushRetry(t) \/ PopLoad(t)
               \/ PopEmpty(t) \/ PopNext(t) \/ PopRetry(t) \/ \E e \in Elems : CallPush(t, e)
      PROVE  held' = held /\ Linked(s)' /\ Covers(s)'
  BY <1>1, <1>2 DEF CallPop, PushLoad, LoadHead, PushRetry, SwapFails, PopLoad, PopEmpty,
                    PopNext, PopRetry, CallPush
<1>3. ASSUME NEW t \in Threads, NEW e \in Elems, NEW x \in Ptr, OwnerLink(t, e, x)
      PROVE  held' = held /\ Linked(s)' /\ Covers(s)'
  BY <1>3, OwnLink DEF OwnerLink
<1>4. ASSUME NEW t \in Threads, PushLink(t) PROVE held' = held /\ Linked(s)' /\ Covers(s)'
  <2>1. /\ elem[t] \in held[t] /\ next' = [next EXCEPT ![elem[t]] = snap[t].top]
        /\ UNCHANGED <<head, held>>
    BY <1>4 DEF PushLink, StackInv, ThreadInv
  <2>2. QED BY <2>1, OwnLink
<1>5. ASSUME NEW t \in Threads, PushSwap(t)
      PROVE  \E e \in Elems :
               /\ e \in held[t] /\ held' = [held EXCEPT ![t] = @ \ {e}]
               /\ Linked(<<e>> \o s)' /\ Covers(<<e>> \o s)'
  <2>1. PICK e \in Elems : e = elem[t]
    BY <1>5 DEF PushSwap, StackInv, StackTypeOK, ThreadInv
  <2>2. QED BY <1>5, <2>1, PushStep
<1>6. ASSUME NEW t \in Threads, PopSwap(t)
      PROVE  /\ s # <<>> /\ s[1] \in Elems /\ held' = [held EXCEPT ![t] = @ \cup {s[1]}]
             /\ Linked(Tail(s))' /\ Covers(Tail(s))'
  BY <1>6, PopStep
<1>7. CASE UNCHANGED stackVars
  BY <1>1, <1>7 DEF stackVars
<1>8. QED
  BY <1>2, <1>3, <1>4, <1>5, <1>6, <1>7 DEF StackNext, Step

LEMMA NextOwner ==
  ASSUME TagAssumption, ElemAssumption, StackInv, [StackNext]_stackVars
  PROVE  OneOwner' /\ \E s \in Seq(Elems) : Linked(s)' /\ Covers(s)'
<1>1. PICK s \in Seq(Elems) : Linked(s) /\ Covers(s)
  BY DEF StackInv
<1>2. OneOwner /\ held \in [Threads -> SUBSET Elems]
  BY DEF StackInv, StackTypeOK
<1>3. CASE held' = held /\ Linked(s)' /\ Covers(s)'
  BY <1>2, <1>3 DEF OneOwner
<1>4. CASE \E t \in Threads, e \in Elems :
             /\ e \in held[t] /\ held' = [held EXCEPT ![t] = @ \ {e}]
             /\ Linked(<<e>> \o s)' /\ Covers(<<e>> \o s)'
  <2>1. PICK t \in Threads, e \in Elems :
             /\ e \in held[t] /\ held' = [held EXCEPT ![t] = @ \ {e}]
             /\ Linked(<<e>> \o s)' /\ Covers(<<e>> \o s)'
    BY <1>4
  <2>2. OneOwner'
    BY <1>2, <2>1 DEF OneOwner
  <2>3. <<e>> \o s \in Seq(Elems)
    BY <2>1 DEF Linked
  <2>4. QED BY <2>1, <2>2, <2>3
<1>5. CASE \E t \in Threads :
             /\ s # <<>> /\ s[1] \in Elems /\ held' = [held EXCEPT ![t] = @ \cup {s[1]}]
             /\ Linked(Tail(s))' /\ Covers(Tail(s))'
  <2>1. PICK t \in Threads :
             /\ s # <<>> /\ s[1] \in Elems /\ held' = [held EXCEPT ![t] = @ \cup {s[1]}]
             /\ Linked(Tail(s))' /\ Covers(Tail(s))'
    BY <1>5
  <2>2. \A u \in Threads : s[1] \notin held[u]
    <3>1. 1 \in 1 .. Len(s)
      BY <2>1, EmptySeq
    <3>2. QED BY <1>1, <3>1, StackedIsFree
  <2>3. OneOwner'
    BY <1>2, <2>1, <2>2 DEF OneOwner
  <2>4. Tail(s) \in Seq(Elems)
    BY <2>1 DEF Linked
  <2>5. QED BY <2>1, <2>3, <2>4
<1>6. QED BY <1>1, <1>3, <1>4, <1>5, StackStep

\* A write to the link of an element that t holds is seen by nobody whose swap
\* can still succeed.
LEMMA OthersKeepLinks ==
  ASSUME ElemAssumption, StackInv, NEW t \in Threads, NEW y \in held[t], NEW x \in Ptr,
         next' = [next EXCEPT ![y] = x], NEW u \in Threads \ {t},
         UNCHANGED <<head, held, tpc[u], elem[u], snap[u], link[u], age[u]>>
  PROVE  ThreadInv(u)'
<1>1. PICK s \in Seq(Elems) : Linked(s) /\ Covers(s)
  BY DEF StackInv
<1>2. ThreadInv(u) /\ held[t] \cap held[u] = {} /\ next \in [Elems -> Ptr] /\ snap[u] \in Word
      /\ y \in Elems
  BY DEF StackInv, OneOwner, StackTypeOK
<1>3. tpc[u] = "push_cas" => next'[elem[u]] = next[elem[u]]
  BY <1>2 DEF ThreadInv, StackInv, StackTypeOK
<1>4. tpc[u] = "pop_cas" /\ age[u] = 0 => next'[snap[u].top] = next[snap[u].top]
  <2>1. SUFFICES ASSUME tpc[u] = "pop_cas", age[u] = 0
                 PROVE  next'[snap[u].top] = next[snap[u].top]
    OBVIOUS
  <2>2. snap[u].top = head.top /\ head.top \in Elems
    BY <1>2, <2>1 DEF ThreadInv, Loaded, Word, Ptr
  <2>3. head.top \notin held[t]
    BY <1>1, <2>2, StackedIsFree
  <2>4. QED BY <1>2, <2>2, <2>3
<1>5. QED BY <1>2, <1>3, <1>4 DEF ThreadInv, Loaded

LEMMA NextThreads ==
  ASSUME TagAssumption, ElemAssumption, StackInv, [StackNext]_stackVars
  PROVE  \A t \in Threads : ThreadInv(t)'
<1>1. StackTypeOK /\ OneOwner /\ \A t \in Threads : ThreadInv(t)
  BY DEF StackInv
<1>2. ASSUME NEW t \in Threads, UNCHANGED <<head, next, held>>,
             \A u \in Threads \ {t} : UNCHANGED <<tpc[u], elem[u], snap[u], link[u], age[u]>>,
             ThreadInv(t)'
      PROVE  \A u \in Threads : ThreadInv(u)'
  BY <1>1, <1>2 DEF ThreadInv, Loaded
<1>3. ASSUME NEW t \in Threads, NEW l \in {"push_link", "pop_next"}, tpc[t] # "idle",
             LoadHead(t, l) \/ SwapFails(t, l),
             l = "push_link" => elem[t] \in held[t]
      PROVE  \A u \in Threads : ThreadInv(u)'
  <2>1. /\ UNCHANGED <<head, next, held>>
        /\ snap' = [snap EXCEPT ![t] = head] /\ age' = [age EXCEPT ![t] = 0]
        /\ tpc' = [tpc EXCEPT ![t] = l] /\ UNCHANGED <<elem, link>>
    BY <1>3 DEF LoadHead, SwapFails
  <2>2. \A u \in Threads \ {t} : UNCHANGED <<tpc[u], elem[u], snap[u], link[u], age[u]>>
    BY <1>1, <2>1 DEF StackTypeOK
  <2>3. (head.tag + 0) % TagMod = head.tag
    <3>1. head.tag \in Nat /\ head.tag < TagMod + TagMod /\ head.tag < TagMod
          /\ TagMod \in Nat /\ head.tag + 0 = head.tag
      BY <1>1 DEF StackTypeOK, Word, TagAssumption
    <3>2. QED BY <3>1, ModSmall
  <2>4. ThreadInv(t)'
    BY <1>1, <1>3, <2>1, <2>3 DEF ThreadInv, Loaded, StackTypeOK
  <2>5. QED BY <1>2, <2>1, <2>2, <2>4
<1>4. ASSUME NEW t \in Threads, NEW e \in Elems, CallPush(t, e) PROVE \A u \in Threads : ThreadInv(u)'
  <2>1. ThreadInv(t)'
    BY <1>1, <1>4 DEF CallPush, ThreadInv, Loaded, StackTypeOK
  <2>2. \A u \in Threads \ {t} : UNCHANGED <<tpc[u], elem[u], snap[u], link[u], age[u]>>
    BY <1>1, <1>4 DEF CallPush, StackTypeOK
  <2>3. QED BY <1>2, <1>4, <2>1, <2>2 DEF CallPush
<1>5. ASSUME NEW t \in Threads, CallPop(t) \/ PopEmpty(t) \/ PopNext(t)
      PROVE  \A u \in Threads : ThreadInv(u)'
  <2>1. ThreadInv(t)'
    BY <1>1, <1>5 DEF CallPop, PopEmpty, PopNext, ThreadInv, Loaded, StackTypeOK
  <2>2. \A u \in Threads \ {t} : UNCHANGED <<tpc[u], elem[u], snap[u], link[u], age[u]>>
    BY <1>1, <1>5 DEF CallPop, PopEmpty, PopNext, StackTypeOK
  <2>3. QED BY <1>2, <1>5, <2>1, <2>2 DEF CallPop, PopEmpty, PopNext
<1>6. ASSUME NEW t \in Threads, PushLink(t) PROVE \A u \in Threads : ThreadInv(u)'
  <2>1. /\ tpc[t] = "push_link" /\ elem[t] \in held[t] /\ elem[t] \in Elems /\ snap[t].top \in Ptr
        /\ next' = [next EXCEPT ![elem[t]] = snap[t].top]
        /\ tpc' = [tpc EXCEPT ![t] = "push_cas"]
        /\ UNCHANGED <<head, held, elem, snap, link, age>>
    BY <1>1, <1>6 DEF PushLink, ThreadInv, StackTypeOK, Word
  <2>2. ASSUME NEW u \in Threads \ {t} PROVE ThreadInv(u)'
    BY <1>1, <2>1, OthersKeepLinks DEF StackTypeOK
  <2>3. ThreadInv(t)'
    BY <1>1, <2>1 DEF ThreadInv, Loaded, StackTypeOK
  <2>4. QED BY <2>2, <2>3
<1>7. ASSUME NEW t \in Threads, NEW e \in Elems, NEW x \in Ptr, OwnerLink(t, e, x)
      PROVE  \A u \in Threads : ThreadInv(u)'
  <2>1. ASSUME NEW u \in Threads \ {t} PROVE ThreadInv(u)'
    BY <1>7, OthersKeepLinks DEF OwnerLink
  <2>2. ThreadInv(t)'
    BY <1>1, <1>7 DEF OwnerLink, ThreadInv, Loaded, StackTypeOK
  <2>3. QED BY <2>1, <2>2
<1>8. ASSUME NEW t \in Threads, NEW top, Swap(t, top), next' = next, NEW mine,
             held' = [held EXCEPT ![t] = mine]
      PROVE  \A u \in Threads : ThreadInv(u)'
  <2>1. ThreadInv(t)'
    BY <1>1, <1>8 DEF Swap, ThreadInv, Loaded, StackTypeOK
  <2>2. ASSUME NEW u \in Threads \ {t} PROVE ThreadInv(u)'
    <3>1. /\ tpc'[u] = tpc[u] /\ elem'[u] = elem[u] /\ snap'[u] = snap[u] /\ link'[u] = link[u]
          /\ held'[u] = held[u] /\ next' = next
          /\ Loaded(u) => age[u] < Window /\ age'[u] = age[u] + 1
          /\ head'.tag = Bump(head.tag)
      BY <1>1, <1>8 DEF Swap, StackTypeOK
    <3>2. Loaded(u) => /\ age'[u] # 0
                       /\ head'.tag = (snap[u].tag + age'[u]) % TagMod
      <4>1. SUFFICES ASSUME Loaded(u)
                     PROVE  age'[u] # 0 /\ head'.tag = (snap[u].tag + age'[u]) % TagMod
        OBVIOUS
      <4>2. /\ snap[u].tag \in 0 .. TagMod - 1 /\ age[u] \in Nat /\ age'[u] \in 0 .. Window
            /\ age'[u] = age[u] + 1 /\ head.tag = (snap[u].tag + age[u]) % TagMod
        BY <1>1, <3>1, <4>1 DEF ThreadInv, StackTypeOK, Word, TagAssumption
      <4>3. (((snap[u].tag + age[u]) % TagMod) + 1) % TagMod = (snap[u].tag + age'[u]) % TagMod
        BY <4>2, NextTag
      <4>4. QED BY <3>1, <4>2, <4>3 DEF Bump
    <3>3. QED BY <1>1, <3>1, <3>2 DEF ThreadInv, Loaded
  <2>3. QED BY <2>1, <2>2
<1>9. CASE UNCHANGED stackVars
  BY <1>1, <1>9 DEF stackVars, ThreadInv, Loaded
<1>10. ASSUME NEW t \in Threads, PushLoad(t) \/ PushRetry(t) \/ PopLoad(t) \/ PopRetry(t)
       PROVE  \A u \in Threads : ThreadInv(u)'
  BY <1>1, <1>3, <1>10 DEF PushLoad, PushRetry, PopLoad, PopRetry, ThreadInv
<1>11. ASSUME NEW t \in Threads, PushSwap(t) \/ PopSwap(t)
       PROVE  \A u \in Threads : ThreadInv(u)'
  BY <1>8, <1>11 DEF PushSwap, PopSwap
<1>12. QED
  BY <1>4, <1>5, <1>6, <1>7, <1>9, <1>10, <1>11 DEF StackNext, Step

LEMMA NextInv ==
  ASSUME TagAssumption, ElemAssumption
  PROVE  StackInv /\ [StackNext]_stackVars => StackInv'
<1>1. SUFFICES ASSUME StackInv, [StackNext]_stackVars PROVE StackInv'
  OBVIOUS
<1>2. StackTypeOK' /\ (\A t \in Threads : ThreadInv(t)')
      /\ OneOwner' /\ (\E s \in Seq(Elems) : Linked(s)' /\ Covers(s)')
  BY <1>1, NextType, NextThreads, NextOwner
<1>3. QED BY <1>2 DEF StackInv

LEMMA StackInvariance ==
  ASSUME TagAssumption, ElemAssumption
  PROVE  StackSpec => []StackInv
<1>1. StackInit => StackInv
  BY StackStarts
<1>2. StackInv /\ [StackNext]_stackVars => StackInv'
  BY NextInv
<1>3. QED BY <1>1, <1>2, PTL DEF StackSpec

-----------------------------------------------------------------------------
(***************************************************************************)
(* What follows for the callers                                            *)
(***************************************************************************)

\* No element is lost or handed out twice, however many threads, elements and
\* tags there are: as long as a thread is not overtaken a whole round of tags.
THEOREM StackKeepsElements ==
  ASSUME TagAssumption, ElemAssumption
  PROVE  StackSpec => []StackIsSound
<1>1. StackInv => StackIsSound
  <2>1. SUFFICES ASSUME StackInv, NEW e \in Elems
                 PROVE  Cardinality({k \in DOMAIN Chain : Chain[k] = e})
                          + Cardinality({t \in Threads : e \in held[t]}) = 1
    BY DEF StackInv, EachElementOnce, StackIsSound
  <2>2. PICK s \in Seq(Elems) : Linked(s) /\ Covers(s)
    BY <2>1 DEF StackInv
  <2>3. Chain = s /\ DOMAIN s = 1 .. Len(s)
    BY <2>2, ChainIs, LenProperties
  <2>4. CASE \E k \in 1 .. Len(s) : s[k] = e
    <3>1. PICK k \in 1 .. Len(s) : s[k] = e
      BY <2>4
    <3>2. {j \in DOMAIN Chain : Chain[j] = e} = {k}
      BY <2>2, <2>3, <3>1 DEF Linked
    <3>3. {t \in Threads : e \in held[t]} = {}
      BY <2>2, <2>4 DEF Covers
    <3>4. Cardinality({j \in DOMAIN Chain : Chain[j] = e}) = 1
      BY <3>2, FS_Singleton
    <3>5. Cardinality({t \in Threads : e \in held[t]}) = 0
      BY <3>3, FS_EmptySet
    <3>6. QED BY <3>4, <3>5
  <2>5. CASE ~ \E k \in 1 .. Len(s) : s[k] = e
    <3>1. {j \in DOMAIN Chain : Chain[j] = e} = {}
      BY <2>3, <2>5
    <3>2. PICK t \in Threads : e \in held[t]
      BY <2>2, <2>5 DEF Covers
    <3>3. {u \in Threads : e \in held[u]} = {t}
      BY <2>1, <3>2 DEF StackInv, OneOwner
    <3>4. Cardinality({j \in DOMAIN Chain : Chain[j] = e}) = 0
      BY <3>1, FS_EmptySet
    <3>5. Cardinality({u \in Threads : e \in held[u]}) = 1
      BY <3>3, FS_Singleton
    <3>6. QED BY <3>4, <3>5
  <2>6. QED BY <2>4, <2>5
<1>2. QED BY <1>1, StackInvariance, PTL

\* Each push and each pop takes effect in its successful compare-and-swap, and
\* a pop takes what was pushed last.
THEOREM StackIsLastInFirstOut ==
  ASSUME TagAssumption, ElemAssumption
  PROVE  StackSpec => RefinesAbstractStack
<1>1. StackInv /\ [StackNext]_stackVars => [AbsStack!Next]_(AbsStack!vars)
  <2>1. SUFFICES ASSUME StackInv, [StackNext]_stackVars PROVE [AbsStack!Next]_(AbsStack!vars)
    OBVIOUS
  <2>2. PICK s \in Seq(Elems) : Linked(s) /\ Covers(s)
    BY <2>1 DEF StackInv
  <2>3. Chain = s
    BY <2>2, ChainIs
  <2>4. ASSUME NEW z, Linked(z)' PROVE Chain' = z
    BY <2>4, ChainIsNext
  <2>5. CASE held' = held /\ Linked(s)' /\ Covers(s)'
    BY <2>3, <2>4, <2>5 DEF AbsStack!vars
  <2>6. CASE \E t \in Threads, e \in Elems :
               /\ e \in held[t] /\ held' = [held EXCEPT ![t] = @ \ {e}]
               /\ Linked(<<e>> \o s)' /\ Covers(<<e>> \o s)'
    BY <2>3, <2>4, <2>6 DEF AbsStack!Next, AbsStack!Push
  <2>7. CASE \E t \in Threads :
               /\ s # <<>> /\ s[1] \in Elems /\ held' = [held EXCEPT ![t] = @ \cup {s[1]}]
               /\ Linked(Tail(s))' /\ Covers(Tail(s))'
    <3>1. Head(s) = s[1]
      BY <2>2
    <3>2. QED BY <2>3, <2>4, <2>7, <3>1 DEF AbsStack!Next, AbsStack!Pop
  <2>8. QED BY <2>1, <2>2, <2>5, <2>6, <2>7, StackStep
<1>2. StackInit => AbsStack!Init
  <2>1. SUFFICES ASSUME StackInit PROVE AbsStack!Init
    OBVIOUS
  <2>2. StackInv
    BY <2>1, StackStarts
  <2>3. PICK s \in Seq(Elems) : Linked(s) /\ Covers(s)
    BY <2>2 DEF StackInv
  <2>4. head.top = Nil
    BY <2>1 DEF StackInit, NoSnap
  <2>5. s = <<>>
    BY <2>3, <2>4 DEF Linked, ElemAssumption
  <2>6. PICK t \in Threads : held = [u \in Threads |-> IF u = t THEN Elems ELSE {}]
    BY <2>1 DEF StackInit
  <2>7. Chain = <<>>
    BY <2>3, <2>5, ChainIs
  <2>8. QED BY <2>6, <2>7 DEF AbsStack!Init
<1>3. QED BY <1>1, <1>2, StackInvariance, PTL DEF StackSpec, RefinesAbstractStack, AbsStack!Spec

-----------------------------------------------------------------------------
(* Future *******************************************************************)

WakerInv(k) ==
  /\ pc[k] \in WakerPC
  /\ pc[k] \in {"inuse", "value", "take", "clear", "wake"} => idx[k] \in Slots /\ fib[k] \in Waiters
  /\ pc[k] # "start" /\ val[k] = Target => reached
  /\ pc[k] \in {"value", "take"} => slot[idx[k]].value = Target
  /\ pc[k] \in {"take", "clear", "wake"} => val[k] = Target

WaiterInv(w) ==
  /\ pc[w] \in WaiterPC
  /\ pc[w] \in {"set", "arm", "probe", "check", "compare", "self", "unhook"} => idx[w] \in Slots
  /\ pc[w] \in {"arm", "probe", "check", "compare", "self"} => slot[idx[w]].value = Target
  /\ pc[w] \in {"check", "compare"} /\ val[w] = Target => reached
  /\ pc[w] \in {"self", "unhook", "result", "free"} \/ ready[w] > 0 => reached

\* Who is let go, or about to be, was looked for by somebody who saw Target:
\* a slot that is armed, or ever was, holds Target.
ReachInv ==
  /\ TypeOK
  /\ value = Target => reached
  /\ \A i \in Slots : ~slot[i].inuse => slot[i].value = Target
  /\ \A k \in Wakers : WakerInv(k)
  /\ \A w \in Waiters : WaiterInv(w)

\* Without increments the counter is Target as soon as, and for as long as,
\* every decrement is done.
Pending == {k \in Decrs : pc[k] = "start"}
CountInv ==
  /\ value = Target + Cardinality(Pending)
  /\ reached => value = Target
  /\ freed => reached

\* With one waiter, it is in one place: in the slot it claimed, in the hands of
\* one waker, or on the ready list.
Vacant(i) == slot[i].fiber = Null /\ slot[i].inuse
Holds(k) == pc[k] \in {"clear", "wake"}
NoneHolds == \A k \in Wakers : ~Holds(k)
Armed(w) == slot[idx[w]].fiber = w /\ ~slot[idx[w]].inuse /\ ready[w] = 0 /\ NoneHolds
Taken(w) ==
  /\ slot[idx[w]].inuse /\ ready[w] = 0
  /\ \E k \in Wakers :
       /\ Holds(k) /\ idx[k] = idx[w]
       /\ slot[idx[w]].fiber = IF pc[k] = "clear" THEN w ELSE Null
       /\ \A l \in Wakers : Holds(l) => l = k
Awake(w) == Vacant(idx[w]) /\ ready[w] = 1 /\ NoneHolds
PlaceInv(w) ==
  /\ \A k \in Wakers : idx[k] \in Nat /\ idx[k] >= 1 /\ (pc[k] = "start" => idx[k] = 1)
  /\ pc[w] \notin {"idle", "result", "free"} => idx[w] \in Slots
  /\ \A i \in Slots : i # idx[w] \/ pc[w] \in {"idle", "result", "free", "claim"} => Vacant(i)
  /\ pc[w] \in {"idle", "result", "free", "claim"} => ready[w] = 0 /\ NoneHolds
  /\ pc[w] \in {"set", "arm", "unhook"} =>
       slot[idx[w]].fiber = w /\ slot[idx[w]].inuse /\ ready[w] = 0 /\ NoneHolds
  /\ pc[w] \in {"probe", "check", "compare", "self", "yield"} => Armed(w) \/ Taken(w) \/ Awake(w)

\* A waiter that sleeps in an armed slot, or will because it saw another value
\* than Target, is still to be met by a waker if the counter is Target.
Unmet(w) ==
  /\ Armed(w) /\ value = Target
  /\ pc[w] = "yield" \/ (pc[w] \in {"check", "compare"} /\ val[w] # Target)
MetInv(w) == Unmet(w) => \E k \in Wakers : Comes(k, idx[w])

OneWaiterInv(w) == ReachInv /\ PlaceInv(w) /\ MetInv(w)
-----------------------------------------------------------------------------
(***************************************************************************)
(* Nobody is let go before the counter had its value                       *)
(***************************************************************************)
LEMMA Apart == ASSUME ProcessAssumption PROVE \A k \in Wakers, w \in Waiters : k # w
  BY DEF ProcessAssumption, Wakers

LEMMA InitReach == ASSUME SlotsAssumption, ProcessAssumption, Init PROVE ReachInv
<1>1. Cardinality(Decrs) \in Nat /\ Cardinality(Incrs) \in Nat
  BY FS_CardinalityType DEF ProcessAssumption
<1>2. TypeOK
  <2>1. value \in Int
    BY <1>1 DEF Init, SlotsAssumption
  <2>2. /\ slot \in [Slots -> [fiber : Waiters \cup {Null}, inuse : BOOLEAN, value : Int]]
        /\ fib \in [Wakers -> Waiters \cup {Null}]
    BY DEF Init
  <2>3. /\ pc \in [Waiters \cup Wakers -> WaiterPC \cup WakerPC]
        /\ val \in [Waiters \cup Wakers -> Int]
    BY DEF Init, WaiterPC, WakerPC
  <2>4. idx \in [Waiters \cup Wakers -> 1 .. NumSlots + 1]
    BY DEF Init, SlotsAssumption
  <2>5. /\ ready \in [Waiters -> Nat] /\ waits \in [Waiters -> 0 .. MaxWaits]
        /\ seen \subseteq Waiters
    BY DEF Init, SlotsAssumption
  <2>6. freed \in BOOLEAN /\ reached \in BOOLEAN
    BY DEF Init
  <2>7. QED BY <2>1, <2>2, <2>3, <2>4, <2>5, <2>6 DEF TypeOK
<1>3. /\ value = Target => reached
      /\ \A i \in Slots : slot[i].inuse
      /\ \A k \in Wakers : pc[k] = "start"
      /\ \A w \in Waiters : pc[w] = "idle" /\ ready[w] = 0
  BY Apart DEF Init
<1>4. ASSUME NEW k \in Wakers PROVE WakerInv(k)
  BY <1>3 DEF WakerInv, WakerPC
<1>5. ASSUME NEW w \in Waiters PROVE WaiterInv(w)
  BY <1>3 DEF WaiterInv, WaiterPC
<1>6. QED BY <1>2, <1>3, <1>4, <1>5 DEF ReachInv

\* What a step of p may not do to the others.
Frame(p) ==
  /\ reached => reached'
  /\ value' = Target => reached'
  /\ \A i \in Slots : slot[i].value = Target => slot'[i].value = Target
  /\ \A i \in Slots : ~slot'[i].inuse => slot'[i].value = Target
  /\ \A l \in (Waiters \cup Wakers) \ {p} : pc'[l] = pc[l] /\ idx'[l] = idx[l] /\ val'[l] = val[l]
  /\ \A l \in Wakers \ {p} : fib'[l] = fib[l]
  /\ \A w \in Waiters \ {p} : ready'[w] > 0 => ready[w] > 0 \/ reached

LEMMA Carries ==
  ASSUME ReachInv, NEW p \in Waiters \cup Wakers, Frame(p), TypeOK',
         p \in Wakers => WakerInv(p)', p \in Waiters => WaiterInv(p)'
  PROVE  ReachInv'
<1>1. ASSUME NEW k \in Wakers, k # p PROVE WakerInv(k)'
  BY <1>1 DEF Frame, WakerInv, ReachInv
<1>2. ASSUME NEW w \in Waiters, w # p PROVE WaiterInv(w)'
  BY <1>2 DEF Frame, WaiterInv, ReachInv
<1>3. \A i \in Slots : ~slot'[i].inuse => slot'[i].value = Target
  BY DEF Frame
<1>4. QED BY <1>1, <1>2, <1>3 DEF ReachInv, Frame

\* NextSlot keeps the types, its loop variable being within the slots.
LEMMA NextSlotType ==
  ASSUME SlotsAssumption, TypeOK, NEW k \in Wakers, idx[k] \in Slots, NextSlot(k)
  PROVE  /\ idx' \in [Waiters \cup Wakers -> 1 .. NumSlots + 1]
         /\ fib' \in [Wakers -> Waiters \cup {Null}]
         /\ pc' \in [Waiters \cup Wakers -> WaiterPC \cup WakerPC]
<1>1. idx[k] + 1 \in 1 .. NumSlots + 1 /\ idx' = [idx EXCEPT ![k] = idx[k] + 1]
  BY DEF NextSlot, Slots, SlotsAssumption
<1>2. idx' \in [Waiters \cup Wakers -> 1 .. NumSlots + 1]
  BY <1>1 DEF TypeOK
<1>3. fib' \in [Wakers -> Waiters \cup {Null}]
  BY DEF NextSlot, TypeOK
<1>4. pc' \in [Waiters \cup Wakers -> WaiterPC \cup WakerPC]
  BY DEF NextSlot, Goto, TypeOK, WakerPC
<1>5. QED BY <1>2, <1>3, <1>4

LEMMA WakerReach ==
  ASSUME SlotsAssumption, ProcessAssumption, ReachInv, NEW k \in Wakers, WakerGoes(k)
  PROVE  ReachInv'
<1> USE Apart DEF SlotsAssumption
<1>0. TypeOK
  BY DEF ReachInv
<1>1. CASE Decr(k)
  <2>1. TypeOK'
    BY <1>1 DEF Decr, Change, ReachInv, TypeOK, Goto, NextSlot, Waiting, WakerPC, WaiterPC, Slots
  <2>2. Frame(k)
    BY <1>1 DEF Decr, Change, Frame, ReachInv, WakerInv, TypeOK, Goto, NextSlot, Waiting, WakerPC, WaiterPC, Slots
  <2>3. WakerInv(k)'
    BY <1>1 DEF Decr, Change, ReachInv, WakerInv, TypeOK, Goto, NextSlot, Waiting, WakerPC, WaiterPC, Slots
  <2>4. QED BY <2>1, <2>2, <2>3, Carries
<1>2. CASE Incr(k)
  <2>1. TypeOK'
    BY <1>2 DEF Incr, Change, ReachInv, TypeOK, Goto, NextSlot, Waiting, WakerPC, WaiterPC, Slots
  <2>2. Frame(k)
    BY <1>2 DEF Incr, Change, Frame, ReachInv, WakerInv, TypeOK, Goto, NextSlot, Waiting, WakerPC, WaiterPC, Slots
  <2>3. WakerInv(k)'
    BY <1>2 DEF Incr, Change, ReachInv, WakerInv, TypeOK, Goto, NextSlot, Waiting, WakerPC, WaiterPC, Slots
  <2>4. QED BY <2>1, <2>2, <2>3, Carries
<1>3. CASE Scan(k)
  <2>1. TypeOK'
    <3>1. TypeOK /\ idx[k] \in Slots
      BY <1>3 DEF Scan, ReachInv, WakerInv
    <3>2. CASE slot[idx[k]].fiber = Null
      <4>1. NextSlot(k) /\ UNCHANGED <<value, slot, freed, val, ready, waits, seen, reached>>
        BY <1>3, <3>2 DEF Scan
      <4>2. QED BY <3>1, <4>1, NextSlotType DEF TypeOK
    <3>3. CASE ~(slot[idx[k]].fiber = Null)
      BY <1>3, <3>1, <3>3 DEF Scan, TypeOK, Goto, Waiting, WakerPC, WaiterPC, Slots
    <3>4. QED BY <3>2, <3>3
  <2>2. Frame(k)
    BY <1>3 DEF Scan, Frame, ReachInv, WakerInv, TypeOK, Goto, NextSlot, Waiting, WakerPC, WaiterPC, Slots
  <2>3. WakerInv(k)'
    BY <1>3 DEF Scan, ReachInv, WakerInv, TypeOK, Goto, NextSlot, Waiting, WakerPC, WaiterPC, Slots
  <2>4. QED BY <2>1, <2>2, <2>3, Carries
<1>4. CASE ScanEnds(k)
  <2>1. TypeOK'
    BY <1>4 DEF ScanEnds, ReachInv, TypeOK, Goto, NextSlot, Waiting, WakerPC, WaiterPC, Slots
  <2>2. Frame(k)
    BY <1>4 DEF ScanEnds, Frame, ReachInv, WakerInv, TypeOK, Goto, NextSlot, Waiting, WakerPC, WaiterPC, Slots
  <2>3. WakerInv(k)'
    BY <1>4 DEF ScanEnds, ReachInv, WakerInv, TypeOK, Goto, NextSlot, Waiting, WakerPC, WaiterPC, Slots
  <2>4. QED BY <2>1, <2>2, <2>3, Carries
<1>5. CASE ScanInUse(k)
  <2>1. TypeOK'
    <3>1. TypeOK /\ idx[k] \in Slots
      BY <1>5 DEF ScanInUse, ReachInv, WakerInv
    <3>2. CASE slot[idx[k]].inuse
      <4>1. NextSlot(k) /\ UNCHANGED <<value, slot, freed, val, ready, waits, seen, reached>>
        BY <1>5, <3>2 DEF ScanInUse
      <4>2. QED BY <3>1, <4>1, NextSlotType DEF TypeOK
    <3>3. CASE ~(slot[idx[k]].inuse)
      BY <1>5, <3>1, <3>3 DEF ScanInUse, TypeOK, Goto, Waiting, WakerPC, WaiterPC, Slots
    <3>4. QED BY <3>2, <3>3
  <2>2. Frame(k)
    BY <1>5 DEF ScanInUse, Frame, ReachInv, WakerInv, TypeOK, Goto, NextSlot, Waiting, WakerPC, WaiterPC, Slots
  <2>3. WakerInv(k)'
    BY <1>5 DEF ScanInUse, ReachInv, WakerInv, TypeOK, Goto, NextSlot, Waiting, WakerPC, WaiterPC, Slots
  <2>4. QED BY <2>1, <2>2, <2>3, Carries
<1>6. CASE ScanValue(k)
  <2>1. TypeOK'
    <3>1. TypeOK /\ idx[k] \in Slots
      BY <1>6 DEF ScanValue, ReachInv, WakerInv
    <3>2. CASE slot[idx[k]].value # val[k]
      <4>1. NextSlot(k) /\ UNCHANGED <<value, slot, freed, val, ready, waits, seen, reached>>
        BY <1>6, <3>2 DEF ScanValue
      <4>2. QED BY <3>1, <4>1, NextSlotType DEF TypeOK
    <3>3. CASE ~(slot[idx[k]].value # val[k])
      BY <1>6, <3>1, <3>3 DEF ScanValue, TypeOK, Goto, Waiting, WakerPC, WaiterPC, Slots
    <3>4. QED BY <3>2, <3>3
  <2>2. Frame(k)
    BY <1>6 DEF ScanValue, Frame, ReachInv, WakerInv, TypeOK, Goto, NextSlot, Waiting, WakerPC, WaiterPC, Slots
  <2>3. WakerInv(k)'
    BY <1>6 DEF ScanValue, ReachInv, WakerInv, TypeOK, Goto, NextSlot, Waiting, WakerPC, WaiterPC, Slots
  <2>4. QED BY <2>1, <2>2, <2>3, Carries
<1>7. CASE Take(k)
  <2>1. TypeOK'
    <3>1. TypeOK /\ idx[k] \in Slots
      BY <1>7 DEF Take, ReachInv, WakerInv
    <3>2. CASE slot[idx[k]].inuse
      <4>1. NextSlot(k) /\ UNCHANGED <<value, slot, freed, val, ready, waits, seen, reached>>
        BY <1>7, <3>2 DEF Take
      <4>2. QED BY <3>1, <4>1, NextSlotType DEF TypeOK
    <3>3. CASE ~slot[idx[k]].inuse
      <4>1. /\ slot' = [slot EXCEPT ![idx[k]].inuse = TRUE] /\ pc' = [pc EXCEPT ![k] = "clear"]
            /\ UNCHANGED <<value, freed, idx, fib, val, ready, waits, seen, reached>>
        BY <1>7, <3>3 DEF Take, Goto
      <4>2. QED BY <3>1, <4>1 DEF TypeOK, WakerPC
    <3>4. QED BY <3>2, <3>3
  <2>2. Frame(k)
    <3>1. CASE slot[idx[k]].inuse
      BY <1>7, <3>1 DEF Take, Frame, ReachInv, TypeOK, Goto, NextSlot, Waiting, WakerPC, WaiterPC, Slots
    <3>2. CASE ~slot[idx[k]].inuse
      <4>1. /\ slot' = [slot EXCEPT ![idx[k]].inuse = TRUE] /\ pc' = [pc EXCEPT ![k] = "clear"]
            /\ UNCHANGED <<value, freed, idx, fib, val, ready, waits, seen, reached>>
        BY <1>7, <3>2 DEF Take, Goto
      <4>2. QED BY <1>7, <4>1 DEF Take, Frame, ReachInv, WakerInv, TypeOK
    <3>3. QED BY <3>1, <3>2
  <2>3. WakerInv(k)'
    BY <1>7 DEF Take, ReachInv, WakerInv, TypeOK, Goto, NextSlot, Waiting, WakerPC, WaiterPC, Slots
  <2>4. QED BY <2>1, <2>2, <2>3, Carries
<1>8. CASE Clear(k)
  <2>1. TypeOK'
    BY <1>8, <1>0 DEF Clear, TypeOK, Goto, WakerPC
  <2>2. Frame(k)
    BY <1>8 DEF Clear, Frame, ReachInv, WakerInv, TypeOK, Goto, NextSlot, Waiting, WakerPC, WaiterPC, Slots
  <2>3. WakerInv(k)'
    BY <1>8 DEF Clear, ReachInv, WakerInv, TypeOK, Goto, NextSlot, Waiting, WakerPC, WaiterPC, Slots
  <2>4. QED BY <2>1, <2>2, <2>3, Carries
<1>9. CASE Wake(k)
  <2>1. TypeOK'
    <3>1. TypeOK /\ idx[k] \in Slots /\ fib[k] \in Waiters
      BY <1>9 DEF Wake, ReachInv, WakerInv
    <3>2. NextSlot(k) /\ UNCHANGED <<value, slot, freed, val, waits, seen, reached>>
      BY <1>9 DEF Wake
    <3>3. ready' \in [Waiters -> Nat]
      BY <1>9, <3>1 DEF Wake, TypeOK
    <3>4. QED BY <3>1, <3>2, <3>3, NextSlotType DEF TypeOK
  <2>2. Frame(k)
    BY <1>9 DEF Wake, Frame, ReachInv, WakerInv, TypeOK, Goto, NextSlot, Waiting, WakerPC, WaiterPC, Slots
  <2>3. WakerInv(k)'
    BY <1>9 DEF Wake, ReachInv, WakerInv, TypeOK, Goto, NextSlot, Waiting, WakerPC, WaiterPC, Slots
  <2>4. QED BY <2>1, <2>2, <2>3, Carries
<1>10. QED BY <1>1, <1>2, <1>3, <1>4, <1>5, <1>6, <1>7, <1>8, <1>9 DEF WakerGoes, WakerStep

\* The steps of a waiter.
LEMMA WaiterReach ==
  ASSUME SlotsAssumption, ProcessAssumption, ReachInv, NEW w \in Waiters, CallWait(w) \/ WaiterStep(w)
  PROVE  ReachInv'
<1> USE Apart DEF SlotsAssumption
<1>0. TypeOK
  BY DEF ReachInv
<1>1. CASE CallWait(w)
  <2>1. TypeOK'
    <3>1. idx' \in [Waiters \cup Wakers -> 1 .. NumSlots + 1] /\ waits' \in [Waiters -> 0 .. MaxWaits]
      BY <1>1, <1>0 DEF CallWait, TypeOK
    <3>2. pc' \in [Waiters \cup Wakers -> WaiterPC \cup WakerPC] /\ seen' \subseteq Waiters
      BY <1>1, <1>0 DEF CallWait, TypeOK, Goto, WaiterPC
    <3>3. QED BY <1>1, <1>0, <3>1, <3>2 DEF CallWait, TypeOK
  <2>2. Frame(w)
    BY <1>1 DEF CallWait, Frame, ReachInv, WaiterInv, TypeOK, Goto, Waiting, WakerPC, WaiterPC, Slots
  <2>3. WaiterInv(w)'
    BY <1>1 DEF CallWait, ReachInv, WaiterInv, TypeOK, Goto, Waiting, WakerPC, WaiterPC, Slots
  <2>4. QED BY <2>1, <2>2, <2>3, Carries
<1>2. CASE Claim(w)
  <2>1. TypeOK'
    <3>1. CASE slot[idx[w]].fiber = Null
      <4>1. /\ slot' = [slot EXCEPT ![idx[w]].fiber = w] /\ pc' = [pc EXCEPT ![w] = "set"]
            /\ UNCHANGED <<value, freed, idx, fib, val, ready, waits, seen, reached>>
        BY <1>2, <3>1 DEF Claim, Goto
      <4>2. QED BY <1>2, <4>1 DEF Claim, ReachInv, TypeOK, WaiterPC
    <3>2. CASE slot[idx[w]].fiber # Null
      <4>1. /\ idx' = [idx EXCEPT ![w] = @ + 1] /\ idx[w] + 1 \in 1 .. NumSlots + 1
            /\ UNCHANGED <<value, slot, pc, freed, fib, val, ready, waits, seen, reached>>
        BY <1>2, <3>2 DEF Claim, Slots
      <4>2. QED BY <4>1 DEF ReachInv, TypeOK
    <3>3. QED BY <3>1, <3>2
  <2>2. Frame(w)
    <3>1. CASE slot[idx[w]].fiber = Null
      <4>1. /\ slot' = [slot EXCEPT ![idx[w]].fiber = w] /\ pc' = [pc EXCEPT ![w] = "set"]
            /\ UNCHANGED <<value, freed, idx, fib, val, ready, waits, seen, reached>>
        BY <1>2, <3>1 DEF Claim, Goto
      <4>2. QED BY <1>2, <4>1 DEF Claim, Frame, ReachInv, TypeOK
    <3>2. CASE ~(slot[idx[w]].fiber = Null)
      BY <1>2, <3>2 DEF Claim, Frame, ReachInv, WaiterInv, TypeOK, Goto, Waiting, WakerPC, WaiterPC, Slots
    <3>3. QED BY <3>1, <3>2
  <2>3. WaiterInv(w)'
    BY <1>2 DEF Claim, ReachInv, WaiterInv, TypeOK, Goto, Waiting, WakerPC, WaiterPC, Slots
  <2>4. QED BY <2>1, <2>2, <2>3, Carries
<1>3. CASE NoSlot(w)
  <2>1. TypeOK'
    BY <1>3 DEF NoSlot, ReachInv, TypeOK, Goto, Waiting, WakerPC, WaiterPC, Slots
  <2>2. Frame(w)
    BY <1>3 DEF NoSlot, Frame, ReachInv, WaiterInv, TypeOK, Goto, Waiting, WakerPC, WaiterPC, Slots
  <2>3. WaiterInv(w)'
    BY <1>3 DEF NoSlot, ReachInv, WaiterInv, TypeOK, Goto, Waiting, WakerPC, WaiterPC, Slots
  <2>4. QED BY <2>1, <2>2, <2>3, Carries
<1>4. CASE SetValue(w)
  <2>1. TypeOK'
    <3>1. slot' \in [Slots -> [fiber : Waiters \cup {Null}, inuse : BOOLEAN, value : Int]]
      BY <1>4, <1>0 DEF SetValue, TypeOK
    <3>2. pc' \in [Waiters \cup Wakers -> WaiterPC \cup WakerPC]
      BY <1>4, <1>0 DEF SetValue, TypeOK, Goto, WaiterPC
    <3>3. QED BY <1>4, <1>0, <3>1, <3>2 DEF SetValue, TypeOK
  <2>2. Frame(w)
    BY <1>4 DEF SetValue, Frame, ReachInv, WaiterInv, TypeOK, Goto, Waiting, WakerPC, WaiterPC, Slots
  <2>3. WaiterInv(w)'
    BY <1>4 DEF SetValue, ReachInv, WaiterInv, TypeOK, Goto, Waiting, WakerPC, WaiterPC, Slots
  <2>4. QED BY <2>1, <2>2, <2>3, Carries
<1>5. CASE Arm(w)
  <2>1. TypeOK'
    <3>1. slot' \in [Slots -> [fiber : Waiters \cup {Null}, inuse : BOOLEAN, value : Int]]
      <4>1. /\ slot \in [Slots -> [fiber : Waiters \cup {Null}, inuse : BOOLEAN, value : Int]]
            /\ slot' = [slot EXCEPT ![idx[w]] = [slot[idx[w]] EXCEPT !.inuse = FALSE]]
        BY <1>5, <1>0 DEF Arm, TypeOK
      <4>2. CASE idx[w] \in Slots
        BY <4>1, <4>2
      <4>3. CASE idx[w] \notin Slots
        BY <4>1, <4>3
      <4>4. QED BY <4>2, <4>3
    <3>2. pc' \in [Waiters \cup Wakers -> WaiterPC \cup WakerPC]
      BY <1>5, <1>0 DEF Arm, TypeOK, Goto, WaiterPC
    <3>3. QED BY <1>5, <1>0, <3>1, <3>2 DEF Arm, TypeOK
  <2>2. Frame(w)
    BY <1>5 DEF Arm, Frame, ReachInv, WaiterInv, TypeOK, Goto, Waiting, WakerPC, WaiterPC, Slots
  <2>3. WaiterInv(w)'
    BY <1>5 DEF Arm, ReachInv, WaiterInv, TypeOK, Goto, Waiting, WakerPC, WaiterPC, Slots
  <2>4. QED BY <2>1, <2>2, <2>3, Carries
<1>6. CASE Probe(w)
  <2>1. TypeOK'
    BY <1>6 DEF Probe, ReachInv, TypeOK, Goto, Waiting, WakerPC, WaiterPC, Slots
  <2>2. Frame(w)
    BY <1>6 DEF Probe, Frame, ReachInv, WaiterInv, TypeOK, Goto, Waiting, WakerPC, WaiterPC, Slots
  <2>3. WaiterInv(w)'
    BY <1>6 DEF Probe, ReachInv, WaiterInv, TypeOK, Goto, Waiting, WakerPC, WaiterPC, Slots
  <2>4. QED BY <2>1, <2>2, <2>3, Carries
<1>7. CASE CheckInUse(w)
  <2>1. TypeOK'
    BY <1>7 DEF CheckInUse, ReachInv, TypeOK, Goto, Waiting, WakerPC, WaiterPC, Slots
  <2>2. Frame(w)
    BY <1>7 DEF CheckInUse, Frame, ReachInv, WaiterInv, TypeOK, Goto, Waiting, WakerPC, WaiterPC, Slots
  <2>3. WaiterInv(w)'
    BY <1>7 DEF CheckInUse, ReachInv, WaiterInv, TypeOK, Goto, Waiting, WakerPC, WaiterPC, Slots
  <2>4. QED BY <2>1, <2>2, <2>3, Carries
<1>8. CASE Compare(w)
  <2>1. TypeOK'
    BY <1>8 DEF Compare, ReachInv, TypeOK, Goto, Waiting, WakerPC, WaiterPC, Slots
  <2>2. Frame(w)
    BY <1>8 DEF Compare, Frame, ReachInv, WaiterInv, TypeOK, Goto, Waiting, WakerPC, WaiterPC, Slots
  <2>3. WaiterInv(w)'
    BY <1>8 DEF Compare, ReachInv, WaiterInv, TypeOK, Goto, Waiting, WakerPC, WaiterPC, Slots
  <2>4. QED BY <2>1, <2>2, <2>3, Carries
<1>9. CASE TakeBack(w)
  <2>1. TypeOK'
    <3>1. CASE slot[idx[w]].inuse
      BY <1>9, <3>1 DEF TakeBack, ReachInv, WaiterInv, TypeOK, Goto, Waiting, WakerPC, WaiterPC, Slots
    <3>2. CASE ~slot[idx[w]].inuse
      <4>1. /\ slot' = [slot EXCEPT ![idx[w]].inuse = TRUE] /\ pc' = [pc EXCEPT ![w] = "unhook"]
            /\ UNCHANGED <<value, freed, idx, fib, val, ready, waits, seen, reached>>
        BY <1>9, <3>2 DEF TakeBack, Goto
      <4>2. pc[w] = "self" /\ idx[w] \in Slots /\ TypeOK
        BY <1>9 DEF TakeBack, ReachInv, WaiterInv
      <4>3. slot' \in [Slots -> [fiber : Waiters \cup {Null}, inuse : BOOLEAN, value : Int]]
        BY <4>1, <4>2 DEF TypeOK
      <4>4. pc' \in [Waiters \cup Wakers -> WaiterPC \cup WakerPC]
        BY <4>1, <4>2 DEF TypeOK, WaiterPC
      <4>5. QED BY <4>1, <4>2, <4>3, <4>4 DEF TypeOK
    <3>3. QED BY <3>1, <3>2
  <2>2. Frame(w)
    <3>1. CASE slot[idx[w]].inuse
      BY <1>9, <3>1 DEF TakeBack, Frame, ReachInv, WaiterInv, TypeOK, Goto, Waiting, WakerPC, WaiterPC, Slots
    <3>2. CASE ~slot[idx[w]].inuse
      <4>1. /\ slot' = [slot EXCEPT ![idx[w]].inuse = TRUE] /\ pc' = [pc EXCEPT ![w] = "unhook"]
            /\ UNCHANGED <<value, freed, idx, fib, val, ready, waits, seen, reached>>
        BY <1>9, <3>2 DEF TakeBack, Goto
      <4>2. QED BY <1>9, <4>1 DEF TakeBack, Frame, ReachInv, WaiterInv, TypeOK
    <3>3. QED BY <3>1, <3>2
  <2>3. WaiterInv(w)'
    BY <1>9 DEF TakeBack, ReachInv, WaiterInv, TypeOK, Goto, Waiting, WakerPC, WaiterPC, Slots
  <2>4. QED BY <2>1, <2>2, <2>3, Carries
<1>10. CASE Unhook(w)
  <2>1. TypeOK'
    BY <1>10, <1>0 DEF Unhook, TypeOK, Goto, WaiterPC
  <2>2. Frame(w)
    BY <1>10 DEF Unhook, Frame, ReachInv, WaiterInv, TypeOK, Goto, Waiting, WakerPC, WaiterPC, Slots
  <2>3. WaiterInv(w)'
    BY <1>10 DEF Unhook, ReachInv, WaiterInv, TypeOK, Goto, Waiting, WakerPC, WaiterPC, Slots
  <2>4. QED BY <2>1, <2>2, <2>3, Carries
<1>11. CASE Resume(w)
  <2>1. TypeOK'
    BY <1>11, <1>0 DEF Resume, TypeOK, Goto, WaiterPC
  <2>2. Frame(w)
    BY <1>11 DEF Resume, Frame, ReachInv, WaiterInv, TypeOK, Goto, Waiting, WakerPC, WaiterPC, Slots
  <2>3. WaiterInv(w)'
    BY <1>11 DEF Resume, ReachInv, WaiterInv, TypeOK, Goto, Waiting, WakerPC, WaiterPC, Slots
  <2>4. QED BY <2>1, <2>2, <2>3, Carries
<1>12. CASE Result(w)
  <2>1. TypeOK'
    BY <1>12 DEF Result, ReachInv, TypeOK, Goto, Waiting, WakerPC, WaiterPC, Slots
  <2>2. Frame(w)
    BY <1>12 DEF Result, Frame, ReachInv, WaiterInv, TypeOK, Goto, Waiting, WakerPC, WaiterPC, Slots
  <2>3. WaiterInv(w)'
    BY <1>12 DEF Result, ReachInv, WaiterInv, TypeOK, Goto, Waiting, WakerPC, WaiterPC, Slots
  <2>4. QED BY <2>1, <2>2, <2>3, Carries
<1>13. CASE Free(w)
  <2>1. TypeOK'
    BY <1>13 DEF Free, ReachInv, TypeOK, Goto, Waiting, WakerPC, WaiterPC, Slots
  <2>2. Frame(w)
    BY <1>13 DEF Free, Frame, ReachInv, WaiterInv, TypeOK, Goto, Waiting, WakerPC, WaiterPC, Slots
  <2>3. WaiterInv(w)'
    BY <1>13 DEF Free, ReachInv, WaiterInv, TypeOK, Goto, Waiting, WakerPC, WaiterPC, Slots
  <2>4. QED BY <2>1, <2>2, <2>3, Carries
<1>14. QED BY <1>1, <1>2, <1>3, <1>4, <1>5, <1>6, <1>7, <1>8, <1>9, <1>10, <1>11, <1>12, <1>13 DEF WaiterStep

LEMMA ReachInvariance ==
  ASSUME SlotsAssumption, ProcessAssumption
  PROVE  Spec => []ReachInv
<1>1. Init => ReachInv
  BY InitReach
<1>2. ReachInv /\ [Next]_vars => ReachInv'
  <2>1. SUFFICES ASSUME ReachInv, [Next]_vars PROVE ReachInv'
    OBVIOUS
  <2>2. CASE \E k \in Wakers : WakerGoes(k)
    BY <2>1, <2>2, WakerReach
  <2>3. CASE \E w \in Waiters : CallWait(w) \/ WaiterStep(w)
    BY <2>1, <2>3, WaiterReach
  <2>4. CASE UNCHANGED vars
    BY <2>1, <2>4 DEF vars, ReachInv, TypeOK, WakerInv, WaiterInv
  <2>5. QED BY <2>1, <2>2, <2>3, <2>4 DEF Next
<1>3. QED BY <1>1, <1>2, PTL DEF Spec

\* No wait returns before the counter had the value that is waited for.
THEOREM WaitsReturnAfterTarget ==
  ASSUME SlotsAssumption, ProcessAssumption
  PROVE  Spec => [](TypeOK /\ ReturnsAfterTarget)
<1>1. ReachInv => TypeOK /\ ReturnsAfterTarget
  BY DEF ReachInv, WaiterInv, ReturnsAfterTarget
<1>2. QED BY <1>1, ReachInvariance, PTL
-----------------------------------------------------------------------------
(***************************************************************************)
(* The abstract future                                                     *)
(***************************************************************************)
Outside == {"idle", "result", "free"}

LEMMA WaitingStep ==
  ASSUME TypeOK, ProcessAssumption, NEW p \in Waiters \cup Wakers, NEW l, pc' = [pc EXCEPT ![p] = l]
  PROVE  /\ p \in Wakers => Waiting' = Waiting
         /\ p \in Waiters => Waiting' = IF l \in Outside THEN Waiting \ {p} ELSE Waiting \cup {p}
<1>1. \A w \in Waiters : pc'[w] = IF w = p THEN l ELSE pc[w]
  BY DEF TypeOK
<1>2. ASSUME p \in Wakers PROVE Waiting' = Waiting
  BY <1>1, <1>2, Apart DEF Waiting
<1>3. ASSUME p \in Waiters PROVE Waiting' = IF l \in Outside THEN Waiting \ {p} ELSE Waiting \cup {p}
  BY <1>1, <1>3 DEF Waiting, Outside
<1>4. QED BY <1>2, <1>3

LEMMA WakerRefines ==
  ASSUME ProcessAssumption, ReachInv, NEW k \in Wakers, WakerGoes(k)
  PROVE  [Abs!Next]_(Abs!vars)
<1>1. TypeOK /\ k \in Waiters \cup Wakers
  BY DEF ReachInv
<1>2. Waiting' = Waiting
  <2>1. PICK l : pc' = [pc EXCEPT ![k] = l]
    BY DEF WakerGoes, WakerStep, Decr, Incr, Change, Scan, ScanEnds, ScanInUse, ScanValue,
           Take, Clear, Wake, Goto, NextSlot
  <2>2. QED BY <1>1, <2>1, WaitingStep
<1>3. CASE Decr(k) \/ Incr(k)
  <2>1. Change(k, -1) \/ Change(k, 1)
    BY <1>3 DEF Decr, Incr
  <2>2. value \in Int
    BY <1>1 DEF TypeOK
  <2>3. Abs!Change(value - 1) \/ Abs!Change(value + 1)
    BY <1>2, <2>1, <2>2 DEF Change, Abs!Change
  <2>4. QED BY <2>3 DEF Abs!Next
<1>4. CASE WakerStep(k)
  <2>1. UNCHANGED <<value, seen, reached>>
    BY <1>4 DEF WakerStep, Scan, ScanEnds, ScanInUse, ScanValue, Take, Clear, Wake
  <2>2. QED BY <1>2, <2>1 DEF Abs!vars
<1>5. QED BY <1>3, <1>4 DEF WakerGoes

LEMMA WaiterRefines ==
  ASSUME ProcessAssumption, ReachInv, NEW w \in Waiters, CallWait(w) \/ WaiterStep(w)
  PROVE  [Abs!Next]_(Abs!vars)
<1>1. TypeOK /\ w \in Waiters \cup Wakers
  BY DEF ReachInv
<1>2. CASE CallWait(w)
  <2>1. w \notin Waiting /\ Waiting' = Waiting \cup {w}
    <3>1. pc' = [pc EXCEPT ![w] = "claim"] /\ pc[w] = "idle"
      BY <1>2 DEF CallWait, Goto
    <3>2. Waiting' = IF "claim" \in Outside THEN Waiting \ {w} ELSE Waiting \cup {w}
      BY <1>1, <3>1, WaitingStep
    <3>3. QED BY <3>1, <3>2 DEF Outside, Waiting
  <2>2. Abs!Call(w)
    BY <1>2, <2>1 DEF CallWait, Abs!Call
  <2>3. QED BY <2>2 DEF Abs!Next
<1>3. CASE Unhook(w) \/ Resume(w)
  <2>1. w \in Waiting /\ Waiting' = Waiting \ {w}
    <3>1. pc' = [pc EXCEPT ![w] = "result"] /\ pc[w] \in {"unhook", "yield"}
      BY <1>3 DEF Unhook, Resume, Goto
    <3>2. Waiting' = IF "result" \in Outside THEN Waiting \ {w} ELSE Waiting \cup {w}
      BY <1>1, <3>1, WaitingStep
    <3>3. QED BY <3>1, <3>2 DEF Outside, Waiting
  <2>2. reached /\ seen' = seen \ {w} /\ UNCHANGED <<value, reached>>
    BY <1>3 DEF Unhook, Resume, ReachInv, WaiterInv
  <2>3. Abs!Return(w)
    BY <2>1, <2>2 DEF Abs!Return
  <2>4. QED BY <2>3 DEF Abs!Next
<1>4. CASE Result(w) \/ Free(w)
  <2>1. PICK l \in Outside : pc' = [pc EXCEPT ![w] = l]
    BY <1>4 DEF Result, Free, Goto, Outside
  <2>2. w \notin Waiting
    BY <1>4 DEF Result, Free, Waiting
  <2>3. Waiting' = Waiting
    BY <1>1, <2>1, <2>2, WaitingStep
  <2>4. QED BY <1>4, <2>3 DEF Result, Free, Abs!vars
<1>5. CASE Claim(w) \/ NoSlot(w) \/ SetValue(w) \/ Arm(w) \/ Probe(w) \/ CheckInUse(w) \/ Compare(w) \/ TakeBack(w)
  <2>1. w \in Waiting /\ UNCHANGED <<value, seen, reached>>
    BY <1>5 DEF Claim, NoSlot, SetValue, Arm, Probe, CheckInUse, Compare, TakeBack, Waiting
  <2>2. (\E l : l \notin Outside /\ pc' = [pc EXCEPT ![w] = l]) \/ pc' = pc
    BY <1>5 DEF Claim, NoSlot, SetValue, Arm, Probe, CheckInUse, Compare, TakeBack, Goto, Outside
  <2>3. Waiting' = Waiting
    <3>1. CASE pc' = pc
      BY <3>1 DEF Waiting
    <3>2. CASE \E l : l \notin Outside /\ pc' = [pc EXCEPT ![w] = l]
      <4>1. PICK l : l \notin Outside /\ pc' = [pc EXCEPT ![w] = l]
        BY <3>2
      <4>2. Waiting' = Waiting \cup {w}
        BY <1>1, <4>1, WaitingStep
      <4>3. QED BY <2>1, <4>2
    <3>3. QED BY <2>2, <3>1, <3>2
  <2>4. QED BY <2>1, <2>3 DEF Abs!vars
<1>6. QED BY <1>2, <1>3, <1>4, <1>5 DEF WaiterStep

\* Each step of the future is a call, a change of the counter or a return that
\* the abstract future allows, or nothing to those who use it.
THEOREM FutureRefinesAbstract ==
  ASSUME SlotsAssumption, ProcessAssumption
  PROVE  Spec => RefinesAbstractFuture
<1>1. Init => Abs!Init
  BY DEF Init, Abs!Init, Waiting
<1>2. ReachInv /\ [Next]_vars => [Abs!Next]_(Abs!vars)
  <2>1. SUFFICES ASSUME ReachInv, [Next]_vars PROVE [Abs!Next]_(Abs!vars)
    OBVIOUS
  <2>2. CASE UNCHANGED vars
    BY <2>2 DEF vars, Abs!vars, Waiting
  <2>3. QED BY <2>1, <2>2, WakerRefines, WaiterRefines DEF Next
<1>3. QED BY <1>1, <1>2, ReachInvariance, PTL DEF Spec, RefinesAbstractFuture, Abs!Safety
-----------------------------------------------------------------------------
(***************************************************************************)
(* await frees the future last                                             *)
(***************************************************************************)
LEMMA InitCount ==
  ASSUME SlotsAssumption, ProcessAssumption, Incrs = {}, Init
  PROVE  CountInv
<1>1. Pending = Decrs
  BY Apart DEF Pending, Init, Wakers
<1>2. Cardinality(Incrs) = 0 /\ Cardinality(Decrs) \in Nat
  BY FS_EmptySet, FS_CardinalityType DEF ProcessAssumption
<1>3. value = Target + Cardinality(Decrs)
  BY <1>2 DEF Init, SlotsAssumption
<1>4. QED BY <1>1, <1>3 DEF CountInv, Init

LEMMA NextCount ==
  ASSUME SlotsAssumption, ProcessAssumption, Incrs = {}, ReachInv, CountInv, [Next]_vars
  PROVE  CountInv'
<1>1. TypeOK /\ IsFiniteSet(Pending) /\ Pending \subseteq Waiters \cup Wakers
  <2>1. Pending \subseteq Decrs
    BY DEF Pending
  <2>2. QED BY <2>1, FS_Subset DEF ReachInv, ProcessAssumption, Wakers
<1>2. ASSUME NEW k \in Decrs, Decr(k) PROVE CountInv'
  <2>1. /\ pc[k] = "start" /\ pc' = [pc EXCEPT ![k] = "scan"] /\ freed' = freed
        /\ value' = value - 1 /\ reached' = (reached \/ value - 1 = Target)
    BY <1>1, <1>2 DEF Decr, Change, Goto, TypeOK
  <2>2. Pending' = Pending \ {k} /\ k \in Pending
    BY <1>1, <2>1 DEF Pending, TypeOK, Wakers
  <2>3. Cardinality(Pending \ {k}) = Cardinality(Pending) - 1 /\ Cardinality(Pending) \in Nat /\ Cardinality(Pending) # 0
    BY <1>1, <2>2, FS_RemoveElement, FS_EmptySet, FS_CardinalityType
  <2>4. value' = Target + Cardinality(Pending')
    BY <2>1, <2>2, <2>3 DEF CountInv, SlotsAssumption
  <2>5. value # Target
    BY <2>3 DEF CountInv, SlotsAssumption
  <2>6. ~reached /\ ~freed
    BY <2>5 DEF CountInv
  <2>7. QED BY <2>1, <2>4, <2>6 DEF CountInv
<1>3. ASSUME UNCHANGED <<value, reached>>, Pending' = Pending, freed' => freed \/ reached
      PROVE  CountInv'
  BY <1>3 DEF CountInv
<1>4. ASSUME NEW k \in Wakers, WakerStep(k) PROVE CountInv'
  <2>1. UNCHANGED <<value, reached, freed>> /\ pc[k] # "start"
    BY <1>4 DEF WakerStep, Scan, ScanEnds, ScanInUse, ScanValue, Take, Clear, Wake
  <2>2. PICK l \in WakerPC : pc' = [pc EXCEPT ![k] = l] /\ l # "start"
    BY <1>4 DEF WakerStep, Scan, ScanEnds, ScanInUse, ScanValue, Take, Clear, Wake, Goto, NextSlot, WakerPC
  <2>3. Pending' = Pending
    BY <1>1, <2>1, <2>2 DEF Pending, TypeOK, Wakers
  <2>4. QED BY <1>3, <2>1, <2>3
<1>5. ASSUME NEW w \in Waiters, CallWait(w) \/ WaiterStep(w) PROVE CountInv'
  <2>1. UNCHANGED <<value, reached>>
    BY <1>5 DEF CallWait, WaiterStep, Claim, NoSlot, SetValue, Arm, Probe, CheckInUse, Compare,
                TakeBack, Unhook, Resume, Result, Free
  <2>2. freed' => freed \/ reached
    BY <1>5 DEF CallWait, WaiterStep, Claim, NoSlot, SetValue, Arm, Probe, CheckInUse, Compare,
                TakeBack, Unhook, Resume, Result, Free, ReachInv, WaiterInv
  <2>3. (\E l : pc' = [pc EXCEPT ![w] = l]) \/ pc' = pc
    BY <1>5 DEF CallWait, WaiterStep, Claim, NoSlot, SetValue, Arm, Probe, CheckInUse, Compare,
                TakeBack, Unhook, Resume, Result, Free, Goto
  <2>4. \A k \in Decrs : pc'[k] = pc[k]
    BY <1>1, <2>3, Apart DEF TypeOK, Wakers
  <2>5. QED BY <1>3, <2>1, <2>2, <2>4 DEF Pending
<1>6. CASE UNCHANGED vars
  BY <1>6 DEF vars, CountInv, Pending
<1>7. QED BY <1>2, <1>4, <1>5, <1>6 DEF Next, WakerGoes, Decr, Incr

\* A future that is only counted down is freed when every decrement is done,
\* and stays at its target.
THEOREM AwaitFreesAfterAll ==
  ASSUME SlotsAssumption, ProcessAssumption, Incrs = {}
  PROVE  Spec => []AwaitFreesLast
<1>1. Init => CountInv
  BY InitCount
<1>2. ReachInv /\ CountInv /\ [Next]_vars => CountInv'
  BY NextCount
<1>3. ReachInv /\ CountInv => AwaitFreesLast
  <2>1. SUFFICES ASSUME CountInv, freed PROVE value = Target /\ \A k \in Decrs : pc[k] # "start"
    BY DEF AwaitFreesLast
  <2>2. value = Target /\ value = Target + Cardinality(Pending)
    BY <2>1 DEF CountInv
  <2>3. IsFiniteSet(Pending)
    BY FS_Subset DEF Pending, ProcessAssumption
  <2>4. Cardinality(Pending) \in Nat
    BY <2>3, FS_CardinalityType
  <2>5. Cardinality(Pending) = 0
    BY <2>2, <2>4 DEF SlotsAssumption
  <2>6. Pending = {}
    BY <2>3, <2>5, FS_EmptySet
  <2>7. QED BY <2>2, <2>6 DEF Pending
<1>4. QED BY <1>1, <1>2, <1>3, ReachInvariance, PTL DEF Spec

-----------------------------------------------------------------------------
(***************************************************************************)
(* One waiter: no wake-up is lost, none is left over                       *)
(***************************************************************************)
LEMMA InitPlace ==
  ASSUME SlotsAssumption, ProcessAssumption, NEW w, Waiters = {w}, Init
  PROVE  PlaceInv(w) /\ MetInv(w)
<1>1. /\ \A k \in Wakers : idx[k] = 1 /\ pc[k] = "start"
      /\ pc[w] = "idle" /\ ready[w] = 0 /\ \A i \in Slots : Vacant(i)
  BY Apart DEF Init, Vacant
<1>2. NoneHolds
  BY <1>1 DEF NoneHolds, Holds
<1>3. PlaceInv(w)
  BY <1>1, <1>2 DEF PlaceInv
<1>4. MetInv(w)
  BY <1>1 DEF MetInv, Unmet
<1>5. QED BY <1>3, <1>4

\* What leaves the slots, the ready list and the wakers that hold the waiter
\* alone leaves it where it is.
LEMMA SamePlace ==
  ASSUME NEW w, UNCHANGED <<slot, ready>>, idx'[w] = idx[w],
         \A l \in Wakers : (Holds(l)' <=> Holds(l)) /\ (Holds(l) => idx'[l] = idx[l] /\ pc'[l] = pc[l])
  PROVE  /\ NoneHolds' <=> NoneHolds
         /\ Armed(w)' <=> Armed(w)
         /\ Armed(w) \/ Taken(w) \/ Awake(w) => Armed(w)' \/ Taken(w)' \/ Awake(w)'
<1>1. NoneHolds' <=> NoneHolds
  BY DEF NoneHolds
<1>2. (Armed(w)' <=> Armed(w)) /\ (Awake(w) => Awake(w)')
  BY <1>1 DEF Armed, Awake, Vacant
<1>3. ASSUME Taken(w) PROVE Taken(w)'
  BY <1>3 DEF Taken
<1>4. QED BY <1>1, <1>2, <1>3

\* A waker that only looks.
LEMMA Looking ==
  ASSUME NEW w, NEW k \in Wakers, k # w, PlaceInv(w), TypeOK,
         UNCHANGED <<slot, ready>>, idx'[w] = idx[w], pc'[w] = pc[w], ~Holds(k), ~Holds(k)',
         \A l \in Wakers : l # k => idx'[l] = idx[l] /\ pc'[l] = pc[l],
         idx'[k] \in Nat /\ idx'[k] >= 1 /\ pc'[k] # "start"
  PROVE  PlaceInv(w)' /\ (Armed(w)' <=> Armed(w))
<1>1. \A l \in Wakers : (Holds(l)' <=> Holds(l)) /\ (Holds(l) => idx'[l] = idx[l] /\ pc'[l] = pc[l])
  BY DEF Holds
<1>2. /\ NoneHolds' <=> NoneHolds
      /\ Armed(w)' <=> Armed(w)
      /\ Armed(w) \/ Taken(w) \/ Awake(w) => Armed(w)' \/ Taken(w)' \/ Awake(w)'
  BY <1>1, SamePlace
<1>3. QED BY <1>2 DEF PlaceInv, Vacant

\* A slot in which no waker holds and nobody sleeps is not in use: an armed
\* slot is that of the waiter.
LEMMA OnlyArmed ==
  ASSUME NEW w, PlaceInv(w), pc[w] \in WaiterPC, NEW i \in Slots, ~slot[i].inuse
  PROVE  i = idx[w] /\ Armed(w) /\ pc[w] \in {"probe", "check", "compare", "self", "yield"}
  BY DEF PlaceInv, Vacant, Taken, Awake, WaiterPC

\* The wakers that are still to come past slot i, if all but k stay.
LEMMA StillComes ==
  ASSUME NEW w, NEW k \in Wakers, k # w, NEW i, MetInv(w), i = idx[w], Unmet(w)' => Unmet(w),
         \A l \in Wakers : l # k => idx'[l] = idx[l] /\ pc'[l] = pc[l] /\ val'[l] = val[l],
         idx'[w] = idx[w], Unmet(w)' /\ Comes(k, i) => Comes(k, i)'
  PROVE  MetInv(w)'
<1>1. SUFFICES ASSUME Unmet(w)' PROVE \E l \in Wakers : Comes(l, i)'
  BY DEF MetInv
<1>2. PICK l \in Wakers : Comes(l, i)
  BY <1>1 DEF MetInv
<1>3. CASE l = k
  BY <1>1, <1>2, <1>3
<1>4. CASE l # k
  BY <1>2, <1>4 DEF Comes
<1>5. QED BY <1>3, <1>4

LEMMA WakerPlace ==
  ASSUME SlotsAssumption, ProcessAssumption, NEW w, Waiters = {w}, Null # w, OneWaiterInv(w),
         NEW k \in Wakers, WakerGoes(k), ReachInv'
  PROVE  PlaceInv(w)' /\ MetInv(w)'
<1>1. /\ TypeOK /\ PlaceInv(w) /\ MetInv(w) /\ WakerInv(k) /\ WaiterInv(w) /\ k # w
      /\ w \in Waiters /\ k \in Waiters \cup Wakers /\ idx[k] \in Nat /\ idx[k] >= 1
      /\ \A i \in Slots : ~slot[i].inuse => slot[i].value = Target
  BY Apart DEF OneWaiterInv, ReachInv, PlaceInv
<1>2. ASSUME NEW l \in {"scan", "inuse", "value", "take", "done"}, NEW m,
             UNCHANGED <<value, slot, freed, val, ready, waits, seen, reached>>,
             pc[k] \in {"scan", "inuse", "value", "take"},
             m \in {idx[k], idx[k] + 1}, m # idx[k] => idx[k] # idx[w] \/ ~Armed(w) \/ val[k] # Target,
             pc' = [pc EXCEPT ![k] = l], idx' = [idx EXCEPT ![k] = m],
             l = "done" => m \notin Slots
      PROVE  PlaceInv(w)' /\ MetInv(w)'
  <2>1. /\ pc'[k] = l /\ idx'[k] = m /\ pc'[w] = pc[w] /\ idx'[w] = idx[w]
        /\ \A j \in Wakers : j # k => idx'[j] = idx[j] /\ pc'[j] = pc[j] /\ val'[j] = val[j]
    BY <1>1, <1>2 DEF TypeOK
  <2>2. m \in Nat /\ m >= 1
    BY <1>1, <1>2
  <2>3. PlaceInv(w)' /\ (Armed(w)' <=> Armed(w))
    BY <1>1, <1>2, <2>1, <2>2, Looking DEF Holds
  <2>4. Unmet(w)' => Unmet(w)
    BY <1>2, <2>1, <2>3 DEF Unmet
  <2>5. ASSUME Unmet(w)', Comes(k, idx[w]) PROVE Comes(k, idx[w])'
    <3>1. Armed(w) /\ idx[w] \in Slots /\ val[k] = Target /\ idx[k] <= idx[w] /\ idx[w] \in Nat
      BY <1>1, <1>2, <2>4, <2>5 DEF Unmet, PlaceInv, Comes, Slots
    <3>2. m <= idx[w]
      BY <1>1, <1>2, <3>1
    <3>3. l \in {"scan", "inuse", "value", "take"}
      BY <1>2, <2>2, <3>1, <3>2 DEF Slots, SlotsAssumption
    <3>4. QED BY <1>2, <2>1, <3>1, <3>2, <3>3 DEF Comes
  <2>6. QED BY <1>1, <2>1, <2>3, <2>4, <2>5, StillComes
<1> idx = [idx EXCEPT ![k] = idx[k]]
  BY <1>1 DEF TypeOK
<1>3. ASSUME NEW d \in {-1, 1}, Change(k, d) PROVE PlaceInv(w)' /\ MetInv(w)'
  <2>1. /\ value' = value + d /\ pc[k] = "start" /\ idx[k] = 1
        /\ pc'[k] = "scan" /\ idx' = idx /\ pc'[w] = pc[w] /\ val'[w] = val[w] /\ val'[k] = value'
        /\ \A j \in Wakers : j # k => pc'[j] = pc[j]
        /\ UNCHANGED <<slot, ready>>
    BY <1>1, <1>3 DEF TypeOK, Change, Goto, PlaceInv
  <2>2. PlaceInv(w)' /\ (Armed(w)' <=> Armed(w))
    BY <1>1, <2>1, Looking DEF Holds
  <2>3. ASSUME Unmet(w)' PROVE Comes(k, idx[w])'
    <3>1. idx[w] \in Slots /\ value' = Target
      BY <1>1, <2>1, <2>3 DEF Unmet, PlaceInv
    <3>2. QED BY <2>1, <3>1 DEF Comes, Slots, SlotsAssumption
  <2>4. QED BY <2>1, <2>2, <2>3 DEF MetInv
<1>4. CASE Scan(k)
  <2>1. CASE slot[idx[k]].fiber = Null
    BY <1>1, <1>2, <1>4, <2>1 DEF Scan, NextSlot, Goto, Armed
  <2>2. CASE slot[idx[k]].fiber # Null
    BY <1>1, <1>2, <1>4, <2>2 DEF Scan, Goto, TypeOK
  <2>3. QED BY <2>1, <2>2
<1>5. CASE ScanEnds(k)
  BY <1>1, <1>2, <1>5 DEF ScanEnds, Goto, TypeOK
<1>6. CASE ScanInUse(k)
  <2>1. CASE slot[idx[k]].inuse
    BY <1>1, <1>2, <1>6, <2>1 DEF ScanInUse, NextSlot, Goto, Armed
  <2>2. CASE ~slot[idx[k]].inuse
    BY <1>1, <1>2, <1>6, <2>2 DEF ScanInUse, Goto, TypeOK
  <2>3. QED BY <2>1, <2>2
<1>7. CASE ScanValue(k)
  <2>1. CASE slot[idx[k]].value # val[k]
    <3>1. idx[k] \in Slots /\ (idx[k] = idx[w] /\ Armed(w) => val[k] # Target)
      BY <1>1, <1>7, <2>1 DEF ScanValue, WakerInv, Armed
    <3>2. QED BY <1>1, <1>2, <1>7, <2>1, <3>1 DEF ScanValue, NextSlot, Goto
  <2>2. CASE slot[idx[k]].value = val[k]
    BY <1>1, <1>2, <1>7, <2>2 DEF ScanValue, Goto, TypeOK
  <2>3. QED BY <2>1, <2>2
<1>8. CASE Take(k)
  <2>1. CASE slot[idx[k]].inuse
    BY <1>1, <1>2, <1>8, <2>1 DEF Take, NextSlot, Goto, Armed
  <2>2. CASE ~slot[idx[k]].inuse
    <3>1. /\ slot' = [slot EXCEPT ![idx[k]].inuse = TRUE] /\ pc' = [pc EXCEPT ![k] = "clear"]
          /\ UNCHANGED <<value, freed, idx, fib, val, ready, waits, seen, reached>>
      BY <1>8, <2>2 DEF Take, Goto
    <3>2. /\ idx[k] \in Slots /\ idx[k] = idx[w] /\ Armed(w)
          /\ pc[w] \in {"probe", "check", "compare", "self", "yield"}
      BY <1>1, <1>8, <2>2, OnlyArmed DEF Take, WakerInv, WaiterInv
    <3>3. /\ slot'[idx[w]].inuse /\ slot'[idx[w]].fiber = w
          /\ \A i \in Slots : i # idx[w] => slot'[i] = slot[i]
          /\ pc'[k] = "clear" /\ pc'[w] = pc[w] /\ \A l \in Wakers : l # k => pc'[l] = pc[l]
      BY <1>1, <3>1, <3>2 DEF TypeOK, Armed
    <3>4. Taken(w)'
      BY <3>1, <3>2, <3>3 DEF Taken, Armed, NoneHolds, Holds
    <3>5. PlaceInv(w)'
      BY <1>1, <3>1, <3>2, <3>3, <3>4 DEF PlaceInv, Vacant
    <3>6. ~Armed(w)'
      BY <3>1, <3>3 DEF Armed
    <3>7. QED BY <3>5, <3>6 DEF MetInv, Unmet
  <2>3. QED BY <2>1, <2>2
<1>9. ASSUME Clear(k) \/ Wake(k)
      PROVE  /\ Taken(w) /\ idx[k] = idx[w] /\ idx[w] \in Slots
             /\ pc[w] \in {"probe", "check", "compare", "self", "yield"}
             /\ slot[idx[w]].fiber = IF pc[k] = "clear" THEN w ELSE Null
             /\ \A l \in Wakers : l # k => ~Holds(l)
  <2>1. Holds(k)
    BY <1>9 DEF Holds, Clear, Wake
  <2>2. ~NoneHolds
    BY <2>1 DEF NoneHolds
  <2>3. pc[w] \in {"probe", "check", "compare", "self", "yield"} /\ Taken(w) /\ idx[w] \in Slots
    BY <1>1, <2>2 DEF PlaceInv, WaiterInv, WaiterPC, Armed, Awake
  <2>4. QED BY <2>1, <2>3 DEF Taken
<1>10. CASE Clear(k)
  <2>1. /\ slot' = [slot EXCEPT ![idx[k]].fiber = Null] /\ pc' = [pc EXCEPT ![k] = "wake"]
        /\ UNCHANGED <<value, freed, idx, fib, val, ready, waits, seen, reached>>
    BY <1>10 DEF Clear, Goto
  <2>2. /\ slot'[idx[w]].inuse /\ slot'[idx[w]].fiber = Null
        /\ \A i \in Slots : i # idx[w] => slot'[i] = slot[i]
        /\ pc'[k] = "wake" /\ pc'[w] = pc[w] /\ \A l \in Wakers : l # k => pc'[l] = pc[l]
    BY <1>1, <1>9, <1>10, <2>1 DEF TypeOK, Taken
  <2>3. Taken(w)'
    BY <1>9, <1>10, <2>1, <2>2 DEF Taken, Holds
  <2>4. PlaceInv(w)'
    BY <1>1, <1>9, <1>10, <2>1, <2>2, <2>3 DEF PlaceInv, Vacant
  <2>5. ~Armed(w)'
    BY <2>1, <2>2 DEF Armed
  <2>6. QED BY <2>4, <2>5 DEF MetInv, Unmet
<1>11. CASE Wake(k)
  <2>1. /\ ready' = [ready EXCEPT ![w] = @ + 1] /\ idx' = [idx EXCEPT ![k] = @ + 1]
        /\ pc' = [pc EXCEPT ![k] = "scan"] /\ slot' = slot
    <3>1. fib[k] = w
      BY <1>1, <1>11 DEF Wake, WakerInv
    <3>2. QED BY <1>11, <3>1 DEF Wake, NextSlot, Goto
  <2>2. /\ ready'[w] = 1 /\ idx'[w] = idx[w] /\ pc'[w] = pc[w] /\ pc'[k] = "scan" /\ idx'[k] = idx[k] + 1
        /\ \A l \in Wakers : l # k => pc'[l] = pc[l] /\ idx'[l] = idx[l]
    <3>1. ready[w] = 0
      BY <1>9, <1>11 DEF Taken
    <3>2. ready'[w] = 1
      BY <1>1, <2>1, <3>1 DEF TypeOK
    <3>3. QED BY <1>1, <2>1, <3>2 DEF TypeOK
  <2>3. Awake(w)'
    BY <1>9, <1>11, <2>1, <2>2 DEF Awake, Vacant, NoneHolds, Holds, Taken, Wake
  <2>4. PlaceInv(w)'
    BY <1>1, <1>9, <1>11, <2>1, <2>2, <2>3 DEF PlaceInv, Vacant
  <2>5. ~Armed(w)'
    BY <2>2 DEF Armed
  <2>6. QED BY <2>4, <2>5 DEF MetInv, Unmet
<1>12. QED
  BY <1>3, <1>4, <1>5, <1>6, <1>7, <1>8, <1>10, <1>11 DEF WakerGoes, WakerStep, Decr, Incr

LEMMA WaiterPlace ==
  ASSUME SlotsAssumption, ProcessAssumption, NumSlots # 0, NEW w, Waiters = {w}, Null # w, OneWaiterInv(w),
         CallWait(w) \/ WaiterStep(w), ReachInv'
  PROVE  PlaceInv(w)' /\ MetInv(w)'
<1> USE Apart DEF SlotsAssumption, OneWaiterInv, ReachInv, TypeOK, WaiterInv, PlaceInv, MetInv,
        Unmet, Comes, Armed, Taken, Awake, NoneHolds, Holds, Vacant, Slots, Goto
<1>1. CASE CallWait(w)
  <2>1. PlaceInv(w)'
    BY <1>1 DEF CallWait
  <2>2. MetInv(w)'
    BY <1>1 DEF CallWait
  <2>3. QED BY <2>1, <2>2
<1>2. CASE Claim(w)
  <2>1. PlaceInv(w)'
    BY <1>2, SMTT(20) DEF Claim
  <2>2. MetInv(w)'
    BY <1>2 DEF Claim
  <2>3. QED BY <2>1, <2>2
<1>3. CASE NoSlot(w)
  <2>1. PlaceInv(w)'
    BY <1>3 DEF NoSlot
  <2>2. MetInv(w)'
    BY <1>3 DEF NoSlot
  <2>3. QED BY <2>1, <2>2
<1>4. CASE SetValue(w)
  <2>1. PlaceInv(w)'
    BY <1>4 DEF SetValue
  <2>2. MetInv(w)'
    BY <1>4 DEF SetValue
  <2>3. QED BY <2>1, <2>2
<1>5. CASE Arm(w)
  <2>1. PlaceInv(w)'
    BY <1>5 DEF Arm
  <2>2. MetInv(w)'
    BY <1>5 DEF Arm
  <2>3. QED BY <2>1, <2>2
<1>6. CASE Probe(w)
  <2>1. PlaceInv(w)'
    BY <1>6 DEF Probe
  <2>2. MetInv(w)'
    BY <1>6 DEF Probe
  <2>3. QED BY <2>1, <2>2
<1>7. CASE CheckInUse(w)
  <2>1. PlaceInv(w)'
    BY <1>7 DEF CheckInUse
  <2>2. MetInv(w)'
    BY <1>7 DEF CheckInUse
  <2>3. QED BY <2>1, <2>2
<1>8. CASE Compare(w)
  <2>1. PlaceInv(w)'
    BY <1>8 DEF Compare
  <2>2. MetInv(w)'
    BY <1>8 DEF Compare
  <2>3. QED BY <2>1, <2>2
<1>9. CASE TakeBack(w)
  <2>1. PlaceInv(w)'
    <3>1. CASE slot[idx[w]].inuse
      <4>1. /\ pc' = [pc EXCEPT ![w] = "yield"] /\ pc[w] = "self"
            /\ UNCHANGED <<value, slot, freed, idx, fib, val, ready, waits, seen, reached>>
        BY <1>9, <3>1 DEF TakeBack
      <4>2. pc'[w] = "yield" /\ \A l \in Wakers : pc'[l] = pc[l]
        BY <4>1
      <4>3. QED BY <4>1, <4>2
    <3>2. CASE ~slot[idx[w]].inuse
      <4>1. /\ slot' = [slot EXCEPT ![idx[w]].inuse = TRUE] /\ pc' = [pc EXCEPT ![w] = "unhook"]
            /\ UNCHANGED <<value, freed, idx, fib, val, ready, waits, seen, reached>>
        BY <1>9, <3>2 DEF TakeBack
      <4>2. QED BY <1>9, <3>2, <4>1 DEF TakeBack
    <3>3. QED BY <3>1, <3>2
  <2>2. MetInv(w)'
    BY <1>9 DEF TakeBack
  <2>3. QED BY <2>1, <2>2
<1>10. CASE Unhook(w)
  <2>1. PlaceInv(w)'
    BY <1>10 DEF Unhook
  <2>2. MetInv(w)'
    BY <1>10 DEF Unhook
  <2>3. QED BY <2>1, <2>2
<1>11. CASE Resume(w)
  <2>1. PlaceInv(w)'
    BY <1>11 DEF Resume
  <2>2. MetInv(w)'
    BY <1>11 DEF Resume
  <2>3. QED BY <2>1, <2>2
<1>12. CASE Result(w)
  <2>1. PlaceInv(w)'
    BY <1>12 DEF Result
  <2>2. MetInv(w)'
    BY <1>12 DEF Result
  <2>3. QED BY <2>1, <2>2
<1>13. CASE Free(w)
  <2>1. PlaceInv(w)'
    BY <1>13 DEF Free
  <2>2. MetInv(w)'
    BY <1>13 DEF Free
  <2>3. QED BY <2>1, <2>2
<1>14. QED BY <1>1, <1>2, <1>3, <1>4, <1>5, <1>6, <1>7, <1>8, <1>9, <1>10, <1>11, <1>12, <1>13 DEF WaiterStep

LEMMA OneWaiterInvariance ==
  ASSUME SlotsAssumption, ProcessAssumption, NumSlots # 0, NEW w, Waiters = {w}
  PROVE  Spec => []OneWaiterInv(w)
<1>1. Null # w
  BY DEF ProcessAssumption
<1>2. Init => PlaceInv(w) /\ MetInv(w)
  BY InitPlace
<1>3. ReachInv /\ PlaceInv(w) /\ MetInv(w) /\ [Next]_vars /\ ReachInv' => PlaceInv(w)' /\ MetInv(w)'
  <2>1. SUFFICES ASSUME OneWaiterInv(w), [Next]_vars, ReachInv' PROVE PlaceInv(w)' /\ MetInv(w)'
    BY DEF OneWaiterInv
  <2>2. CASE \E k \in Wakers : WakerGoes(k)
    BY <1>1, <2>1, <2>2, WakerPlace
  <2>3. CASE \E v \in Waiters : CallWait(v) \/ WaiterStep(v)
    BY <1>1, <2>1, <2>3, WaiterPlace
  <2>4. CASE UNCHANGED vars
    BY <2>1, <2>4
       DEF vars, OneWaiterInv, PlaceInv, MetInv, Unmet, Comes, Armed, Taken, Awake, NoneHolds, Holds, Vacant
  <2>5. QED BY <2>1, <2>2, <2>3, <2>4 DEF Next
<1>4. QED BY <1>2, <1>3, ReachInvariance, PTL DEF Spec, OneWaiterInv

\* However many decrements and increments pass, a single waiter that sleeps
\* while the counter has its value is on its way to the ready list, or a waker
\* is on its way to it; and it is never on the ready list while it runs.
THEOREM OneWaiterIsWoken ==
  ASSUME SlotsAssumption, ProcessAssumption, NumSlots # 0, NEW w, Waiters = {w}
  PROVE  Spec => []WakeupsAreSound
<1>1. OneWaiterInv(w) => WakeupsAreSound
  <2>1. SUFFICES ASSUME OneWaiterInv(w) PROVE WakeupsAreSound
    OBVIOUS
  <2>2. ReachInv /\ PlaceInv(w) /\ MetInv(w) /\ w \in Waiters /\ WaiterInv(w)
    BY <2>1 DEF OneWaiterInv, ReachInv
  <2>3. ASSUME pc[w] = "yield"
        PROVE  ready[w] > 0 \/ InHand(w) \/ \E i \in Slots :
                 ArmedSlot(w, i) /\ (value = Target => \E k \in Wakers : Comes(k, i))
    <3>1. idx[w] \in Slots /\ (Armed(w) \/ Taken(w) \/ Awake(w))
      BY <2>2, <2>3 DEF PlaceInv
    <3>2. CASE Armed(w)
      <4>1. ArmedSlot(w, idx[w])
        BY <2>2, <3>1, <3>2 DEF Armed, ArmedSlot, ReachInv
      <4>2. value = Target => \E k \in Wakers : Comes(k, idx[w])
        BY <2>2, <2>3, <3>2 DEF MetInv, Unmet
      <4>3. QED BY <3>1, <4>1, <4>2
    <3>3. CASE Taken(w)
      <4>1. PICK k \in Wakers : pc[k] \in {"clear", "wake"}
        BY <3>3 DEF Taken, Holds
      <4>2. fib[k] = w
        BY <2>2, <4>1 DEF ReachInv, WakerInv
      <4>3. QED BY <4>1, <4>2 DEF InHand
    <3>4. CASE Awake(w)
      BY <3>4 DEF Awake
    <3>5. QED BY <3>1, <3>2, <3>3, <3>4
  <2>4. NoLostWaiter
    BY <2>3 DEF NoLostWaiter
  <2>5. ready[w] <= 1
    BY <2>2 DEF PlaceInv, WaiterInv, WaiterPC, Armed, Taken, Awake
  <2>6. ASSUME pc[w] \in {"idle", "result", "free", "claim", "set", "arm", "unhook"}
        PROVE  ready[w] = 0 /\ ~InHand(w)
    BY <2>2, <2>6 DEF PlaceInv, NoneHolds, Holds, InHand
  <2>7. ReturnsAfterTarget
    BY <2>2 DEF ReachInv, WaiterInv, ReturnsAfterTarget
  <2>8. NoStaleWakeup
    BY <2>5, <2>6 DEF NoStaleWakeup
  <2>9. TypeOK
    BY <2>2 DEF ReachInv
  <2>10. QED BY <2>4, <2>7, <2>8, <2>9 DEF WakeupsAreSound
<1>2. QED BY <1>1, OneWaiterInvariance, PTL

-----------------------------------------------------------------------------
(* Requests *****************************************************************)

Handle(s) == [slot |-> s, start |-> object[s].start, worker |-> object[s].worker, kind |-> object[s].kind]
Handles == [slot : Objects, start : Nat, worker : Workers, kind : {"timer", "request"}]
Calls == [slot : Objects, start : Nat, step : {"timer", "request", "decr"}, answer : Answers \cup {0}]
Waits == [slot : Objects, start : Nat, left : Nat, answer : Answers \cup {0, Nobody}]
InUse == [user : Users, start : Nat, kind : {"timer", "request"}, repeats : Nat,
          result : Answers \cup {0, Nobody}, worker : Workers]

Types ==
  /\ object \in [Objects -> InUse \cup {Nobody}] /\ active \subseteq Handles
  /\ running \in [Workers -> Calls \cup {Nobody}]
  /\ wait \in [Users -> Waits \cup {Nobody}] /\ starts \in Nat

\* Users and the objects in use belong together one by one, and handles and
\* callbacks are those of the objects.
PairsInv ==
  /\ \A u \in Users : wait[u] # Nobody => object[wait[u].slot] # Nobody /\ object[wait[u].slot].user = u
  /\ \A s \in Objects : object[s] # Nobody =>
       LET w == wait[object[s].user] IN w # Nobody /\ w.slot = s /\ w.start = object[s].start
  /\ \A h \in active : object[h.slot] # Nobody /\ h = Handle(h.slot)
  /\ \A w \in Workers : running[w] # Nobody =>
       /\ object[running[w].slot] # Nobody
       /\ object[running[w].slot].start = running[w].start /\ object[running[w].slot].worker = w

\* How far an object o is: its handle waits, a callback c runs and is before
\* its first or its second step, or all is over and w has the last answer.
Called(o, c, s) == c # Nobody /\ c.slot = s
Unanswered(o, c, w, s, has) ==
  /\ ~Called(o, c, s) /\ has /\ w.left > 0
  /\ w.left = IF o.kind = "timer" THEN o.repeats ELSE 1
Begun(o, c, w, s, has) ==
  /\ Called(o, c, s) /\ c.step = o.kind /\ w.left > 0
  /\ has <=> o.kind = "timer"
  /\ w.left = IF o.kind = "timer" THEN o.repeats ELSE 1
  /\ o.kind = "timer" => c.answer = 0
Stored(o, c, w, s, has) ==
  /\ Called(o, c, s) /\ c.step = "decr"
  /\ IF o.kind = "timer"
     THEN /\ w.left = o.repeats + 1 /\ (has <=> o.repeats > 0) /\ c.answer = 0
          /\ o.repeats = 0 => o.result = 0
     ELSE w.left = 1 /\ ~has /\ o.result = c.answer
Over(o, c, w, s, has) ==
  ~Called(o, c, s) /\ ~has /\ w.left = 0 /\ o.result = w.answer

Phase(o, c, w, s, has) ==
  Unanswered(o, c, w, s, has) \/ Begun(o, c, w, s, has) \/ Stored(o, c, w, s, has) \/ Over(o, c, w, s, has)
PhaseOf(s) ==
  object[s] # Nobody =>
    Phase(object[s], running[object[s].worker], wait[object[s].user], s, Handle(s) \in active)

RequestsInv == Types /\ PairsInv /\ \A s \in Objects : PhaseOf(s)
-----------------------------------------------------------------------------
LEMMA InUseIs ==
  Nobody \notin InUse /\ Nobody \notin Calls /\ Nobody \notin Waits
BY RequestsAssumption DEF InUse, Calls, Waits

LEMMA StartKeeps ==
  ASSUME RequestsInv, NEW u \in Users, NEW w \in Workers, NEW s \in Objects,
         NEW kind \in {"timer", "request"}, NEW n \in Nat, n > 0, Start(u, w, s, kind, n)
  PROVE  RequestsInv'
<1> DEFINE o == [user |-> u, start |-> starts + 1, kind |-> kind, repeats |-> n, result |-> Nobody, worker |-> w]
           x == [slot |-> s, start |-> starts + 1, left |-> n, answer |-> Nobody]
           h == [slot |-> s, start |-> starts + 1, worker |-> w, kind |-> kind]
<1>1. /\ wait[u] = Nobody /\ object[s] = Nobody
      /\ object' = [object EXCEPT ![s] = o] /\ wait' = [wait EXCEPT ![u] = x]
      /\ active' = active \cup {h} /\ running' = running /\ starts' = starts + 1
      /\ kind # "timer" => n = 1
  BY DEF Start
<1>2. Types
  BY DEF RequestsInv
<1>3. o \in InUse /\ x \in Waits /\ h \in Handles /\ o # Nobody /\ x # Nobody
  BY <1>2, InUseIs DEF Types, InUse, Waits, Handles
<1>4. /\ o.user = u /\ o.start = starts + 1 /\ o.kind = kind /\ o.repeats = n /\ o.worker = w
      /\ x.slot = s /\ x.start = starts + 1 /\ x.left = n /\ h.slot = s
      /\ h = [slot |-> s, start |-> o.start, worker |-> o.worker, kind |-> o.kind]
  OBVIOUS
<1> HIDE DEF o, x, h
<1>5. /\ object'[s] = o /\ \A t \in Objects \ {s} : object'[t] = object[t]
      /\ wait'[u] = x /\ \A v \in Users \ {u} : wait'[v] = wait[v]
  BY <1>1, <1>2 DEF Types
<1>6. Types'
  BY <1>1, <1>2, <1>3 DEF Types
<1>7. /\ \A t \in Objects : Handle(t)' = IF t = s THEN h ELSE Handle(t)
      /\ \A g \in active : g.slot # s
      /\ \A v \in Workers : running[v] # Nobody => running[v] \in Calls /\ running[v].slot # s
      /\ \A t \in Objects \ {s} : object[t] # Nobody => object[t] \in InUse /\ object[t].user # u
      /\ \A v \in Users \ {u} : wait[v] # Nobody => wait[v] \in Waits /\ wait[v].slot # s
      /\ \A t \in Objects : Handle(t).slot = t
  BY <1>1, <1>2, <1>4, <1>5 DEF RequestsInv, PairsInv, Handle, Types
<1>8. PairsInv'
  <2>1. \A v \in Users : wait'[v] # Nobody => object'[wait'[v].slot] # Nobody /\ object'[wait'[v].slot].user = v
    BY <1>3, <1>4, <1>5, <1>7 DEF RequestsInv, PairsInv, Waits
  <2>2. \A t \in Objects : object'[t] # Nobody =>
          wait'[object'[t].user] # Nobody /\ wait'[object'[t].user].slot = t /\ wait'[object'[t].user].start = object'[t].start
    BY <1>3, <1>4, <1>5, <1>7 DEF RequestsInv, PairsInv, InUse
  <2>3. \A g \in active' : object'[g.slot] # Nobody /\ g = Handle(g.slot)'
    <3> SUFFICES ASSUME NEW g \in active' PROVE object'[g.slot] # Nobody /\ g = Handle(g.slot)'
      OBVIOUS
    <3>1. CASE g = h
      BY <3>1, <1>3, <1>4, <1>5, <1>7
    <3>2. CASE g # h
      BY <3>2, <1>1, <1>2, <1>5, <1>7 DEF RequestsInv, PairsInv, Types, Handles
    <3> QED
      BY <3>1, <3>2
  <2>4. \A v \in Workers : running'[v] # Nobody =>
          /\ object'[running'[v].slot] # Nobody
          /\ object'[running'[v].slot].start = running'[v].start /\ object'[running'[v].slot].worker = v
    BY <1>1, <1>5, <1>7 DEF RequestsInv, PairsInv, Calls
  <2> QED
    BY <2>1, <2>2, <2>3, <2>4 DEF PairsInv
<1>9. ASSUME NEW t \in Objects PROVE PhaseOf(t)'
  <2>1. CASE t = s
    <3>1. Unanswered(o, running[w], x, s, h \in active')
      BY <1>1, <1>3, <1>4, <1>7 DEF Unanswered, Called
    <3> QED
      BY <2>1, <3>1, <1>1, <1>4, <1>5, <1>7 DEF PhaseOf, Phase
  <2>2. CASE t # s
    <3>1. Handle(t) \in active' <=> Handle(t) \in active
      BY <2>2, <1>1, <1>4, <1>7
    <3>2. object[t] # Nobody => object[t].user \in Users /\ wait'[object[t].user] = wait[object[t].user]
      BY <2>2, <1>5, <1>7 DEF InUse
    <3> QED
      BY <2>2, <3>1, <3>2, <1>1, <1>5, <1>7 DEF RequestsInv, PhaseOf
  <2> QED
    BY <2>1, <2>2
<1> QED
  BY <1>6, <1>8, <1>9 DEF RequestsInv

LEMMA AnswerKeeps ==
  ASSUME RequestsInv, NEW w \in Workers, NEW h \in active, NEW a \in Answers, Answer(w, h, a)
  PROVE  RequestsInv'
<1> DEFINE c == [slot |-> h.slot, start |-> h.start, step |-> h.kind, answer |-> a]
<1>1. /\ running[w] = Nobody /\ h.worker = w /\ (h.kind = "timer" => a = 0)
      /\ running' = [running EXCEPT ![w] = c]
      /\ active' = IF h.kind = "timer" THEN active ELSE active \ {h}
      /\ object' = object /\ wait' = wait /\ starts' = starts
  BY DEF Answer
<1>2. Types
  BY DEF RequestsInv
<1> DEFINE s == h.slot
<1>3. h \in Handles /\ object[s] # Nobody /\ h = Handle(s) /\ s \in Objects
  BY <1>2 DEF RequestsInv, PairsInv, Types, Handles
<1>4. c \in Calls /\ c # Nobody /\ c.slot = s /\ c.start = h.start /\ c.step = h.kind /\ c.answer = a
  BY <1>3, InUseIs DEF Handles, Calls
<1>5. object[s].kind = h.kind /\ object[s].worker = w /\ object[s].start = h.start
  BY <1>1, <1>3 DEF Handle
<1> HIDE DEF c, s
<1>6. running'[w] = c /\ \A v \in Workers \ {w} : running'[v] = running[v]
  BY <1>1, <1>2 DEF Types
<1>7. Types'
  BY <1>1, <1>2, <1>4 DEF Types
<1>8. \A t \in Objects : Handle(t)' = Handle(t) /\ Handle(t).slot = t
  BY <1>1 DEF Handle
<1>9. PairsInv'
  <2>1. \A g \in active' : object'[g.slot] # Nobody /\ g = Handle(g.slot)'
    BY <1>1, <1>2, <1>8 DEF RequestsInv, PairsInv, Types, Handles
  <2>2. \A v \in Workers : running'[v] # Nobody =>
          /\ object'[running'[v].slot] # Nobody
          /\ object'[running'[v].slot].start = running'[v].start /\ object'[running'[v].slot].worker = v
    BY <1>1, <1>3, <1>4, <1>5, <1>6 DEF RequestsInv, PairsInv
  <2> QED
    BY <1>1, <2>1, <2>2 DEF RequestsInv, PairsInv
<1>10. ASSUME NEW t \in Objects PROVE PhaseOf(t)'
  <2>1. CASE t = s
    <3>1. Unanswered(object[s], running[w], wait[object[s].user], s, TRUE)
      BY <1>1, <1>3, <1>5 DEF RequestsInv, PhaseOf, Phase, Unanswered, Begun, Stored, Over, Called
    <3>2. Handle(s) \in active' <=> object[s].kind = "timer"
      BY <1>1, <1>3, <1>5
    <3>3. Begun(object[s], c, wait[object[s].user], s, Handle(s) \in active')
      BY <3>1, <3>2, <1>1, <1>4, <1>5 DEF Unanswered, Begun, Called
    <3> QED
      BY <2>1, <3>3, <1>1, <1>5, <1>6, <1>8 DEF PhaseOf, Phase
  <2>2. CASE t # s
    <3>1. Handle(t) \in active' <=> Handle(t) \in active
      BY <2>2, <1>1, <1>3, <1>8
    <3>2. CASE object[t].worker = w
      <4>1. ~Called(object[t], running[w], t) /\ ~Called(object[t], c, t)
        BY <2>2, <1>1, <1>4 DEF Called
      <4> QED
        BY <2>2, <3>1, <3>2, <4>1, <1>1, <1>6, <1>8 DEF RequestsInv, PhaseOf, Phase, Unanswered, Begun, Stored, Over
    <3>3. CASE object[t].worker # w
      <4>1. object[t] # Nobody => running'[object[t].worker] = running[object[t].worker]
        BY <3>3, <1>2, <1>6 DEF Types, InUse
      <4> QED
        BY <3>1, <4>1, <1>1, <1>8 DEF RequestsInv, PhaseOf
    <3> QED
      BY <3>2, <3>3
  <2> QED
    BY <2>1, <2>2
<1> QED
  BY <1>7, <1>9, <1>10 DEF RequestsInv

\* The first step of a callback changes one object and perhaps its handle.
LEMMA CallbackKeeps ==
  ASSUME RequestsInv, NEW w \in Workers, Callback(w)
  PROVE  RequestsInv'
<1> DEFINE c == running[w]
           s == c.slot
           o == object[s]
           o1 == IF c.step = "request" THEN SetResult(o, c)
                 ELSE IF LastRepeat(o) THEN [[o EXCEPT !.repeats = @ - 1] EXCEPT !.result = 0]
                 ELSE [o EXCEPT !.repeats = @ - 1]
           c1 == [c EXCEPT !.step = "decr"]
<1>1. /\ c # Nobody /\ c.step \in {"timer", "request"} /\ o # Nobody
      /\ object' = [object EXCEPT ![s] = o1]
      /\ active' = IF c.step # "request" /\ LastRepeat(o) THEN {h \in active : h.slot # s} ELSE active
      /\ running' = [running EXCEPT ![w] = c1]
      /\ wait' = wait /\ starts' = starts
  BY DEF Callback, FirstStep
<1>2. Types
  BY DEF RequestsInv
<1>3. c \in Calls /\ s \in Objects /\ o \in InUse /\ o.worker = w /\ o.start = c.start
  BY <1>1, <1>2 DEF RequestsInv, PairsInv, Types, Calls
<1> DEFINE x == wait[o.user]
<1>4. Begun(o, c, x, s, Handle(s) \in active)
  BY <1>1, <1>3 DEF RequestsInv, PhaseOf, Phase, Unanswered, Begun, Stored, Over, Called
<1>5. o.kind = c.step /\ x # Nobody /\ x \in Waits /\ x.slot = s /\ x.left \in Nat /\ x.left > 0 /\ o.repeats \in Nat
  <2>1. x # Nobody /\ x \in Waits /\ x.slot = s /\ o.repeats \in Nat
    BY <1>1, <1>2, <1>3 DEF RequestsInv, PairsInv, Types, InUse
  <2>2. o.kind = c.step /\ x.left > 0
    BY <1>1, <1>4, <2>1 DEF Begun
  <2> QED
    BY <2>1, <2>2 DEF Waits
<1>6. /\ o1 \in InUse /\ o1.user = o.user /\ o1.start = o.start /\ o1.kind = o.kind /\ o1.worker = w
      /\ c.step = "request" => o1.result = c.answer
      /\ c.step = "timer" => /\ o1.repeats = o.repeats - 1 /\ (o1.repeats = 0 => o1.result = 0)
                             /\ LastRepeat(o) <=> o1.repeats = 0
  <2>0. c.step = "timer" => o.repeats > 0
    BY <1>4, <1>5 DEF Begun
  <2>1. CASE c.step = "request"
    BY <2>1, <1>3, <1>5 DEF SetResult, InUse, Calls
  <2>2. CASE c.step = "timer" /\ LastRepeat(o)
    <3> DEFINE less == [o EXCEPT !.repeats = @ - 1]
    <3>1. o1 = [less EXCEPT !.result = 0] /\ c.step # "request" /\ o.repeats = 1
      BY <2>2 DEF LastRepeat
    <3>2. less \in InUse /\ less.user = o.user /\ less.start = o.start /\ less.kind = o.kind
          /\ less.worker = o.worker /\ less.repeats = 0
      BY <3>1, <1>3 DEF InUse
    <3> HIDE DEF less, o1
    <3>3. o1 \in InUse /\ o1.user = o.user /\ o1.start = o.start /\ o1.kind = o.kind /\ o1.worker = o.worker
          /\ o1.result = 0 /\ o1.repeats = 0
      BY <3>1, <3>2 DEF InUse
    <3> QED
      BY <2>2, <3>1, <3>3, <1>3 DEF LastRepeat
  <2>3. CASE c.step = "timer" /\ ~LastRepeat(o)
    BY <2>0, <2>3, <1>3, <1>5 DEF InUse, LastRepeat
  <2> QED
    BY <2>1, <2>2, <2>3, <1>1
<1>7. /\ c1 \in Calls /\ c1 # Nobody /\ c1.slot = s /\ c1.start = c.start /\ c1.step = "decr" /\ c1.answer = c.answer
      /\ o1 # Nobody
  BY <1>3, <1>6, InUseIs DEF Calls
<1>8. active' = IF o.kind = "timer" /\ o1.repeats = 0 THEN {h \in active : h.slot # s} ELSE active
  BY <1>1, <1>5, <1>6
<1> HIDE DEF o1, c1
<1>9. /\ object'[s] = o1 /\ \A t \in Objects \ {s} : object'[t] = object[t]
      /\ running'[w] = c1 /\ \A v \in Workers \ {w} : running'[v] = running[v]
  BY <1>1, <1>2, <1>3 DEF Types
<1>10. Types'
  BY <1>1, <1>2, <1>6, <1>7, <1>8 DEF Types
<1>11. \A t \in Objects : Handle(t)' = Handle(t) /\ Handle(t).slot = t
  <2>1. \A t \in Objects : t = s => Handle(t)' = Handle(t)
    BY <1>3, <1>6, <1>9 DEF Handle
  <2> QED
    BY <2>1, <1>9 DEF Handle
<1> HIDE DEF c, s, o, x
<1>12. PairsInv'
  <2>1. \A u \in Users : wait'[u] # Nobody => object'[wait'[u].slot] # Nobody /\ object'[wait'[u].slot].user = u
    BY <1>1, <1>2, <1>6, <1>7, <1>9 DEF RequestsInv, PairsInv, Types, Waits, o
  <2>2. \A t \in Objects : object'[t] # Nobody =>
          wait'[object'[t].user] # Nobody /\ wait'[object'[t].user].slot = t /\ wait'[object'[t].user].start = object'[t].start
    BY <1>1, <1>6, <1>7, <1>9 DEF RequestsInv, PairsInv, o
  <2>3. \A h \in active' : object'[h.slot] # Nobody /\ h = Handle(h.slot)'
    BY <1>1, <1>2, <1>7, <1>9, <1>11 DEF RequestsInv, PairsInv, Types, Handles
  <2>4. \A v \in Workers : running'[v] # Nobody =>
          /\ object'[running'[v].slot] # Nobody
          /\ object'[running'[v].slot].start = running'[v].start /\ object'[running'[v].slot].worker = v
    <3> SUFFICES ASSUME NEW v \in Workers, running'[v] # Nobody
                 PROVE  /\ object'[running'[v].slot] # Nobody
                        /\ object'[running'[v].slot].start = running'[v].start /\ object'[running'[v].slot].worker = v
      OBVIOUS
    <3>1. CASE v = w
      BY <3>1, <1>3, <1>6, <1>7, <1>9
    <3>2. CASE v # w
      <4>1. running'[v] = running[v] /\ running[v] \in Calls /\ running[v].slot \in Objects
        BY <3>2, <1>2, <1>9 DEF Types, Calls
      <4> QED
        BY <3>2, <4>1, <1>3, <1>6, <1>7, <1>9 DEF RequestsInv, PairsInv, o
    <3> QED
      BY <3>1, <3>2
  <2> QED
    BY <2>1, <2>2, <2>3, <2>4 DEF PairsInv
<1>13. ASSUME NEW t \in Objects PROVE PhaseOf(t)'
  <2>1. CASE t = s
    <3>1. Handle(s) \in active' <=> Handle(s) \in active /\ ~(o.kind = "timer" /\ o1.repeats = 0)
      BY <1>3, <1>8, <1>11
    <3>2. Stored(o1, c1, x, s, Handle(s) \in active')
      BY <3>1, <1>1, <1>4, <1>5, <1>6, <1>7 DEF Begun, Stored, Called, InUse
    <3> QED
      BY <2>1, <3>2, <1>1, <1>3, <1>6, <1>9, <1>11 DEF PhaseOf, Phase, x
  <2>2. CASE t # s
    <3>1. Handle(t) \in active' <=> Handle(t) \in active
      BY <2>2, <1>8, <1>11
    <3>2. CASE object[t].worker = w
      <4>1. ~Called(object[t], c, t) /\ ~Called(object[t], c1, t)
        BY <2>2, <1>7 DEF Called, s
      <4> QED
        BY <2>2, <3>1, <3>2, <4>1, <1>1, <1>9, <1>11 DEF RequestsInv, PhaseOf, Phase, Unanswered, Begun, Stored, Over, c
    <3>3. CASE object[t].worker # w
      <4>1. object[t] # Nobody => running'[object[t].worker] = running[object[t].worker]
        BY <3>3, <1>2, <1>9 DEF Types, InUse
      <4> QED
        BY <2>2, <3>1, <4>1, <1>1, <1>9, <1>11 DEF RequestsInv, PhaseOf
    <3> QED
      BY <3>2, <3>3
  <2> QED
    BY <2>1, <2>2
<1> QED
  BY <1>10, <1>12, <1>13 DEF RequestsInv

LEMMA DecrementKeeps ==
  ASSUME RequestsInv, NEW w \in Workers, Decrement(w)
  PROVE  RequestsInv'
<1> DEFINE c == running[w]
           s == c.slot
           o == object[s]
           x == wait[o.user]
           x1 == [[x EXCEPT !.left = @ - 1] EXCEPT !.answer = c.answer]
<1>1. /\ c # Nobody /\ c.step = "decr" /\ o # Nobody
      /\ wait' = [wait EXCEPT ![o.user].left = @ - 1, ![o.user].answer = c.answer]
      /\ running' = [running EXCEPT ![w] = Nobody]
      /\ object' = object /\ active' = active /\ starts' = starts
  BY DEF Decrement
<1>2. Types
  BY DEF RequestsInv
<1>3. c \in Calls /\ s \in Objects /\ o \in InUse /\ o.worker = w /\ o.user \in Users
  BY <1>1, <1>2 DEF RequestsInv, PairsInv, Types, Calls, InUse
<1>4. Stored(o, c, x, s, Handle(s) \in active)
  BY <1>1, <1>3 DEF RequestsInv, PhaseOf, Phase, Unanswered, Begun, Stored, Over, Called, InUse
<1>5. x # Nobody /\ x \in Waits /\ x.slot = s /\ x.left \in Nat /\ x.left > 0 /\ o.repeats \in Nat
  <2>1. x # Nobody /\ x \in Waits /\ x.slot = s /\ o.repeats \in Nat
    BY <1>1, <1>2, <1>3 DEF RequestsInv, PairsInv, Types, InUse
  <2> QED
    BY <2>1, <1>4 DEF Stored, Waits
<1>6. /\ x1 \in Waits /\ x1.slot = s /\ x1.start = x.start /\ x1.left = x.left - 1 /\ x1.answer = c.answer
      /\ x1 # Nobody
  <2> DEFINE y == [x EXCEPT !.left = @ - 1]
  <2>1. y \in Waits /\ y.slot = s /\ y.start = x.start /\ y.left = x.left - 1
    <3>1. x.left - 1 \in Nat
      BY <1>5
    <3> QED
      BY <1>5, <3>1 DEF Waits
  <2>2. c.answer \in Answers \cup {0}
    BY <1>3 DEF Calls
  <2>3. x1 = [y EXCEPT !.answer = c.answer]
    OBVIOUS
  <2> HIDE DEF y, x1
  <2>4. x1 \in Waits /\ x1.slot = s /\ x1.start = x.start /\ x1.left = x.left - 1 /\ x1.answer = c.answer
    BY <2>1, <2>2, <2>3 DEF Waits
  <2> QED
    BY <2>4, InUseIs
<1>7. wait' = [wait EXCEPT ![o.user] = x1]
  BY <1>1, <1>2, <1>3 DEF Types
<1> HIDE DEF x1
<1>8. /\ wait'[o.user] = x1 /\ \A u \in Users \ {o.user} : wait'[u] = wait[u]
      /\ running'[w] = Nobody /\ \A v \in Workers \ {w} : running'[v] = running[v]
  BY <1>1, <1>2, <1>3, <1>7 DEF Types
<1>9. Types'
  <2>1. wait' \in [Users -> Waits \cup {Nobody}]
    BY <1>2, <1>3, <1>6, <1>7 DEF Types
  <2>2. running' \in [Workers -> Calls \cup {Nobody}]
    BY <1>1, <1>2 DEF Types
  <2> QED
    BY <2>1, <2>2, <1>1, <1>2 DEF Types
<1>10. \A t \in Objects : Handle(t)' = Handle(t) /\ Handle(t).slot = t
  BY <1>1 DEF Handle
<1> HIDE DEF c, s, o, x
<1>11. PairsInv'
  <2>1. ASSUME NEW u \in Users, wait'[u] # Nobody
        PROVE  object'[wait'[u].slot] # Nobody /\ object'[wait'[u].slot].user = u
    <3>1. CASE u = o.user
      BY <3>1, <1>1, <1>6, <1>8 DEF o
    <3>2. CASE u # o.user
      BY <2>1, <3>2, <1>1, <1>8 DEF RequestsInv, PairsInv
    <3> QED
      BY <3>1, <3>2
  <2>2. \A t \in Objects : object'[t] # Nobody =>
          wait'[object'[t].user] # Nobody /\ wait'[object'[t].user].slot = t /\ wait'[object'[t].user].start = object'[t].start
    <3> SUFFICES ASSUME NEW t \in Objects, object[t] # Nobody
                 PROVE  wait'[object[t].user] # Nobody /\ wait'[object[t].user].slot = t
                        /\ wait'[object[t].user].start = object[t].start
      BY <1>1
    <3>1. object[t].user \in Users /\ wait[object[t].user] # Nobody /\ wait[object[t].user].slot = t
          /\ wait[object[t].user].start = object[t].start
      BY <1>2 DEF RequestsInv, PairsInv, Types, InUse
    <3>2. CASE object[t].user = o.user
      BY <3>1, <3>2, <1>5, <1>6, <1>8 DEF x
    <3>3. CASE object[t].user # o.user
      BY <3>1, <3>3, <1>8
    <3> QED
      BY <3>2, <3>3
  <2>3. \A h \in active' : object'[h.slot] # Nobody /\ h = Handle(h.slot)'
    BY <1>1, <1>2, <1>10 DEF RequestsInv, PairsInv, Types, Handles
  <2>4. \A v \in Workers : running'[v] # Nobody =>
          /\ object'[running'[v].slot] # Nobody
          /\ object'[running'[v].slot].start = running'[v].start /\ object'[running'[v].slot].worker = v
    BY <1>1, <1>8 DEF RequestsInv, PairsInv
  <2> QED
    BY <2>1, <2>2, <2>3, <2>4 DEF PairsInv
<1>12. ASSUME NEW t \in Objects PROVE PhaseOf(t)'
  <2>1. CASE t = s
    <3>1. o.kind \in {"timer", "request"} /\ ~Called(o, Nobody, s)
      BY <1>3 DEF InUse, Called
    <3>2. Unanswered(o, Nobody, x1, s, Handle(s) \in active) \/ Over(o, Nobody, x1, s, Handle(s) \in active)
      BY <3>1, <1>4, <1>5, <1>6 DEF Stored, Unanswered, Over
    <3> QED
      BY <2>1, <3>2, <1>1, <1>3, <1>8, <1>10 DEF PhaseOf, Phase, o
  <2>2. CASE t # s
    <3>1. object[t] # Nobody => object[t].user \in Users /\ object[t].worker \in Workers /\ object[t].user # o.user
      BY <2>2, <1>1, <1>2, <1>3 DEF RequestsInv, PairsInv, Types, InUse, o
    <3>2. object[t] # Nobody => wait'[object[t].user] = wait[object[t].user]
      BY <3>1, <1>8
    <3>3. CASE object[t].worker = w
      <4>1. ~Called(object[t], c, t) /\ ~Called(object[t], Nobody, t)
        BY <2>2 DEF Called, s
      <4>2. ASSUME object[t] # Nobody
            PROVE  LET y == wait[object[t].user] IN
                   \/ Unanswered(object[t], Nobody, y, t, Handle(t) \in active)
                   \/ Over(object[t], Nobody, y, t, Handle(t) \in active)
        BY <3>3, <4>1, <4>2 DEF RequestsInv, PhaseOf, Phase, Unanswered, Begun, Stored, Over, c
      <4> QED
        BY <3>2, <3>3, <4>2, <1>1, <1>8, <1>10 DEF PhaseOf, Phase
    <3>4. CASE object[t].worker # w
      BY <3>1, <3>2, <3>4, <1>1, <1>8, <1>10 DEF RequestsInv, PhaseOf
    <3> QED
      BY <3>3, <3>4
  <2> QED
    BY <2>1, <2>2
<1> QED
  BY <1>9, <1>11, <1>12 DEF RequestsInv

LEMMA FinishKeeps ==
  ASSUME RequestsInv, NEW u \in Users, Finish(u)
  PROVE  RequestsInv'
<1> DEFINE s == wait[u].slot
           o == object[s]
<1>1. /\ wait[u] # Nobody /\ wait[u].left = 0
      /\ object' = [object EXCEPT ![s] = Nobody] /\ wait' = [wait EXCEPT ![u] = Nobody]
      /\ active' = active /\ running' = running /\ starts' = starts
  BY DEF Finish
<1>2. Types
  BY DEF RequestsInv
<1>3. s \in Objects /\ o # Nobody /\ o.user = u /\ o \in InUse
  BY <1>1, <1>2 DEF RequestsInv, PairsInv, Types, Waits
<1>4. Over(o, running[o.worker], wait[u], s, Handle(s) \in active)
  BY <1>1, <1>3 DEF RequestsInv, PhaseOf, Phase, Unanswered, Begun, Stored, Over, InUse
<1> HIDE DEF s, o
<1>5. /\ \A h \in active : h.slot # s
      /\ \A w \in Workers : running[w] # Nobody => running[w].slot # s
  BY <1>2, <1>3, <1>4 DEF RequestsInv, PairsInv, Over, Called, o
<1>6. /\ object'[s] = Nobody /\ \A t \in Objects \ {s} : object'[t] = object[t]
      /\ wait'[u] = Nobody /\ \A v \in Users \ {u} : wait'[v] = wait[v]
  BY <1>1, <1>2, <1>3 DEF Types
<1>7. Types'
  BY <1>1, <1>2 DEF Types
<1>8. \A t \in Objects \ {s} : Handle(t)' = Handle(t)
  BY <1>6 DEF Handle
<1>9. PairsInv'
  <2>1. \A v \in Users : wait'[v] # Nobody => object'[wait'[v].slot] # Nobody /\ object'[wait'[v].slot].user = v
    BY <1>2, <1>3, <1>6 DEF RequestsInv, PairsInv, Types, Waits, o
  <2>2. \A t \in Objects : object'[t] # Nobody =>
          wait'[object'[t].user] # Nobody /\ wait'[object'[t].user].slot = t /\ wait'[object'[t].user].start = object'[t].start
    BY <1>2, <1>3, <1>6 DEF RequestsInv, PairsInv, Types, InUse, o, s
  <2>3. \A h \in active' : object'[h.slot] # Nobody /\ h = Handle(h.slot)'
    BY <1>1, <1>2, <1>5, <1>6, <1>8 DEF RequestsInv, PairsInv, Types, Handles
  <2>4. \A v \in Workers : running'[v] # Nobody =>
          /\ object'[running'[v].slot] # Nobody
          /\ object'[running'[v].slot].start = running'[v].start /\ object'[running'[v].slot].worker = v
    BY <1>1, <1>2, <1>5, <1>6 DEF RequestsInv, PairsInv, Types, Calls
  <2> QED
    BY <2>1, <2>2, <2>3, <2>4 DEF PairsInv
<1>10. ASSUME NEW t \in Objects PROVE PhaseOf(t)'
  <2>1. CASE t = s
    BY <2>1, <1>6 DEF PhaseOf
  <2>2. CASE t # s
    <3>1. object[t] # Nobody => wait'[object[t].user] = wait[object[t].user]
      BY <2>2, <1>2, <1>6 DEF RequestsInv, PairsInv, Types, InUse, s
    <3> QED
      BY <2>2, <3>1, <1>1, <1>6, <1>8 DEF RequestsInv, PhaseOf
  <2> QED
    BY <2>1, <2>2
<1> QED
  BY <1>7, <1>9, <1>10 DEF RequestsInv
-----------------------------------------------------------------------------
LEMMA RequestsStart == ASSUME ReqInit PROVE RequestsInv
BY DEF ReqInit, RequestsInv, Types, PairsInv, PhaseOf

\* For any number of fibers, objects, workers and repeats: a callback runs on
\* the object of its own request, although other workers give objects back and
\* hand them out meanwhile, and who goes on finds the last answer to its own.
THEOREM AnswersGoHome == ReqSpec => []AnswersAreTheirs
<1>1. ReqInit => RequestsInv
  BY RequestsStart
<1>2. RequestsInv /\ [ReqNext]_reqVars => RequestsInv'
  <2> SUFFICES ASSUME RequestsInv, [ReqNext]_reqVars PROVE RequestsInv'
    OBVIOUS
  <2>1. ASSUME NEW u \in Users, NEW w \in Workers, NEW s \in Objects, NEW n \in 1 .. MaxRepeats,
               Start(u, w, s, "timer", n)
        PROVE  RequestsInv'
    BY <2>1, RequestsAssumption, StartKeeps
  <2>2. ASSUME NEW u \in Users, NEW w \in Workers, NEW s \in Objects, Start(u, w, s, "request", 1)
        PROVE  RequestsInv'
    BY <2>2, StartKeeps
  <2>3. ASSUME NEW w \in Workers, Answered(w) PROVE RequestsInv'
    BY <2>3, AnswerKeeps DEF Answered
  <2>4. ASSUME NEW w \in Workers, Callback(w) \/ Decrement(w) PROVE RequestsInv'
    BY <2>4, CallbackKeeps, DecrementKeeps
  <2>5. ASSUME NEW u \in Users, Finish(u) PROVE RequestsInv'
    BY <2>5, FinishKeeps
  <2>6. CASE UNCHANGED reqVars
    BY <2>6 DEF reqVars, RequestsInv, Types, PairsInv, PhaseOf, Handle
  <2> QED
    BY <2>1, <2>2, <2>3, <2>4, <2>5, <2>6 DEF ReqNext
<1>3. RequestsInv => AnswersAreTheirs
  <2> SUFFICES ASSUME RequestsInv PROVE NoStrayCallback /\ ResultIsAnswer
    BY DEF AnswersAreTheirs
  <2>1. NoStrayCallback
    BY DEF NoStrayCallback, RequestsInv, PairsInv, Handle
  <2>2. ASSUME NEW u \in Users, wait[u] # Nobody, wait[u].left = 0
        PROVE  object[wait[u].slot] # Nobody /\ object[wait[u].slot].result = wait[u].answer
    <3> DEFINE s == wait[u].slot
    <3>1. s \in Objects /\ object[s] # Nobody /\ object[s].user = u /\ object[s] \in InUse
      BY <2>2 DEF RequestsInv, PairsInv, Types, Waits
    <3>2. Over(object[s], running[object[s].worker], wait[u], s, Handle(s) \in active)
      BY <2>2, <3>1 DEF RequestsInv, PhaseOf, Phase, Unanswered, Begun, Stored, Over, InUse
    <3> QED
      BY <3>1, <3>2 DEF Over
  <2> QED
    BY <2>1, <2>2 DEF ResultIsAnswer
<1> QED
  BY <1>1, <1>2, <1>3, PTL DEF ReqSpec
=============================================================================
