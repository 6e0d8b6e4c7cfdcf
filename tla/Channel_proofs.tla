--------------------------- MODULE Channel_proofs ---------------------------
(***************************************************************************)
(* Machine-checked proofs about Channel, for all fibers, every size of the *)
(* ring and any number of calls.                                           *)
(***************************************************************************)
EXTENDS Channel, FiniteSetTheorems, SequenceTheorems, TLAPS

Suspended == {"parking", "parked"}
NoTwice(list) == \A i, j \in DOMAIN list : list[i] = list[j] => i = j
Listed == Members(producers) \cup Members(consumers)

\* The lock is held by the fiber inside, or by the one that parks.
LockInv == \A f \in Fibers : (lock = f) <=> pc[f] \in {"inside", "parking"}

\* The fibers that are suspended are those on the lists, each on one and once.
ListInv ==
  /\ NoTwice(producers) /\ NoTwice(consumers)
  /\ Listed \cap ready = {}
  /\ Listed \cup ready \subseteq Blocking
  /\ \A f \in Fibers : pc[f] \in Suspended <=> f \in Listed \cup ready

IInv == TypeOK /\ LockInv /\ ListInv /\ SavedBeforeReady /\ SleepersAreWoken
-----------------------------------------------------------------------------
(* Lists of fibers                                                           *)

\* slist_pop_front: what is left, and who was taken.
LEMMA ListRest ==
  ASSUME NEW S, NEW list \in Seq(S), NoTwice(list)
  PROVE  /\ Rest(list) \in Seq(S) /\ First(list) \subseteq S
         /\ NoTwice(Rest(list))
         /\ Members(list) = First(list) \cup Members(Rest(list))
         /\ First(list) \cap Members(Rest(list)) = {}
         /\ Rest(list) # <<>> => First(list) # {}
<1>1. CASE list = <<>>
  BY <1>1 DEF Rest, First, Members, NoTwice
<1>2. CASE list # <<>>
  <2> DEFINE rest == Tail(list)
  <2>1. /\ Rest(list) = rest /\ First(list) = {list[1]}
        /\ Len(list) \in Nat /\ Len(list) >= 1 /\ DOMAIN list = 1 .. Len(list)
    BY <1>2, LenProperties, EmptySeq DEF Rest, First
  <2>2. /\ rest \in Seq(S) /\ DOMAIN rest = 1 .. Len(list) - 1
        /\ \A i \in 1 .. Len(list) - 1 : rest[i] = list[i + 1]
    BY <1>2, <2>1, HeadTailProperties, LenProperties
  <2> HIDE DEF rest
  <2>3. list[1] \in S
    BY <2>1, ElementOfSeq
  <2>4. NoTwice(rest)
    <3>1. SUFFICES ASSUME NEW i \in DOMAIN rest, NEW j \in DOMAIN rest, rest[i] = rest[j]
                   PROVE  i = j
      BY DEF NoTwice
    <3>2. i \in Nat /\ j \in Nat /\ i + 1 \in DOMAIN list /\ j + 1 \in DOMAIN list
      BY <2>1, <2>2
    <3>3. list[i + 1] = list[j + 1]
      BY <2>2, <3>1
    <3>4. i + 1 = j + 1
      BY <3>2, <3>3 DEF NoTwice
    <3>5. QED BY <3>2, <3>4
  <2>5. \A i \in 1 .. Len(list) : i = 1 \/ (i - 1 \in DOMAIN rest /\ list[i] = rest[i - 1])
    BY <2>1, <2>2
  <2>6. Members(list) = {list[1]} \cup Members(rest)
    <3>1. ASSUME NEW x \in Members(list) PROVE x \in {list[1]} \cup Members(rest)
      BY <3>1, <2>1, <2>5 DEF Members
    <3>2. ASSUME NEW x \in Members(rest) PROVE x \in Members(list)
      BY <3>2, <2>1, <2>2 DEF Members
    <3>3. list[1] \in Members(list)
      BY <2>1 DEF Members
    <3>4. QED BY <3>1, <3>2, <3>3
  <2>7. list[1] \notin Members(rest)
    <3>1. SUFFICES ASSUME NEW i \in DOMAIN rest, list[1] = rest[i] PROVE FALSE
      BY DEF Members
    <3>2. i \in Nat /\ i >= 1 /\ i + 1 \in DOMAIN list /\ 1 \in DOMAIN list
      BY <2>1, <2>2
    <3>3. list[i + 1] = list[1]
      BY <2>2, <3>1
    <3>4. i + 1 = 1
      BY <3>2, <3>3 DEF NoTwice
    <3>5. QED BY <3>2, <3>4
  <2>8. QED
    BY <2>1, <2>2, <2>3, <2>4, <2>6, <2>7
<1>3. QED BY <1>1, <1>2

\* slist_add_tail: one more at the end.
LEMMA ListAppend ==
  ASSUME NEW S, NEW list \in Seq(S), NEW f \in S, NoTwice(list), f \notin Members(list)
  PROVE  /\ Append(list, f) \in Seq(S) /\ NoTwice(Append(list, f))
         /\ Members(Append(list, f)) = Members(list) \cup {f}
<1> DEFINE more == Append(list, f)
<1>1. /\ more \in Seq(S) /\ Len(list) \in Nat
      /\ DOMAIN list = 1 .. Len(list) /\ DOMAIN more = 1 .. Len(list) + 1
      /\ \A i \in 1 .. Len(list) : more[i] = list[i]
      /\ more[Len(list) + 1] = f
  BY AppendProperties, LenProperties
<1> HIDE DEF more
<1>2. NoTwice(more)
  BY <1>1 DEF NoTwice, Members
<1>3. ASSUME NEW x \in Members(more) PROVE x \in Members(list) \cup {f}
  BY <1>1, <1>3 DEF Members
<1>4. ASSUME NEW x \in Members(list) \cup {f} PROVE x \in Members(more)
  BY <1>1, <1>4 DEF Members
<1>5. QED BY <1>1, <1>2, <1>3, <1>4 DEF more

LEMMA ListEmpty == NoTwice(<<>>) /\ Members(<<>>) = {} /\ \A S : <<>> \in Seq(S)
  BY DEF NoTwice, Members

\* How often a fiber is on a list that names nobody twice.
LEMMA ListPlaces ==
  ASSUME NEW S, NEW list \in Seq(S), NoTwice(list), NEW f
  PROVE  Cardinality({i \in DOMAIN list : list[i] = f}) = IF f \in Members(list) THEN 1 ELSE 0
<1>1. CASE f \in Members(list)
  <2>1. PICK i \in DOMAIN list : list[i] = f
    BY <1>1 DEF Members
  <2>2. {j \in DOMAIN list : list[j] = f} = {i}
    BY <2>1 DEF NoTwice
  <2>3. QED BY <1>1, <2>2, FS_Singleton
<1>2. CASE f \notin Members(list)
  <2>1. {j \in DOMAIN list : list[j] = f} = {}
    BY <1>2 DEF Members
  <2>2. QED BY <1>2, <2>1, FS_EmptySet
<1>3. QED BY <1>1, <1>2

-----------------------------------------------------------------------------
(* The ring                                                                  *)

\* The remainder of a number below twice the size of the ring.
LEMMA ModSmall ==
  \A x \in Nat : x < Cap + Cap => x % Cap = IF x < Cap THEN x ELSE x - Cap
<1> USE CapAssumption
<1>1. SUFFICES ASSUME NEW x \in Nat, x < Cap + Cap
               PROVE  x % Cap = IF x < Cap THEN x ELSE x - Cap
  OBVIOUS
<1>2. x \div Cap \in Int /\ x % Cap \in 0 .. Cap - 1 /\ x = Cap * (x \div Cap) + (x % Cap)
  BY Z3
<1> DEFINE q == x \div Cap  r == x % Cap
<1> HIDE DEF q, r
<1>3. q \in Int /\ r \in 0 .. Cap - 1 /\ x = Cap * q + r
  BY <1>2 DEF q, r
<1>4. CASE q >= 2
  <2>1. Cap * q >= Cap * 2
    BY <1>4, <1>3, Z3
  <2>2. QED BY <1>1, <1>3, <2>1
<1>5. CASE q <= -1
  <2>1. Cap * q <= -Cap
    BY <1>5, <1>3, Z3
  <2>2. QED BY <1>1, <1>3, <2>1
<1>6. CASE q = 0
  BY <1>6, <1>3 DEF r
<1>7. CASE q = 1
  BY <1>7, <1>3 DEF r
<1>8. QED BY <1>3, <1>4, <1>5, <1>6, <1>7

LEMMA Distance ==
  ASSUME NEW h \in 0 .. Cap - 1, NEW t \in 0 .. Cap - 1
  PROVE  (h + Cap - t) % Cap = IF h >= t THEN h - t ELSE h + Cap - t
<1>1. h + Cap - t \in Nat /\ h + Cap - t < Cap + Cap /\ Cap \in Nat
  BY CapAssumption
<1>2. (h + Cap - t) % Cap = IF h + Cap - t < Cap THEN h + Cap - t ELSE h + Cap - t - Cap
  BY <1>1, ModSmall
<1>3. QED BY <1>1, <1>2

\* The position i entries further on.
LEMMA Along ==
  ASSUME NEW a \in 0 .. Cap - 1, NEW i \in 0 .. Cap
  PROVE  /\ (a + i) % Cap = IF a + i < Cap THEN a + i ELSE a + i - Cap
         /\ (a + i) % Cap \in 0 .. Cap - 1
<1>1. Cap \in Nat \ {0} /\ a + i \in Nat /\ a + i < Cap + Cap
  BY CapAssumption
<1>2. (a + i) % Cap = IF a + i < Cap THEN a + i ELSE a + i - Cap
  BY <1>1, ModSmall
<1>3. QED BY <1>1, <1>2

\* How many entries the ring holds, and what one more or one less does to head,
\* tail and that number.
LEMMA Ring ==
  ASSUME TypeOK
  PROVE  /\ Size = IF head >= tail THEN head - tail ELSE head + Cap - tail
         /\ Size \in 0 .. Cap - 1
         /\ Empty <=> Size = 0
         /\ Full <=> Size = Cap - 1
<1>1. head \in 0 .. Cap - 1 /\ tail \in 0 .. Cap - 1 /\ Cap \in Nat \ {0}
  BY CapAssumption DEF TypeOK
<1>2. Size = IF head >= tail THEN head - tail ELSE head + Cap - tail
  BY <1>1, Distance DEF Size
<1>3. (head + 1) % Cap = IF head + 1 < Cap THEN head + 1 ELSE head + 1 - Cap
  BY <1>1, Along
<1>4. Size \in 0 .. Cap - 1 /\ (Empty <=> Size = 0) /\ (Full <=> Size = Cap - 1)
  BY <1>1, <1>2, <1>3 DEF Empty, Full
<1>5. QED BY <1>2, <1>4

LEMMA TakeOne ==
  ASSUME TypeOK, TypeOK', ~Empty, head' = head, tail' = (tail + 1) % Cap
  PROVE  Size' = Size - 1
<1>1. head \in 0 .. Cap - 1 /\ tail \in 0 .. Cap - 1 /\ Cap \in Nat \ {0} /\ head # tail
  BY CapAssumption DEF TypeOK, Empty
<1>2. tail' = IF tail + 1 < Cap THEN tail + 1 ELSE tail + 1 - Cap
  BY <1>1, Along
<1>3. tail' \in 0 .. Cap - 1 /\ head' \in 0 .. Cap - 1
  BY DEF TypeOK
<1>4. Size' = IF head' >= tail' THEN head' - tail' ELSE head' + Cap - tail'
  BY <1>3, Distance DEF Size
<1>5. Size = IF head >= tail THEN head - tail ELSE head + Cap - tail
  BY Ring
<1>6. QED BY <1>1, <1>2, <1>4, <1>5

LEMMA AddOne ==
  ASSUME TypeOK, TypeOK', ~Full, tail' = tail, head' = (head + 1) % Cap
  PROVE  Size' = Size + 1
<1>1. head \in 0 .. Cap - 1 /\ tail \in 0 .. Cap - 1 /\ Cap \in Nat \ {0} /\ tail # head'
  BY CapAssumption DEF TypeOK, Full
<1>2. head' = IF head + 1 < Cap THEN head + 1 ELSE head + 1 - Cap
  BY <1>1, Along
<1>3. tail' \in 0 .. Cap - 1 /\ head' \in 0 .. Cap - 1
  BY DEF TypeOK
<1>4. Size' = IF head' >= tail' THEN head' - tail' ELSE head' + Cap - tail'
  BY <1>3, Distance DEF Size
<1>5. Size = IF head >= tail THEN head - tail ELSE head + Cap - tail
  BY Ring
<1>6. QED BY <1>1, <1>2, <1>4, <1>5

-----------------------------------------------------------------------------
(* Counting who is on the way                                                *)

LEMMA LoseOne ==
  ASSUME NEW A, NEW B, NEW x, IsFiniteSet(A), IsFiniteSet(B), A \ {x} \subseteq B
  PROVE  Cardinality(A) - 1 <= Cardinality(B)
<1>1. IsFiniteSet(A \ {x}) /\ Cardinality(A) \in Nat /\ Cardinality(B) \in Nat
      /\ Cardinality(A \ {x}) >= Cardinality(A) - 1
  BY FS_RemoveElement, FS_CardinalityType
<1>2. Cardinality(A \ {x}) <= Cardinality(B) /\ Cardinality(A \ {x}) \in Nat
  BY <1>1, FS_Subset, FS_CardinalityType
<1>3. QED BY <1>1, <1>2

LEMMA GainOne ==
  ASSUME NEW A, NEW B, NEW x, IsFiniteSet(B), x \notin A, A \cup {x} \subseteq B
  PROVE  Cardinality(A) + 1 <= Cardinality(B)
<1>1. IsFiniteSet(A) /\ IsFiniteSet(A \cup {x})
  BY FS_Subset
<1>2. Cardinality(A \cup {x}) = Cardinality(A) + 1
  BY <1>1, FS_AddElement
<1>3. QED BY <1>2, FS_Subset
-----------------------------------------------------------------------------
(* The inductive invariant                                                   *)
LEMMA InitInv == Init => IInv
<1> SUFFICES ASSUME Init PROVE IInv
  OBVIOUS
<1> USE CapAssumption, FiberAssumption DEF Init
<1>1. TypeOK
  BY ListEmpty DEF TypeOK
<1>2. LockInv /\ SavedBeforeReady
  BY DEF LockInv, SavedBeforeReady
<1>3. ListInv
  BY ListEmpty DEF ListInv, Listed, Suspended
<1>4. SleepersAreWoken
  BY DEF SleepersAreWoken, NoLostWakeup, ClosedWakesAll
<1>5. QED BY <1>1, <1>2, <1>3, <1>4 DEF IInv

LEMMA NextType == IInv /\ [Next]_vars => TypeOK'
<1> SUFFICES ASSUME IInv, [Next]_vars PROVE TypeOK'
  OBVIOUS
<1>1. TypeOK /\ NoTwice(producers) /\ NoTwice(consumers) /\ Listed \subseteq Blocking
  BY DEF IInv, ListInv
<1>2. /\ Rest(producers) \in Seq(Putters) /\ First(producers) \subseteq Putters
      /\ Rest(consumers) \in Seq(Getters) /\ First(consumers) \subseteq Getters
      /\ Members(producers) \subseteq Putters /\ Members(consumers) \subseteq Getters
      /\ <<>> \in Seq(Getters) /\ <<>> \in Seq(Putters)
  <2>1. producers \in Seq(Putters) /\ consumers \in Seq(Getters)
    BY <1>1 DEF TypeOK
  <2>2. Members(producers) \subseteq Putters /\ Members(consumers) \subseteq Getters
    BY <2>1, LenProperties, ElementOfSeq DEF Members
  <2>3. QED BY <1>1, <2>1, <2>2, ListRest, ListEmpty
<1>3. (tail + 1) % Cap \in 0 .. Cap - 1 /\ (head + 1) % Cap \in 0 .. Cap - 1
  BY <1>1, Along, CapAssumption DEF TypeOK
<1> USE <1>1 DEF TypeOK, Leave, Fibers
<1>4. ASSUME NEW f \in Fibers, Call(f) \/ Lock(f) \/ Park(f) \/ Resume(f) PROVE TypeOK'
  <2>1. CASE Call(f)
    BY <2>1, CapAssumption DEF Call
  <2>2. CASE Lock(f)
    BY <2>2 DEF Lock
  <2>3. CASE Park(f)
    BY <2>3 DEF Park
  <2>4. CASE Resume(f)
    BY <2>4 DEF Resume
  <2>5. QED BY <1>4, <2>1, <2>2, <2>3, <2>4
<1>5. ASSUME NEW g \in Getters, Get(g) PROVE TypeOK'
  BY <1>2, <1>3, <1>5 DEF Get
<1>6. ASSUME NEW p \in Putters, Put(p) PROVE TypeOK'
  BY <1>2, <1>3, <1>6 DEF Put
<1>7. ASSUME NEW f \in Getters \cup Putters, FindClosed(f) PROVE TypeOK'
  BY <1>7 DEF FindClosed
<1>8. ASSUME NEW f \in Getters \cup Putters, Refuse(f) PROVE TypeOK'
  BY <1>8 DEF Refuse
<1>9. ASSUME NEW f \in Getters \cup Putters, Wait(f) PROVE TypeOK'
  <2>1. CASE f \in Getters /\ consumers' = Append(consumers, f) /\ UNCHANGED producers
    BY <1>9, <2>1, AppendProperties DEF Wait
  <2>2. CASE f \in Putters /\ producers' = Append(producers, f) /\ UNCHANGED consumers
    BY <1>9, <2>2, AppendProperties DEF Wait
  <2>3. QED BY <1>9, <2>1, <2>2 DEF Wait
<1>10. ASSUME NEW c \in Closers, Close(c) PROVE TypeOK'
  BY <1>2, <1>10 DEF Close
<1>11. CASE UNCHANGED vars
  BY <1>11 DEF vars
<1>12. QED
  BY <1>4, <1>5, <1>6, <1>7, <1>8, <1>9, <1>10, <1>11 DEF Next, Step

LEMMA NextLock == IInv /\ [Next]_vars => LockInv'
<1> SUFFICES ASSUME IInv, [Next]_vars PROVE LockInv'
  OBVIOUS
<1> USE FiberAssumption DEF IInv, TypeOK, LockInv, Leave
<1>1. ASSUME NEW f \in Fibers, Call(f) \/ Lock(f) \/ Park(f) \/ Resume(f) PROVE LockInv'
  BY <1>1 DEF Call, Lock, Park, Resume
<1>2. ASSUME NEW f \in Fibers, Leave(f) PROVE LockInv'
  BY <1>2
<1>3. ASSUME NEW f \in Fibers, Wait(f) PROVE LockInv'
  BY <1>3 DEF Wait
<1>4. CASE UNCHANGED vars
  BY <1>4 DEF vars
<1>5. QED
  BY <1>1, <1>2, <1>3, <1>4 DEF Next, Step, Get, Put, FindClosed, Refuse, Close, Fibers

\* Whoever holds the lock from inside finds the fibers on the lists parked.
LEMMA ListedAreParked ==
  ASSUME IInv, NEW f \in Fibers, pc[f] = "inside", NEW x \in Listed
  PROVE  x \in Fibers /\ x # f /\ pc[x] = "parked"
<1>1. x \in Fibers /\ pc[x] \in Suspended
  BY FiberAssumption DEF IInv, ListInv, Fibers
<1>2. lock = f /\ (lock = x <=> pc[x] \in {"inside", "parking"}) /\ x # f
  BY <1>1 DEF IInv, LockInv, Suspended
<1>3. QED BY <1>1, <1>2 DEF Suspended

\* A step that changes the lists only by waking the fibers in woken, and leaves
\* or keeps everybody else where he is.
LEMMA WakeKeepsLists ==
  ASSUME IInv, NEW f \in Fibers, pc[f] = "inside", pc' = [pc EXCEPT ![f] = "idle"],
         NEW woken, ready' = ready \cup woken,
         NoTwice(producers'), NoTwice(consumers'),
         Listed = woken \cup Listed', woken \cap Listed' = {}
  PROVE  ListInv' /\ SavedBeforeReady'
<1>1. \A x \in Listed : x \in Fibers /\ x # f /\ pc[x] = "parked"
  BY ListedAreParked
<1>2. pc \in [Fibers -> {"idle", "enter", "inside", "parking", "parked"}]
  BY DEF IInv, TypeOK
<1>3. SavedBeforeReady'
  BY <1>1, <1>2 DEF IInv, SavedBeforeReady, ListInv
<1>4. Listed' \cup ready' = Listed \cup ready /\ Listed' \cap ready' = {}
  BY DEF IInv, ListInv
<1>5. \A x \in Fibers : pc'[x] \in Suspended <=> pc[x] \in Suspended
  BY <1>2 DEF Suspended
<1>6. QED
  BY <1>3, <1>4, <1>5 DEF IInv, ListInv

LEMMA NextLists == IInv /\ [Next]_vars => ListInv' /\ SavedBeforeReady'
<1> SUFFICES ASSUME IInv, [Next]_vars PROVE ListInv' /\ SavedBeforeReady'
  OBVIOUS
<1>1. /\ producers \in Seq(Putters) /\ consumers \in Seq(Getters)
      /\ NoTwice(producers) /\ NoTwice(consumers)
      /\ pc \in [Fibers -> {"idle", "enter", "inside", "parking", "parked"}]
  BY DEF IInv, ListInv, TypeOK
<1>2. Members(producers) \subseteq Putters /\ Members(consumers) \subseteq Getters
      /\ Members(producers) \cap Members(consumers) = {}
  BY <1>1, FiberAssumption, LenProperties, ElementOfSeq DEF Members
<1>3. ASSUME NEW f \in Fibers, Call(f) \/ Lock(f) \/ Leave(f), UNCHANGED <<producers, consumers, ready>>
      PROVE  ListInv' /\ SavedBeforeReady'
  <2>1. /\ pc[f] \notin Suspended
        /\ \E label \in {"idle", "enter", "inside"} : pc' = [pc EXCEPT ![f] = label]
    BY <1>3 DEF Call, Lock, Leave, Suspended
  <2>2. pc'[f] \notin Suspended /\ \A x \in Fibers \ {f} : pc'[x] = pc[x]
    BY <1>1, <2>1 DEF Suspended
  <2>3. Listed' = Listed /\ f \notin ready
    BY <1>3, <2>1 DEF Listed, IInv, SavedBeforeReady, Suspended
  <2>4. ListInv'
    BY <1>1, <1>3, <2>1, <2>2, <2>3 DEF IInv, ListInv
  <2>5. SavedBeforeReady'
    BY <1>3, <2>1, <2>2, <2>3, FiberAssumption DEF IInv, SavedBeforeReady, TypeOK, Fibers
  <2>6. QED BY <2>4, <2>5
<1>4. ASSUME NEW g \in Getters, Get(g) PROVE ListInv' /\ SavedBeforeReady'
  <2>1. /\ NoTwice(Rest(producers))
        /\ Members(producers) = First(producers) \cup Members(Rest(producers))
        /\ First(producers) \cap Members(Rest(producers)) = {}
    BY <1>1, ListRest
  <2>2. /\ g \in Fibers /\ pc[g] = "inside" /\ pc' = [pc EXCEPT ![g] = "idle"]
        /\ producers' = Rest(producers) /\ consumers' = consumers
        /\ ready' = ready \cup First(producers)
    BY <1>4 DEF Get, Leave, Fibers
  <2>3. Listed' = Members(Rest(producers)) \cup Members(consumers)
    BY <2>2 DEF Listed
  <2>4. Listed = First(producers) \cup Listed' /\ First(producers) \cap Listed' = {}
    BY <1>2, <2>1, <2>3 DEF Listed
  <2>5. QED BY <1>1, <2>1, <2>2, <2>4, WakeKeepsLists
<1>5. ASSUME NEW p \in Putters, Put(p) PROVE ListInv' /\ SavedBeforeReady'
  <2>1. /\ NoTwice(Rest(consumers))
        /\ Members(consumers) = First(consumers) \cup Members(Rest(consumers))
        /\ First(consumers) \cap Members(Rest(consumers)) = {}
    BY <1>1, ListRest
  <2>2. /\ p \in Fibers /\ pc[p] = "inside" /\ pc' = [pc EXCEPT ![p] = "idle"]
        /\ consumers' = Rest(consumers) /\ producers' = producers
        /\ ready' = ready \cup First(consumers)
    BY <1>5 DEF Put, Leave, Fibers
  <2>3. Listed' = Members(producers) \cup Members(Rest(consumers))
    BY <2>2 DEF Listed
  <2>4. Listed = First(consumers) \cup Listed' /\ First(consumers) \cap Listed' = {}
    BY <1>2, <2>1, <2>3 DEF Listed
  <2>5. QED BY <1>1, <2>1, <2>2, <2>4, WakeKeepsLists
<1>6. ASSUME NEW f \in Getters \cup Putters, FindClosed(f) \/ Refuse(f)
      PROVE  ListInv' /\ SavedBeforeReady'
  BY <1>3, <1>6 DEF FindClosed, Refuse, Fibers
<1>7. ASSUME NEW f \in Getters \cup Putters, Wait(f) PROVE ListInv' /\ SavedBeforeReady'
  <2>1. /\ f \in Fibers /\ f \in Blocking /\ pc[f] = "inside"
        /\ pc' = [pc EXCEPT ![f] = "parking"] /\ ready' = ready
    BY <1>7 DEF Wait, Fibers
  <2>2. f \notin Listed /\ f \notin ready
    BY <2>1 DEF IInv, ListInv, Suspended
  <2>3. /\ NoTwice(producers') /\ NoTwice(consumers')
        /\ Listed' = Listed \cup {f}
    <3>1. CASE f \in Getters /\ consumers' = Append(consumers, f) /\ UNCHANGED producers
      <4>1. NoTwice(Append(consumers, f)) /\ Members(Append(consumers, f)) = Members(consumers) \cup {f}
        BY <1>1, <2>2, <3>1, ListAppend DEF Listed
      <4>2. QED BY <1>1, <3>1, <4>1 DEF Listed
    <3>2. CASE f \in Putters /\ producers' = Append(producers, f) /\ UNCHANGED consumers
      <4>1. NoTwice(Append(producers, f)) /\ Members(Append(producers, f)) = Members(producers) \cup {f}
        BY <1>1, <2>2, <3>2, ListAppend DEF Listed
      <4>2. QED BY <1>1, <3>2, <4>1 DEF Listed
    <3>3. QED BY <1>7, <3>1, <3>2 DEF Wait
  <2>4. ListInv'
    BY <1>1, <2>1, <2>2, <2>3 DEF IInv, ListInv, Suspended
  <2>5. SavedBeforeReady'
    BY <1>1, <2>1, <2>2 DEF IInv, SavedBeforeReady
  <2>6. QED BY <2>4, <2>5
<1>8. ASSUME NEW c \in Closers, Close(c) PROVE ListInv' /\ SavedBeforeReady'
  <2>1. CASE closed
    BY <1>3, <1>8, <2>1 DEF Close, Fibers
  <2>2. CASE ~closed
    <3>1. /\ c \in Fibers /\ pc[c] = "inside" /\ pc' = [pc EXCEPT ![c] = "idle"]
          /\ producers' = <<>> /\ consumers' = <<>>
          /\ ready' = ready \cup Listed
      BY <1>8, <2>2 DEF Close, Leave, Fibers, Listed
    <3>2. NoTwice(producers') /\ NoTwice(consumers') /\ Listed' = {}
      BY <3>1, ListEmpty DEF Listed
    <3>3. QED BY <3>1, <3>2, WakeKeepsLists
  <2>3. QED BY <2>1, <2>2
<1>9. ASSUME NEW f \in Fibers, Park(f) PROVE ListInv' /\ SavedBeforeReady'
  BY <1>1, <1>9 DEF IInv, ListInv, SavedBeforeReady, Listed, Suspended, Park
<1>10. ASSUME NEW f \in Fibers, Resume(f) PROVE ListInv' /\ SavedBeforeReady'
  BY <1>1, <1>10 DEF IInv, ListInv, SavedBeforeReady, Listed, Suspended, Resume
<1>11. CASE UNCHANGED vars
  BY <1>11 DEF vars, IInv, ListInv, SavedBeforeReady, Listed
<1>12. QED
  BY <1>3, <1>4, <1>5, <1>6, <1>7, <1>8, <1>9, <1>10, <1>11 DEF Next, Step, Call, Lock
-----------------------------------------------------------------------------
(* No wake-up is lost                                                        *)
ComingGets == Coming \cap Getters \cap Blocking
ComingPuts == Coming \cap Putters \cap Blocking

LEMMA ComingFinite ==
  /\ IsFiniteSet(ComingGets) /\ IsFiniteSet(ComingPuts)
  /\ IsFiniteSet(ComingGets') /\ IsFiniteSet(ComingPuts')
  /\ Cardinality(ComingGets) \in Nat /\ Cardinality(ComingPuts) \in Nat
  /\ Cardinality(ComingGets') \in Nat /\ Cardinality(ComingPuts') \in Nat
<1>1. ComingGets \subseteq Fibers /\ ComingPuts \subseteq Fibers
      /\ ComingGets' \subseteq Fibers /\ ComingPuts' \subseteq Fibers
  BY DEF ComingGets, ComingPuts, Fibers
<1>2. /\ IsFiniteSet(ComingGets) /\ IsFiniteSet(ComingPuts)
      /\ IsFiniteSet(ComingGets') /\ IsFiniteSet(ComingPuts')
  BY <1>1, FiberAssumption, FS_Subset
<1>3. QED BY <1>2, FS_CardinalityType

LEMMA NextWoken == IInv /\ TypeOK' /\ [Next]_vars => SleepersAreWoken'
<1> SUFFICES ASSUME IInv, TypeOK', [Next]_vars PROVE SleepersAreWoken'
  OBVIOUS
<1>1. /\ producers \in Seq(Putters) /\ consumers \in Seq(Getters)
      /\ NoTwice(producers) /\ NoTwice(consumers)
      /\ ready \subseteq Getters \cup Putters
      /\ pc \in [Fibers -> {"idle", "enter", "inside", "parking", "parked"}]
  BY DEF IInv, ListInv, TypeOK
<1>2. Size \in 0 .. Cap - 1 /\ Cap \in Nat \ {0}
      /\ (Empty <=> Size = 0) /\ (Full <=> Size = Cap - 1)
  BY Ring, CapAssumption DEF IInv
<1>3. /\ IsFiniteSet(ComingGets) /\ IsFiniteSet(ComingPuts)
      /\ IsFiniteSet(ComingGets') /\ IsFiniteSet(ComingPuts')
      /\ Cardinality(ComingGets) \in Nat /\ Cardinality(ComingPuts) \in Nat
      /\ Cardinality(ComingGets') \in Nat /\ Cardinality(ComingPuts') \in Nat
  BY ComingFinite
<1>4. /\ ~closed /\ consumers # <<>> => Size <= Cardinality(ComingGets)
      /\ ~closed /\ producers # <<>> => Cap - 1 - Size <= Cardinality(ComingPuts)
      /\ closed => producers = <<>> /\ consumers = <<>>
  BY DEF IInv, SleepersAreWoken, NoLostWakeup, ClosedWakesAll, ComingGets, ComingPuts
<1>5. ASSUME ~closed' /\ consumers' # <<>> => Size' <= Cardinality(ComingGets'),
             ~closed' /\ producers' # <<>> => Cap - 1 - Size' <= Cardinality(ComingPuts'),
             closed' => producers' = <<>> /\ consumers' = <<>>
      PROVE  SleepersAreWoken'
  BY <1>5 DEF SleepersAreWoken, NoLostWakeup, ClosedWakesAll, ComingGets, ComingPuts
<1>6. ASSUME UNCHANGED <<head, tail, producers, consumers, closed>>,
             ComingGets \subseteq ComingGets', ComingPuts \subseteq ComingPuts'
      PROVE  SleepersAreWoken'
  <2>1. Size' = Size
    BY <1>6 DEF Size
  <2>2. /\ Cardinality(ComingGets) <= Cardinality(ComingGets')
        /\ Cardinality(ComingPuts) <= Cardinality(ComingPuts')
    BY <1>3, <1>6, FS_Subset
  <2>3. QED BY <1>2, <1>3, <1>4, <1>5, <1>6, <2>1, <2>2
<1>7. ASSUME NEW f \in Fibers, Call(f) \/ Lock(f) \/ Park(f) \/ Resume(f) PROVE SleepersAreWoken'
  <2>1. UNCHANGED <<head, tail, producers, consumers, closed>>
    BY <1>7 DEF Call, Lock, Park, Resume
  <2>2. Coming \subseteq Coming'
    BY <1>1, <1>7 DEF Coming, Call, Lock, Park, Resume
  <2>3. QED BY <1>6, <2>1, <2>2 DEF ComingGets, ComingPuts
<1>8. ASSUME NEW g \in Getters, Get(g) PROVE SleepersAreWoken'
  <2>1. /\ ~closed /\ ~closed' /\ ~Empty /\ head' = head /\ tail' = (tail + 1) % Cap
        /\ pc[g] = "inside" /\ pc' = [pc EXCEPT ![g] = "idle"] /\ g \in Fibers
        /\ consumers' = consumers /\ producers' = Rest(producers)
        /\ ready' = ready \cup First(producers)
    BY <1>8 DEF Get, Leave, Fibers
  <2>2. Size' = Size - 1
    BY <2>1, TakeOne DEF IInv
  <2>3. Coming \ {g} \subseteq Coming'
    BY <1>1, <2>1 DEF Coming
  <2>4. Cardinality(ComingGets) - 1 <= Cardinality(ComingGets')
    BY <1>3, <2>3, LoseOne DEF ComingGets
  <2>5. ASSUME producers' # <<>> PROVE Cardinality(ComingPuts) + 1 <= Cardinality(ComingPuts')
    <3>1. PICK x : First(producers) = {x}
      BY <1>1, <2>1, <2>5, ListEmpty DEF First, Rest
    <3>2. x \in Members(producers) /\ x \in Putters
      <4>1. /\ First(producers) \subseteq Putters
            /\ Members(producers) = First(producers) \cup Members(Rest(producers))
        BY <1>1, ListRest
      <4>2. QED BY <3>1, <4>1
    <3>3. x \in Blocking /\ x \notin ready /\ x \in Fibers /\ pc[x] = "parked"
      BY <2>1, <3>2, ListedAreParked DEF IInv, ListInv, Listed
    <3>4. x \notin ComingPuts
      BY <3>3 DEF ComingPuts, Coming
    <3>5. g \notin Putters
      BY FiberAssumption
    <3>6. ComingPuts \cup {x} \subseteq ComingPuts'
      BY <2>1, <2>3, <3>1, <3>2, <3>3, <3>5 DEF ComingPuts, Coming
    <3>7. QED BY <1>3, <3>4, <3>6, GainOne
  <2>6. producers' # <<>> => producers # <<>>
    BY <2>1 DEF Rest
  <2>7. QED BY <1>2, <1>3, <1>4, <1>5, <2>1, <2>2, <2>4, <2>5, <2>6
<1>9. ASSUME NEW p \in Putters, Put(p) PROVE SleepersAreWoken'
  <2>1. /\ ~closed /\ ~closed' /\ ~Full /\ tail' = tail /\ head' = (head + 1) % Cap
        /\ pc[p] = "inside" /\ pc' = [pc EXCEPT ![p] = "idle"] /\ p \in Fibers
        /\ producers' = producers /\ consumers' = Rest(consumers)
        /\ ready' = ready \cup First(consumers)
    BY <1>9 DEF Put, Leave, Fibers
  <2>2. Size' = Size + 1
    BY <2>1, AddOne DEF IInv
  <2>3. Coming \ {p} \subseteq Coming'
    BY <1>1, <2>1 DEF Coming
  <2>4. Cardinality(ComingPuts) - 1 <= Cardinality(ComingPuts')
    BY <1>3, <2>3, LoseOne DEF ComingPuts
  <2>5. ASSUME consumers' # <<>> PROVE Cardinality(ComingGets) + 1 <= Cardinality(ComingGets')
    <3>1. PICK x : First(consumers) = {x}
      BY <1>1, <2>1, <2>5, ListEmpty DEF First, Rest
    <3>2. x \in Members(consumers) /\ x \in Getters
      <4>1. /\ First(consumers) \subseteq Getters
            /\ Members(consumers) = First(consumers) \cup Members(Rest(consumers))
        BY <1>1, ListRest
      <4>2. QED BY <3>1, <4>1
    <3>3. x \in Blocking /\ x \notin ready /\ x \in Fibers /\ pc[x] = "parked"
      BY <2>1, <3>2, ListedAreParked DEF IInv, ListInv, Listed
    <3>4. x \notin ComingGets
      BY <3>3 DEF ComingGets, Coming
    <3>5. p \notin Getters
      BY FiberAssumption
    <3>6. ComingGets \cup {x} \subseteq ComingGets'
      BY <2>1, <2>3, <3>1, <3>2, <3>3, <3>5 DEF ComingGets, Coming
    <3>7. QED BY <1>3, <3>4, <3>6, GainOne
  <2>6. consumers' # <<>> => consumers # <<>>
    BY <2>1 DEF Rest
  <2>7. QED BY <1>2, <1>3, <1>4, <1>5, <2>1, <2>2, <2>4, <2>5, <2>6
<1>10. ASSUME NEW f \in Getters \cup Putters, FindClosed(f) PROVE SleepersAreWoken'
  BY <1>4, <1>5, <1>10 DEF FindClosed
<1>11. ASSUME NEW f \in Getters \cup Putters, Refuse(f) PROVE SleepersAreWoken'
  <2>1. /\ UNCHANGED <<head, tail, producers, consumers, closed, ready>>
        /\ f \notin Blocking /\ pc' = [pc EXCEPT ![f] = "idle"]
    BY <1>11 DEF Refuse, Leave
  <2>2. Coming \ {f} \subseteq Coming'
    BY <1>1, <2>1 DEF Coming
  <2>3. QED BY <1>6, <2>1, <2>2 DEF ComingGets, ComingPuts
<1>12. ASSUME NEW f \in Getters \cup Putters, Wait(f) PROVE SleepersAreWoken'
  <2>1. /\ UNCHANGED <<head, tail, closed, ready>> /\ ~closed
        /\ pc' = [pc EXCEPT ![f] = "parking"]
    BY <1>12 DEF Wait
  <2>2. Size' = Size /\ Coming \ {f} \subseteq Coming'
    BY <1>1, <2>1 DEF Size, Coming
  <2>3. CASE f \in Getters /\ Empty /\ UNCHANGED producers
    <3>1. ComingPuts \subseteq ComingPuts'
      BY <2>2, <2>3, FiberAssumption DEF ComingPuts
    <3>2. Cardinality(ComingPuts) <= Cardinality(ComingPuts')
      BY <1>3, <3>1, FS_Subset
    <3>3. QED BY <1>2, <1>3, <1>4, <1>5, <2>1, <2>2, <2>3, <3>2
  <2>4. CASE f \in Putters /\ Full /\ UNCHANGED consumers
    <3>1. ComingGets \subseteq ComingGets'
      BY <2>2, <2>4, FiberAssumption DEF ComingGets
    <3>2. Cardinality(ComingGets) <= Cardinality(ComingGets')
      BY <1>3, <3>1, FS_Subset
    <3>3. QED BY <1>2, <1>3, <1>4, <1>5, <2>1, <2>2, <2>4, <3>2
  <2>5. QED BY <1>12, <2>3, <2>4 DEF Wait
<1>13. ASSUME NEW c \in Closers, Close(c) PROVE SleepersAreWoken'
  BY <1>4, <1>5, <1>13 DEF Close
<1>14. CASE UNCHANGED vars
  BY <1>6, <1>14 DEF vars, ComingGets, ComingPuts, Coming
<1>15. QED
  BY <1>7, <1>8, <1>9, <1>10, <1>11, <1>12, <1>13, <1>14 DEF Next, Step

LEMMA Invariance == Spec => []IInv
<1>1. IInv /\ [Next]_vars => IInv'
  BY NextType, NextLock, NextLists, NextWoken DEF IInv
<1>2. QED BY InitInv, <1>1, PTL DEF Spec

\* Types, a suspended fiber is in exactly one list once, and only fibers whose
\* context is saved are readied: for all fibers, rings and numbers of calls.
THEOREM ChannelFibersAreSafe == Spec => []FibersAreSafe
<1>1. IInv => OnePlace
  <2>1. SUFFICES ASSUME IInv, NEW f \in Fibers
                 PROVE  Cardinality({i \in DOMAIN producers : producers[i] = f})
                          + Cardinality({i \in DOMAIN consumers : consumers[i] = f})
                          + (IF f \in ready THEN 1 ELSE 0)
                        = (IF pc[f] \in {"parking", "parked"} THEN 1 ELSE 0)
    BY DEF OnePlace
  <2>2. /\ producers \in Seq(Putters) /\ consumers \in Seq(Getters)
        /\ NoTwice(producers) /\ NoTwice(consumers)
    BY <2>1 DEF IInv, TypeOK, ListInv
  <2>3. Members(producers) \cap Members(consumers) = {}
    BY <2>2, FiberAssumption, LenProperties, ElementOfSeq DEF Members
  <2>4. /\ Cardinality({i \in DOMAIN producers : producers[i] = f})
             = IF f \in Members(producers) THEN 1 ELSE 0
        /\ Cardinality({i \in DOMAIN consumers : consumers[i] = f})
             = IF f \in Members(consumers) THEN 1 ELSE 0
    BY <2>2, ListPlaces
  <2>5. /\ pc[f] \in {"parking", "parked"} <=> f \in Listed \cup ready
        /\ Listed \cap ready = {}
    BY <2>1 DEF IInv, ListInv, Suspended
  <2>6. CASE f \in Members(producers)
    BY <2>3, <2>4, <2>5, <2>6 DEF Listed
  <2>7. CASE f \in Members(consumers)
    BY <2>3, <2>4, <2>5, <2>7 DEF Listed
  <2>8. CASE f \notin Listed
    BY <2>4, <2>5, <2>8 DEF Listed
  <2>9. QED BY <2>6, <2>7, <2>8 DEF Listed
<1>2. IInv => FibersAreSafe
  BY <1>1 DEF IInv, FibersAreSafe
<1>3. QED BY <1>2, Invariance, PTL

\* While a fiber waits, every entry or place has a fiber of that side on its
\* way, and closing leaves nobody behind: for all fibers, rings and calls.
THEOREM ChannelSleepersAreWoken == Spec => []SleepersAreWoken
<1>1. IInv => SleepersAreWoken
  BY DEF IInv
<1>2. QED BY <1>1, Invariance, PTL
-----------------------------------------------------------------------------
(* The channel implements the buffer of AbstractChannel                      *)
Entries == Putters \cup {Nothing}
Pending == {f \in Fibers : pc[f] # "idle"}

ItemsOK ==
  /\ Items \in Seq(Entries) /\ Len(Items) = Size /\ Size \in Nat
  /\ \A i \in 1 .. Size : Items[i] = ring[(tail + (i - 1)) % Cap]

LEMMA ItemsType == TypeOK => ItemsOK
<1> SUFFICES ASSUME TypeOK PROVE ItemsOK
  OBVIOUS
<1>1. Size \in Nat /\ Size <= Cap /\ tail \in 0 .. Cap - 1 /\ Cap \in Nat
      /\ ring \in [0 .. Cap - 1 -> Entries]
  BY Ring, CapAssumption DEF TypeOK, Entries
<1>2. ASSUME NEW i \in 1 .. Size
      PROVE  ring[(tail + i - 1) % Cap] \in Entries
             /\ ring[(tail + i - 1) % Cap] = ring[(tail + (i - 1)) % Cap]
  <2>1. i - 1 \in 0 .. Cap /\ tail + i - 1 = tail + (i - 1)
    BY <1>1
  <2>2. (tail + (i - 1)) % Cap \in 0 .. Cap - 1
    BY <1>1, <2>1, Along
  <2>3. QED BY <1>1, <2>1, <2>2
<1>3. Items \in [1 .. Size -> Entries]
  BY <1>2 DEF Items
<1>4. Items \in Seq(Entries) /\ Len(Items) = Size
  BY <1>1, <1>3, IsASeq, LenProperties
<1>5. QED BY <1>1, <1>2, <1>4 DEF Items, ItemsOK

LEMMA ItemsTypeNext == TypeOK' => ItemsOK'
  BY ItemsType, PTL

LEMMA ItemsEmpty == ASSUME TypeOK PROVE Empty <=> Items = <<>>
<1>1. Items \in Seq(Entries) /\ Len(Items) = Size /\ (Empty <=> Size = 0)
  BY ItemsType, Ring DEF ItemsOK
<1>2. QED BY <1>1, EmptySeq

\* Taking the entry at tail takes the first item.
LEMMA ItemsTail ==
  ASSUME TypeOK, TypeOK', ~Empty, ring' = ring, head' = head, tail' = (tail + 1) % Cap
  PROVE  Items' = Tail(Items) /\ Head(Items) = ring[tail]
<1>1. /\ Items \in Seq(Entries) /\ Len(Items) = Size
      /\ \A i \in 1 .. Size : Items[i] = ring[(tail + (i - 1)) % Cap]
  BY ItemsType DEF ItemsOK
<1>2. Items' \in Seq(Entries) /\ Len(Items') = Size'
      /\ \A i \in 1 .. Size' : Items'[i] = ring'[(tail' + (i - 1)) % Cap]
  BY ItemsTypeNext DEF ItemsOK
<1>3. Size' = Size - 1 /\ Size \in 1 .. Cap - 1
  BY TakeOne, Ring
<1>4. tail \in 0 .. Cap - 1 /\ Cap \in Nat \ {0} /\ Items # <<>>
  BY CapAssumption, ItemsEmpty DEF TypeOK
<1>5. /\ Tail(Items) \in Seq(Entries) /\ Len(Tail(Items)) = Size - 1
      /\ \A i \in 1 .. Size - 1 : Tail(Items)[i] = Items[i + 1]
      /\ Head(Items) = Items[1]
  BY <1>1, <1>4, HeadTailProperties
<1>6. ASSUME NEW i \in 1 .. Size - 1 PROVE Items'[i] = Tail(Items)[i]
  <2>1. i \in Nat /\ i + 1 \in 1 .. Size /\ (i + 1) - 1 = i /\ i - 1 \in 0 .. Cap /\ i \in 0 .. Cap
    BY <1>3, <1>4
  <2>2. Items[i + 1] = ring[(tail + i) % Cap]
    BY <1>1, <2>1
  <2>3. Items'[i] = ring[(tail' + (i - 1)) % Cap]
    BY <1>2, <1>3
  <2>4. (tail' + (i - 1)) % Cap = (tail + i) % Cap
    <3>1. (tail + i) % Cap = IF tail + i < Cap THEN tail + i ELSE tail + i - Cap
      BY <1>4, <2>1, Along
    <3>2. tail' = IF tail + 1 < Cap THEN tail + 1 ELSE tail + 1 - Cap
      BY <1>3, <1>4, Along
    <3>3. (tail' + (i - 1)) % Cap
            = IF tail' + (i - 1) < Cap THEN tail' + (i - 1) ELSE tail' + (i - 1) - Cap
      BY <2>1, Along DEF TypeOK
    <3>4. QED BY <1>3, <1>4, <2>1, <3>1, <3>2, <3>3
  <2>5. QED BY <1>5, <2>2, <2>3, <2>4
<1>7. Items' = Tail(Items)
  BY <1>2, <1>3, <1>5, <1>6, SeqEqual
<1>8. Head(Items) = ring[tail]
  <2>1. 1 \in 1 .. Size /\ 1 - 1 = 0 /\ 0 \in 0 .. Cap /\ tail + 0 = tail
    BY <1>3, <1>4
  <2>2. tail % Cap = tail
    BY <1>4, ModSmall
  <2>3. QED BY <1>1, <1>5, <2>1, <2>2
<1>9. QED BY <1>7, <1>8

\* Storing an entry at head appends an item.
LEMMA ItemsAppend ==
  ASSUME TypeOK, TypeOK', ~Full, NEW p \in Putters, ring' = [ring EXCEPT ![head] = p],
         tail' = tail, head' = (head + 1) % Cap
  PROVE  Items' = Append(Items, p)
<1>1. /\ Items \in Seq(Entries) /\ Len(Items) = Size
      /\ \A i \in 1 .. Size : Items[i] = ring[(tail + (i - 1)) % Cap]
  BY ItemsType DEF ItemsOK
<1>2. Items' \in Seq(Entries) /\ Len(Items') = Size'
      /\ \A i \in 1 .. Size' : Items'[i] = ring'[(tail' + (i - 1)) % Cap]
  BY ItemsTypeNext DEF ItemsOK
<1>3. Size' = Size + 1 /\ Size \in 0 .. Cap - 2
      /\ Size = IF head >= tail THEN head - tail ELSE head + Cap - tail
  BY AddOne, Ring, CapAssumption
<1>4. /\ tail \in 0 .. Cap - 1 /\ head \in 0 .. Cap - 1 /\ Cap \in Nat \ {0}
      /\ ring \in [0 .. Cap - 1 -> Entries] /\ p \in Entries
  BY CapAssumption DEF TypeOK, Entries
<1>5. /\ Append(Items, p) \in Seq(Entries) /\ Len(Append(Items, p)) = Size + 1
      /\ \A i \in 1 .. Size : Append(Items, p)[i] = Items[i]
      /\ Append(Items, p)[Size + 1] = p
  BY <1>1, <1>4, AppendProperties
<1>6. ASSUME NEW i \in 1 .. Size + 1 PROVE Items'[i] = Append(Items, p)[i]
  <2>1. i - 1 \in 0 .. Cap /\ i - 1 <= Size
    BY <1>3, <1>4
  <2>2. /\ (tail + (i - 1)) % Cap = IF tail + (i - 1) < Cap THEN tail + (i - 1) ELSE tail + (i - 1) - Cap
        /\ (tail + (i - 1)) % Cap \in 0 .. Cap - 1
    BY <1>4, <2>1, Along
  <2>3. Items'[i] = ring'[(tail + (i - 1)) % Cap]
    BY <1>2, <1>3
  <2>4. CASE i = Size + 1
    <3>1. (tail + (i - 1)) % Cap = head
      BY <1>3, <1>4, <2>2, <2>4
    <3>2. QED BY <1>4, <1>5, <2>3, <2>4, <3>1
  <2>5. CASE i \in 1 .. Size
    <3>1. (tail + (i - 1)) % Cap # head
      BY <1>3, <1>4, <2>2, <2>5
    <3>2. QED BY <1>1, <1>4, <1>5, <2>2, <2>3, <2>5, <3>1
  <2>6. Size \in Nat
    BY <1>3, <1>4
  <2>7. i = Size + 1 \/ i \in 1 .. Size
    BY <2>6
  <2>8. QED BY <2>4, <2>5, <2>7
<1>7. QED
  BY <1>2, <1>3, <1>5, <1>6, SeqEqual

\* A step of a fiber that leaves the buffer alone, seen from outside.
LEMMA SameItems ==
  ASSUME UNCHANGED <<ring, head, tail>>
  PROVE  Items' = Items
  BY DEF Items, Size

LEMMA ReturnRefines ==
  ASSUME TypeOK, NEW f \in Fibers, Leave(f)
  PROVE  f \in Pending /\ Pending' = Pending \ {f}
  BY DEF TypeOK, Leave, Pending

LEMMA StepRefines ==
  ASSUME IInv, TypeOK', [Next]_vars
  PROVE  [Abs!Next]_(Abs!vars)
<1> DEFINE out == {f \in Fibers : pc[f] # "idle"}
<1>1. TypeOK /\ pc \in [Fibers -> {"idle", "enter", "inside", "parking", "parked"}]
  BY DEF IInv, TypeOK
<1>2. Pending = out /\ Pending' = out'
  BY DEF Pending
<1>3. Abs!Fibers = Fibers
  BY DEF Abs!Fibers, Fibers
<1>4. ASSUME NEW f \in Fibers, Call(f) PROVE Abs!Call(f)
  <2>1. Pending' = Pending \cup {f} /\ f \notin Pending
    BY <1>1, <1>4 DEF Call, Pending
  <2>2. Items' = Items /\ closed' = closed /\ got' = got
    BY <1>4, SameItems DEF Call
  <2>3. QED BY <2>1, <2>2 DEF Abs!Call, Pending
<1>5. ASSUME NEW f \in Fibers, Lock(f) \/ Park(f) \/ Resume(f) \/ Wait(f)
      PROVE  UNCHANGED Abs!vars
  <2>1. Pending' = Pending
    BY <1>1, <1>5 DEF Lock, Park, Resume, Wait, Pending
  <2>2. Items' = Items /\ closed' = closed /\ got' = got
    <3>1. UNCHANGED <<ring, head, tail, closed, got>>
      BY <1>5 DEF Lock, Park, Resume, Wait
    <3>2. QED BY <3>1, SameItems
  <2>3. QED BY <2>1, <2>2 DEF Abs!vars, Pending
<1>6. ASSUME NEW g \in Getters, Get(g) PROVE Abs!Get(g)
  <2>1. g \in Pending /\ Pending' = Pending \ {g}
    BY <1>1, <1>6, ReturnRefines DEF Get, Fibers
  <2>2. Items' = Tail(Items) /\ Head(Items) = ring[tail] /\ Items # <<>>
    <3>1. ~Empty /\ ring' = ring /\ head' = head /\ tail' = (tail + 1) % Cap
      BY <1>6 DEF Get
    <3>2. QED BY <1>1, <3>1, ItemsTail, ItemsEmpty
  <2>3. ~closed /\ closed' = closed /\ got' = [got EXCEPT ![g] = ring[tail]]
    BY <1>6 DEF Get
  <2>4. QED BY <2>1, <2>2, <2>3 DEF Abs!Get, Abs!Return, Pending
<1>7. ASSUME NEW p \in Putters, Put(p) PROVE Abs!Put(p)
  <2>1. p \in Pending /\ Pending' = Pending \ {p}
    BY <1>1, <1>7, ReturnRefines DEF Put, Fibers
  <2>2. ~Full /\ tail' = tail /\ head' = (head + 1) % Cap /\ ring' = [ring EXCEPT ![head] = p]
    BY <1>7 DEF Put
  <2>3. Items' = Append(Items, p)
    BY <1>1, <2>2, ItemsAppend
  <2>4. Len(Items) < Cap - 1
    <3>1. Size \in 0 .. Cap - 1 /\ Size # Cap - 1 /\ Len(Items) = Size /\ Cap \in Nat
      BY <1>1, <2>2, Ring, ItemsType, CapAssumption DEF ItemsOK
    <3>2. QED BY <3>1
  <2>5. ~closed /\ closed' = closed /\ got' = got
    BY <1>7 DEF Put
  <2>6. QED BY <2>1, <2>3, <2>4, <2>5 DEF Abs!Put, Abs!Return, Pending
<1>8. ASSUME NEW f \in Getters \cup Putters, Refuse(f) PROVE Abs!Refuse(f)
  <2>1. f \in Pending /\ Pending' = Pending \ {f}
    BY <1>1, <1>8, ReturnRefines DEF Refuse, Fibers
  <2>2. Items' = Items
    BY <1>8, SameItems DEF Refuse
  <2>3. /\ ~closed /\ closed' = closed /\ f \notin Blocking
        /\ \/ f \in Getters /\ Empty /\ got' = [got EXCEPT ![f] = Nothing]
           \/ f \in Putters /\ Full /\ got' = got
    BY <1>8 DEF Refuse
  <2>4. (Empty <=> Items = <<>>) /\ (Full <=> Len(Items) = Cap - 1)
    BY <1>1, ItemsEmpty, ItemsType, Ring DEF ItemsOK
  <2>5. QED BY <2>1, <2>2, <2>3, <2>4, FiberAssumption DEF Abs!Refuse, Abs!Return, Pending
<1>9. ASSUME NEW f \in Getters \cup Putters, FindClosed(f) PROVE Abs!FindClosed(f)
  <2>1. f \in Pending /\ Pending' = Pending \ {f}
    BY <1>1, <1>9, ReturnRefines DEF FindClosed, Fibers
  <2>2. Items' = Items
    BY <1>9, SameItems DEF FindClosed
  <2>3. QED BY <1>9, <2>1, <2>2 DEF FindClosed, Abs!FindClosed, Abs!Return, Pending
<1>10. ASSUME NEW c \in Closers, Close(c) PROVE Abs!Close(c)
  <2>1. c \in Pending /\ Pending' = Pending \ {c}
    BY <1>1, <1>10, ReturnRefines DEF Close, Fibers
  <2>2. Items' = Items
    BY <1>10, SameItems DEF Close
  <2>3. QED BY <1>10, <2>1, <2>2 DEF Close, Abs!Close, Abs!Return, Pending
<1>11. ASSUME UNCHANGED vars PROVE UNCHANGED Abs!vars
  BY <1>11, SameItems DEF vars, Abs!vars
<1>12. QED
  BY <1>3, <1>4, <1>5, <1>6, <1>7, <1>8, <1>9, <1>10, <1>11
     DEF Next, Step, Abs!Next, Abs!Finish

\* The ring, its lock and its wait lists are, for their callers, one bounded
\* first-in first-out buffer: the safety part of RefinesAbstractChannel.
THEOREM ChannelIsBuffer == Spec => Abs!Safety
<1>1. Init => Abs!Init
  <2>1. SUFFICES ASSUME Init PROVE Abs!Init
    OBVIOUS
  <2>2. TypeOK /\ Empty
    BY <2>1, InitInv DEF IInv, Init, Empty
  <2>3. Items = <<>>
    BY <2>2, ItemsEmpty
  <2>4. QED BY <2>1, <2>3 DEF Init, Abs!Init
<1>2. IInv /\ TypeOK' /\ [Next]_vars => [Abs!Next]_(Abs!vars)
  BY StepRefines
<1>3. IInv => TypeOK
  BY DEF IInv
<1>4. QED
  BY <1>1, <1>2, <1>3, Invariance, PTL DEF Spec, Abs!Safety
=============================================================================
