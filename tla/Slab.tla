-------------------------------- MODULE Slab --------------------------------
(* The slab allocator: objects of one size in slabs that are linked by their  *)
(* last object.  The next field of an object holds its id while it is in use, *)
(* the next free object while it is free and the next slab in a last object;  *)
(* two tag bits tell which.                                                   *)
EXTENDS Naturals, FiniteSets

CONSTANTS
  PerFirst,  \* objects of the first slab, which also holds the header
  PerSlab,   \* objects of the others
  MaxSlabs,  \* bound: slabs
  MaxIds,    \* bound: allocations
  Nil

SlabAssumption ==
  /\ PerSlab \in Nat /\ PerFirst \in 2 .. PerSlab /\ MaxSlabs \in Nat
  /\ Nil \notin Nat /\ Nil \notin Nat \X Nat

VARIABLES
  next,    \* the next field of each object, by <<slab, place>>
  free,    \* first free object, or Nil
  end,     \* the first object that was never handed out, or the link before it
  nextid,  \* next_id
  memory,  \* slabs that are allocated; empty after destroy
  users    \* objects that callers hold, with the id they were given

slabVars == <<next, free, end, nextid, memory, users>>
-----------------------------------------------------------------------------
\* A word: its tag, which says what it holds, and an id or a link.
Id(n) == <<0, n>>
Free(p) == <<1, p>>
Link(p) == <<2, p>>

Size(k) == IF k = 1 THEN PerFirst ELSE PerSlab
Objects(k) == {k} \X (0 .. Size(k) - 1)
LastOf(k) == <<k, Size(k) - 1>>

\* Fresh memory is zero, which is the tag of an object in use.
Fresh(k) == [p \in Objects(k) |-> IF p = LastOf(k) THEN Link(Nil) ELSE Id(0)]

SlabInit ==
  /\ next = Fresh(1)
  /\ free = Nil /\ end = <<1, 0>> /\ nextid = 1
  /\ memory = {1} /\ users = {}

\* mutant: the link to the new slab is not set.
GrowUnlinked(p) ==
  LET k == p[1] + 1 IN
  [q \in DOMAIN next \cup Objects(k) |-> IF q \in Objects(k) THEN Fresh(k)[q] ELSE next[q]]

\* A new slab, linked from p, the last object of the one before.
Grow(p) ==
  LET k == p[1] + 1 IN
  [q \in DOMAIN next \cup Objects(k) |->
     IF q = p THEN Link(k) ELSE IF q \in Objects(k) THEN Fresh(k)[q] ELSE next[q]]

Give(object, words) ==
  /\ next' = [words EXCEPT ![object] = Id(nextid)]
  /\ users' = users \cup {[object |-> object, id |-> nextid]}
  /\ nextid' = nextid + 1

After(p) == <<p[1], p[2] + 1>>

AllocFree ==
  /\ free # Nil /\ nextid <= MaxIds
  /\ free' = next[free][2]
  /\ Give(free, next)
  /\ UNCHANGED <<end, memory>>

AllocEnd ==
  /\ free = Nil /\ nextid <= MaxIds
  /\ end \in DOMAIN next /\ next[end][1] # 2
  /\ end' = After(end)
  /\ Give(end, next)
  /\ UNCHANGED <<free, memory>>

AllocSlab ==
  /\ free = Nil /\ nextid <= MaxIds /\ Cardinality(memory) < MaxSlabs
  /\ end \in DOMAIN next /\ next[end][1] = 2
  /\ LET first == <<end[1] + 1, 0>> IN
     /\ Give(first, Grow(end))
     /\ end' = After(first)
  /\ memory' = memory \cup {end[1] + 1}
  /\ UNCHANGED free

\* mutant: the tag is not looked at.
NextFreedAlways(object) == [next EXCEPT ![object] = Free(free)]

\* slab_free does nothing to an object that is not in use.
NextFreed(object) ==
  IF next[object][1] = 0 THEN [next EXCEPT ![object] = Free(free)] ELSE next

\* The holder of an object gives it back, or gives back again one it has
\* already given back and that was not handed out since.
SlabFree(object) ==
  /\ \/ \E u \in users : u.object = object
     \/ next[object][1] = 1
  /\ next' = NextFreed(object)
  /\ free' = IF next'[object] # next[object] THEN object ELSE free
  /\ users' = {u \in users : u.object # object}
  /\ UNCHANGED <<end, nextid, memory>>

\* The slabs that are reached from a slab through the links of last objects.
Reach[k \in 1 .. MaxSlabs + 1] ==
  {k} \cup LET to == next[LastOf(k)][2] IN
            IF to = Nil \/ to \notin memory THEN {} ELSE Reach[to]

Destroy ==
  /\ memory # {} /\ users = {}
  /\ memory' = memory \ Reach[1]
  /\ next' = [p \in {} |-> Id(0)] /\ free' = Nil /\ end' = Nil
  /\ UNCHANGED <<nextid, users>>

SlabNext ==
  \/ AllocFree
  \/ AllocEnd
  \/ AllocSlab
  \/ \E p \in DOMAIN next : SlabFree(p)
  \/ Destroy
SlabSpec == SlabInit /\ [][SlabNext]_slabVars
-----------------------------------------------------------------------------
(* Properties.                                                               *)

\* slab_alloc and slab_free: an object is handed out to one holder at a time,
\* its id stays where it was put, and it is never one that links two slabs.
OneHolder ==
  \A u \in users :
    /\ u.object \in DOMAIN next /\ next[u.object] = Id(u.id)
    /\ u.object # LastOf(u.object[1])
    /\ \A v \in users : v.object = u.object => v = u

\* _slab_destroy: it finds every slab whatever was allocated and freed before.
DestroyFindsAll == next = <<>> => memory = {}

\* Both: an object has one holder, a slab is never lost.
SlabsAreSound == OneHolder /\ DestroyFindsAll
=============================================================================
