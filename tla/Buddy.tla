------------------------------- MODULE Buddy --------------------------------
(***************************************************************************)
(* The buddy allocator at the bottom of src/src/datastructures/buddy.c     *)
(* (lines 38-155), one region of Cap bytes.  A block of level l has        *)
(* Cap / 2^l bytes; the two halves of a block are buddies.  A region is a  *)
(* record of its free blocks <<level, offset>> and its merge bits: one bit *)
(* per pair of buddies, set while exactly one of the two is free.  Blocks  *)
(* start at their offset in the region; the order of a free list is left   *)
(* out, any of its blocks may be popped.                                   *)
(***************************************************************************)
EXTENDS Naturals, FiniteSetsExt

CONSTANTS
  MinSize,   \* ba->min_size
  Levels     \* ba->nr_levels

ASSUME BuddyAssumption == MinSize \in Nat \ {0} /\ Levels \in Nat \ {0, 1}

\* 1 << n, by doubling.
Pow2[n \in 0 .. Levels] == IF n = 0 THEN 1 ELSE 2 * Pow2[n - 1]
Cap == MinSize * Pow2[Levels - 1]
SizeAt(l) == Cap \div Pow2[l]
BlockIndex(off, l) == Pow2[l] + off \div SizeAt(l) - 1

\* The block of level l around off, and the other half of its parent.
Start(off, l) == off - (off % SizeAt(l))
BuddyOf(off, l) ==
  IF BlockIndex(off, l) % 2 = 1 THEN Start(off, l) + SizeAt(l) ELSE Start(off, l) - SizeAt(l)

\* The smallest blocks that hold size bytes; the mutant rounds down.
LevelOf_RoundsDown(size) == Min({l \in 0 .. Levels-1 : SizeAt(l) <= size} \cup {Levels-1})
LevelOf(size) == Max({l \in 0 .. Levels-1 : size <= SizeAt(l)})

Toggle(bits, S) == (bits \ S) \cup (S \ bits)
Pairs(off, levels) == {BlockIndex(off, l-1) : l \in levels}

\* The first header bytes hold the allocator itself.  The smallest level is
\* left out: the buddy of the header's last block is never handed out.
Create(header) ==
  LET split == {l \in 1 .. Levels-2 : BuddyOf(header, l) > header}
  IN  [free |-> {<<l, BuddyOf(header, l)>> : l \in split}, bits |-> Pairs(header, split)]

\* The levels a block for level may be cut from: the whole region, level 0, is not one.
Sources(r, level) == {l \in 1 .. level : \E b \in r.free : b[1] = l}

\* Where the block may start: at any free block of the nearest such level.
Places(r, level) ==
  IF Sources(r, level) = {} THEN {}
  ELSE {b[2] : b \in {x \in r.free : x[1] = Max(Sources(r, level))}}

\* Cut the block at off down to level; the upper halves become free.
AllocBlock(r, off, level) ==
  LET from == Max(Sources(r, level))
  IN  [free |-> (r.free \ {<<from, off>>}) \cup {<<l, off + SizeAt(l)>> : l \in from+1 .. level},
       bits |-> Toggle(r.bits, Pairs(off, from .. level))]

FreeBlock_StaysListed(r, off, level) ==   \* mutant: the merged buddies stay in their lists
  LET stop == Max({l \in 0 .. level : l = 0 \/ BlockIndex(off, l-1) \notin r.bits})
  IN  [free |-> r.free \cup {<<l, Start(off, l)>> : l \in {stop} \ {0}},
       bits |-> Toggle(r.bits, Pairs(off, (stop .. level) \ {0}))]
FreeBlock_NoMerge(r, off, level) ==   \* mutant: the bits are kept but nothing merges
  [free |-> r.free \cup {<<level, off>>}, bits |-> Toggle(r.bits, Pairs(off, {level}))]

\* Merge with free buddies up to level stop and free what came out of it.
FreeBlock(r, off, level) ==
  LET stop == Max({l \in 0 .. level : l = 0 \/ BlockIndex(off, l-1) \notin r.bits})
  IN  [free |-> (r.free \ {<<l, BuddyOf(off, l)>> : l \in stop+1 .. level})
                  \cup {<<l, Start(off, l)>> : l \in {stop} \ {0}},
       bits |-> Toggle(r.bits, Pairs(off, (stop .. level) \ {0}))]
=============================================================================
