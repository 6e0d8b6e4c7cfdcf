----------------------------- MODULE BuddyCache -----------------------------
(***************************************************************************)
(* The allocator the program runs on (src/src/datastructures/buddy.c, 157  *)
(* to 318).  Every processor has a region with a buddy allocator, guarded  *)
(* by a lock, and a cache: lists of blocks released by its thread, by      *)
(* level, from any region.  A request first looks into the lists of its    *)
(* processor, then cuts a block from its region.  When the counter of the  *)
(* cache is over a limit, the next request first collects: each listed     *)
(* block goes back to the region it is from, which merges it.              *)
(*                                                                         *)
(* One thread runs on each processor (worker_init pins them), so the lists *)
(* are its own; what it does with the lock held is one action.  Counters   *)
(* are changed without the lock, also by other processors: a load, then a  *)
(* store.                                                                  *)
(***************************************************************************)
EXTENDS Buddy, Integers, Sequences

CONSTANTS
  Cpus,
  None,
  Header,      \* where a region's own bookkeeping ends
  Permanent,   \* Permanent[c]: levels of the blocks tc_buddy_new takes from c
  Sizes,       \* sizes requested
  MaxFree,     \* MAX_FREE_UNTIL_GC
  Wrap,        \* counters are modulo Wrap
  MaxCalls     \* bound: calls

ASSUME CacheAssumption ==
  /\ Header \in 1 .. Cap-1
  /\ Permanent \in [Cpus -> Seq(1 .. Levels-1)]
  /\ Sizes \subseteq 1 .. Cap
  /\ MaxFree \in Nat /\ MaxCalls \in Nat
  /\ Wrap \in Nat /\ Wrap > Cap

Block == [own : Cpus, lev : 1 .. Levels-1, off : 0 .. Cap-1]
Piece == [own : Cpus, off : 0 .. Cap-1, size : Sizes]
ASSUME NoneAssumption == None \notin Block /\ None \notin Piece
Change == [to : Cpus, by : -Cap .. Cap, seen : 0 .. Wrap-1, then : {"idle", "gc", "pop"}]

VARIABLES
  region,   \* region[c]: the buddy allocator of c
  lists,    \* lists[c]: the blocks in the cache of c
  counter,  \* counter[c]: its field free
  pieces,   \* what the program owns
  pc, want, old, got,   \* of the call on c: where it is, new_size, ptr, new_ptr
  hand,     \* hand[c]: the block c has popped to collect it
  change,   \* change[c]: the counter c is changing, and by how much
  calls     \* calls so far

vars == <<region, lists, counter, pieces, pc, want, old, got, hand, change, calls>>
call == <<want, old, got>>

TypeOK ==
  /\ region \in [Cpus -> [free : SUBSET ((1 .. Levels-1) \X (0 .. Cap-1)), bits : SUBSET (0 .. Pow2[Levels-1] - 2)]]
  /\ lists \in [Cpus -> SUBSET Block]
  /\ counter \in [Cpus -> 0 .. Wrap-1]
  /\ pieces \subseteq Piece
  /\ pc \in [Cpus -> {"idle", "check", "gc", "collect", "take", "pop", "release", "load", "store", "crashed"}]
  /\ want \in [Cpus -> Sizes \cup {0}]
  /\ old \in [Cpus -> pieces \cup {None}] /\ got \in [Cpus -> pieces \cup {None}]
  /\ hand \in [Cpus -> Block \cup {None}]
  /\ change \in [Cpus -> Change \cup {None}]
  /\ calls \in 0 .. MaxCalls

\* A region when tc_buddy_new has taken n of its blocks from it, and all of them.
AllocAny(r, level) == AllocBlock(r, CHOOSE off \in Places(r, level) : TRUE, level)
Made(c) ==
  LET made[n \in 0 .. Len(Permanent[c])] ==
        IF n = 0 THEN Create(Header) ELSE AllocAny(made[n - 1], Permanent[c][n])
  IN  made
NewRegion == [c \in Cpus |-> Made(c)[Len(Permanent[c])]]

\* A region has room for them: tc_buddy_new uses them without a look.
ASSUME RoomAssumption ==
  \A c \in Cpus : \A n \in 1 .. Len(Permanent[c]) : Places(Made(c)[n - 1], Permanent[c][n]) # {}

Init ==
  /\ region = NewRegion
  /\ lists = [c \in Cpus |-> {}]
  /\ counter = [c \in Cpus |-> 0]
  /\ pieces = {}
  /\ pc = [c \in Cpus |-> "idle"]
  /\ want = [c \in Cpus |-> 0]
  /\ old = [c \in Cpus |-> None] /\ got = [c \in Cpus |-> None]
  /\ hand = [c \in Cpus |-> None]
  /\ change = [c \in Cpus |-> None]
  /\ calls = 0

-----------------------------------------------------------------------------
Goto(c, label) == pc' = [pc EXCEPT ![c] = label]

\* Add by to the counter of cpu, then go on at label.
Count(c, cpu, by, label) ==
  /\ change' = [change EXCEPT ![c] = [to |-> cpu, by |-> by, seen |-> 0, then |-> label]]
  /\ Goto(c, "load")

\* A call passes a piece no other call is busy with.
Passed(c, p) ==
  /\ pc[c] = "idle" /\ calls < MaxCalls
  /\ calls' = calls + 1
  /\ p \in pieces \cup {None}
  /\ p # None => \A d \in Cpus : p \notin {old[d], got[d]}

Malloc(c) ==
  /\ Passed(c, None)
  /\ \E n \in Sizes : want' = [want EXCEPT ![c] = n]
  /\ Goto(c, "check")
  /\ UNCHANGED <<region, lists, counter, pieces, old, got, hand, change>>

CacheFree(c) ==
  /\ \E p \in pieces : Passed(c, p) /\ old' = [old EXCEPT ![c] = p]
  /\ Goto(c, "release")
  /\ UNCHANGED <<region, lists, counter, pieces, want, got, hand, change>>

\* Sizes of one level: the block stays what it is.
Realloc_Same(c) ==
  /\ \E p \in pieces, n \in Sizes :
       /\ Passed(c, p) /\ LevelOf(p.size) = LevelOf(n)
       /\ pieces' = (pieces \ {p}) \cup {[p EXCEPT !.size = n]}
  /\ UNCHANGED <<region, lists, counter, pc, want, old, got, hand, change>>

Realloc_Move(c) ==
  /\ \E p \in pieces, n \in Sizes :
       /\ Passed(c, p) /\ LevelOf(p.size) # LevelOf(n)
       /\ old' = [old EXCEPT ![c] = p] /\ want' = [want EXCEPT ![c] = n]
  /\ Goto(c, "check")
  /\ UNCHANGED <<region, lists, counter, pieces, got, hand, change>>

-----------------------------------------------------------------------------
(* cache_malloc and cache_gc *)
Check(c) ==
  /\ pc[c] = "check"
  /\ Goto(c, IF counter[c] > MaxFree THEN "gc" ELSE "take")
  /\ UNCHANGED <<region, lists, counter, pieces, call, hand, change, calls>>

Gc_Pop(c) ==
  /\ pc[c] = "gc"
  /\ \E b \in lists[c] :
       /\ \A x \in lists[c] : b.lev <= x.lev
       /\ lists' = [lists EXCEPT ![c] = @ \ {b}]
       /\ hand' = [hand EXCEPT ![c] = b]
  /\ Goto(c, "collect")
  /\ UNCHANGED <<region, counter, pieces, call, change, calls>>

\* The block goes to the region it lies in, and that region's counter goes down.
Gc_Collect(c) ==
  /\ pc[c] = "collect"
  /\ LET b == hand[c]
     IN  /\ region' = [region EXCEPT ![b.own] = FreeBlock(@, b.off, b.lev)]
         /\ Count(c, b.own, -SizeAt(b.lev), "gc")
  /\ hand' = [hand EXCEPT ![c] = None]
  /\ UNCHANGED <<lists, counter, pieces, call, calls>>

Gc_Done(c) ==
  /\ pc[c] = "gc" /\ lists[c] = {}
  /\ Goto(c, "take")
  /\ UNCHANGED <<region, lists, counter, pieces, call, hand, change, calls>>

Load(c) ==
  /\ pc[c] = "load"
  /\ change' = [change EXCEPT ![c].seen = counter[change[c].to]]
  /\ Goto(c, "store")
  /\ UNCHANGED <<region, lists, counter, pieces, call, hand, calls>>

Store_NoWrap(c) ==   \* mutant: a counter that is not a size_t
  /\ pc[c] = "store"
  /\ counter' = [counter EXCEPT ![change[c].to] = change[c].seen + change[c].by]
  /\ Goto(c, change[c].then)
  /\ got' = IF change[c].then = "idle" THEN [got EXCEPT ![c] = None] ELSE got
  /\ change' = [change EXCEPT ![c] = None]
  /\ UNCHANGED <<region, lists, pieces, want, old, hand, calls>>

Store(c) ==
  /\ pc[c] = "store"
  /\ LET x == change[c]
     IN  /\ counter' = [counter EXCEPT ![x.to] = (x.seen + x.by) % Wrap]
         /\ Goto(c, x.then)
         /\ got' = IF x.then = "idle" THEN [got EXCEPT ![c] = None] ELSE got
  /\ change' = [change EXCEPT ![c] = None]
  /\ UNCHANGED <<region, lists, pieces, want, old, hand, calls>>

InLists(c) == {b \in lists[c] : b.lev = LevelOf(want[c])}

\* malloc returns the piece; realloc copies into it and then releases the old one
\* (contents are left out, and with them what a copy to a smaller block overwrites).
Obtain(c, own, off) ==
  LET p == [own |-> own, off |-> off, size |-> want[c]]
  IN  /\ pieces' = pieces \cup {p}
      /\ got' = IF old[c] = None THEN got ELSE [got EXCEPT ![c] = p]
      /\ Goto(c, IF old[c] = None THEN "idle" ELSE "release")

Take_Region(c) ==
  /\ pc[c] = "take" /\ InLists(c) = {}
  /\ \E off \in Places(region[c], LevelOf(want[c])) :
       /\ region' = [region EXCEPT ![c] = AllocBlock(@, off, LevelOf(want[c]))]
       /\ Obtain(c, c, off)
  /\ UNCHANGED <<lists, counter, want, old, hand, change, calls>>

\* No block: malloc returns NULL; realloc copies to it, which ends the program.
Take_Fails(c) ==
  /\ pc[c] = "take" /\ InLists(c) = {} /\ Places(region[c], LevelOf(want[c])) = {}
  /\ pc' = IF old[c] = None THEN [pc EXCEPT ![c] = "idle"] ELSE [d \in Cpus |-> "crashed"]
  /\ UNCHANGED <<region, lists, counter, pieces, call, hand, change, calls>>

Take_Listed(c) ==
  /\ pc[c] = "take" /\ InLists(c) # {}
  /\ Count(c, c, -want[c], "pop")
  /\ UNCHANGED <<region, lists, counter, pieces, call, hand, calls>>

Pop(c) ==
  /\ pc[c] = "pop"
  /\ \E b \in InLists(c) :
       /\ lists' = [lists EXCEPT ![c] = @ \ {b}]
       /\ Obtain(c, b.own, b.off)
  /\ UNCHANGED <<region, counter, want, old, hand, change, calls>>

Release_NewSize(c) ==   \* mutant: new_size for old_size when a piece has moved
  /\ pc[c] = "release"
  /\ LET p == old[c]
         level == LevelOf(IF got[c] = None THEN p.size ELSE want[c])
     IN  /\ lists' = [lists EXCEPT ![c] = @ \cup {[own |-> p.own, lev |-> level, off |-> p.off]}]
         /\ pieces' = pieces \ {p}
         /\ Count(c, c, SizeAt(level), "idle")
  /\ old' = [old EXCEPT ![c] = None]
  /\ UNCHANGED <<region, counter, want, got, hand, calls>>

(* cache_release: into the lists of this processor, whatever region it is from. *)
Release(c) ==
  /\ pc[c] = "release"
  /\ LET p == old[c]
         level == LevelOf(p.size)
     IN  /\ lists' = [lists EXCEPT ![c] = @ \cup {[own |-> p.own, lev |-> level, off |-> p.off]}]
         /\ pieces' = pieces \ {p}
         /\ Count(c, c, SizeAt(level), "idle")
  /\ old' = [old EXCEPT ![c] = None]
  /\ UNCHANGED <<region, counter, want, got, hand, calls>>

Call(c) == Malloc(c) \/ CacheFree(c) \/ Realloc_Same(c) \/ Realloc_Move(c)
Collection(c) == Check(c) \/ Gc_Pop(c) \/ Gc_Collect(c) \/ Gc_Done(c)
Taking(c) == Take_Region(c) \/ Take_Fails(c) \/ Take_Listed(c) \/ Pop(c)
Step(c) == Call(c) \/ Collection(c) \/ Taking(c) \/ Load(c) \/ Store(c) \/ Release(c)

Next == \E c \in Cpus : Step(c)
Spec == Init /\ [][Next]_vars

-----------------------------------------------------------------------------
(* Properties *)

\* The bytes of a block <<level, offset>>, whoever has it.
BytesOf(b) == b[2] .. b[2] + SizeAt(b[1]) - 1

\* The bytes of each region the allocator keeps: its header, its own blocks and
\* the buddy Create leaves out.
KeptBytes ==
  [c \in Cpus |-> (0 .. Cap-1) \ UNION {BytesOf(b) : b \in NewRegion[c].free}]
Kept(c) == KeptBytes[c]

\* The blocks of region c and who has each: its free lists, or the lists of a
\* processor, one that collects, or the program.
ListedBlocks(c) == UNION {{<<b.lev, b.off, "listed", d>> : b \in {x \in lists[d] : x.own = c}} : d \in Cpus}
CollectedBlocks(c) ==
  {<<hand[d].lev, hand[d].off, "collected", d>> : d \in {x \in Cpus : hand[x] # None /\ hand[x].own = c}}
LiveBlocks(c) == {<<LevelOf(p.size), p.off, "live", p.size>> : p \in {x \in pieces : x.own = c}}
Used(c) == ListedBlocks(c) \cup CollectedBlocks(c) \cup LiveBlocks(c)
Holdings(c) == {<<b[1], b[2], "free", c>> : b \in region[c].free} \cup Used(c)

\* Every byte of a region that the allocator does not keep lies in exactly one
\* block, which exactly one has.  A block that is handed out, listed or merged
\* twice, with the wrong size or into the wrong region breaks it.
EveryByteOnce ==
  \A c \in Cpus :
    LET H == Holdings(c)
    IN  /\ UNION {BytesOf(h) : h \in H} = (0 .. Cap-1) \ Kept(c)
        /\ \A h, k \in H : h # k => BytesOf(h) \cap BytesOf(k) = {}

\* The bit of a pair of buddies is set exactly while one of them is free, and
\* they are never both free: free_block relies on it when it takes the buddy
\* out of a list it has not looked into.
MergeBits ==
  \A c \in Cpus, l \in 1 .. Levels-1 : \A i \in 0 .. Pow2[l-1] - 1 :
    LET left == <<l, 2 * i * SizeAt(l)>>
        right == <<l, (2 * i + 1) * SizeAt(l)>>
    IN  /\ ~(left \in region[c].free /\ right \in region[c].free)
        /\ BlockIndex(left[2], l-1) \in region[c].bits <=> (left \in region[c].free \/ right \in region[c].free)

\* When nothing of a region is in use, listed or being collected, it has
\* merged back to what it was: no sequence of splits leaves it in pieces.
WholeAgain ==
  \A c \in Cpus :
    (/\ \A p \in pieces : p.own # c
     /\ \A d \in Cpus : /\ \A b \in lists[d] : b.own # c
                        /\ hand[d] # None => hand[d].own # c)
    => region[c] = NewRegion[c]

\* What a call has in its hands, by where it is.
Before == {"check", "gc", "collect", "take", "pop"}
CallOf(c) ==
  /\ pc[c] \in Before => want[c] \in Sizes /\ got[c] = None
  /\ hand[c] # None => pc[c] \in {"collect", "crashed"}
  /\ pc[c] = "collect" => hand[c] # None
  /\ pc[c] = "idle" => old[c] = None /\ got[c] = None
  /\ pc[c] = "release" => old[c] # None
  /\ pc[c] \in {"load", "store"} =>
       /\ change[c] \in Change
       /\ change[c].then = "idle" => old[c] = None
       /\ change[c].then # "idle" => want[c] \in Sizes /\ got[c] = None
\* No piece is in two calls, or twice in one.
PiecesOf(c) == {old[c], got[c]} \ {None}
CallInv ==
  \A c \in Cpus :
    /\ CallOf(c)
    /\ old[c] # None => old[c] # got[c]
    /\ \A d \in Cpus \ {c} : PiecesOf(c) \cap PiecesOf(d) = {}

\* Every byte is in one block that one has, the bits of the pairs are right, what
\* is given back merges again, and no two calls are busy with one piece.
HeapIsSound == TypeOK /\ EveryByteOnce /\ MergeBits /\ WholeAgain /\ CallInv

\* Pieces in use never overlap each other or what the allocator keeps; a piece
\* that moves is given up only when the new one is there.
Abs == INSTANCE AbstractHeap WITH Regions <- Cpus, live <- pieces
RefinesAbstractHeap == Abs!Spec

\* The comment in line 164 calls the counter the total size of the blocks in
\* the lists; between calls it should be that.
CounterIsSizeOfLists ==
  \A c \in Cpus :
    (\A d \in Cpus : pc[d] = "idle")
      => counter[c] = MapThenSumSet(LAMBDA b : SizeAt(b.lev), lists[c])
=============================================================================
