---------------------------- MODULE AbstractHeap ----------------------------
(***************************************************************************)
(* What the allocator of src/src/datastructures/buddy.c promises.  The     *)
(* memory its users own is a set of pieces of the regions that never       *)
(* overlap and never touch what the allocator keeps for itself.  A piece   *)
(* that changes its size stays in place, or its content moves to a new     *)
(* piece, taken while the old one is still owned.                          *)
(***************************************************************************)
EXTENDS Naturals

CONSTANTS
  Regions, Sizes, Cap,
  Kept(_)   \* Kept(r): the bytes of region r the allocator keeps

VARIABLE live   \* pieces in use: region, first byte, number of bytes

Piece == [own : Regions, off : 0 .. Cap-1, size : Sizes]

Bytes(p) == p.off .. p.off + p.size - 1
Fits(p, others) ==
  /\ Bytes(p) \subseteq 0 .. Cap-1
  /\ Bytes(p) \cap Kept(p.own) = {}
  /\ \A q \in others : q.own = p.own => Bytes(p) \cap Bytes(q) = {}

Alloc ==
  \E p \in Piece : p \notin live /\ live' = live \cup {p} /\ Fits(p, live)
Free ==
  \E p \in live : live' = live \ {p}
Resize ==
  \E p \in live, n \in Sizes :
    LET q == [p EXCEPT !.size = n]
    IN  live' = (live \ {p}) \cup {q} /\ Fits(q, live \ {p})

Next == Alloc \/ Free \/ Resize
Init == live = {}
Spec == Init /\ [][Next]_live
=============================================================================
