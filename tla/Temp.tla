-------------------------------- MODULE Temp --------------------------------
(* The temporary allocator: a buffer in the structure, then nodes from the    *)
(* parent, each used from its start.  Pieces are never given back by one.     *)
EXTENDS Naturals, FiniteSets, Sequences

CONSTANTS
  PieceSizes,   \* sizes that are asked for
  Buffer,       \* bytes of the buffer
  BufferHeader, \* bytes of its header, sizeof(temp_internal_t)
  NodeHeader,   \* bytes of the header of a node, sizeof(temp_node_t)
  Chunk,        \* CHUNK_SIZE, the largest node
  MaxPower,     \* bound: the largest node that is asked for, as a power of 2
  MaxAllocs     \* bound: allocations

\* The powers of 2 are numbers, one of them is the size of a chunk, and none of
\* the requests is larger than the largest.
ASSUME TempAssumption ==
  /\ {Buffer, BufferHeader, NodeHeader, Chunk, MaxPower} \subseteq Nat /\ PieceSizes \subseteq Nat \ {0}
  /\ {2 ^ k : k \in 0 .. MaxPower} \subseteq Nat /\ Chunk \in {2 ^ k : k \in 0 .. MaxPower}
  /\ \A size \in PieceSizes : \E k \in 0 .. MaxPower : size + NodeHeader <= 2 ^ k

VARIABLES
  nodes,  \* a->next and what follows it: the sizes of the nodes, newest last
  filled, \* used: bytes used of the newest node, or of the buffer
  cap,
  place,  \* end: where the next piece goes in it
  taken   \* what was given out: [node, from, to, bytes, small], node 0 the buffer

tempVars == <<nodes, filled, cap, place, taken>>
-----------------------------------------------------------------------------
TempInit ==
  /\ nodes = <<>> /\ filled = BufferHeader /\ cap = Buffer /\ place = BufferHeader
  /\ taken = {}

NextPowerOf2(n) ==
  LET enough == {p \in {2 ^ k : k \in 0 .. MaxPower} : p >= n}
  IN  CHOOSE p \in enough : \A q \in enough : p <= q

Lesser(a, b) == IF a <= b THEN a ELSE b

\* mutant: the header of the node is not asked for.
NodeSizeBare(size) == Lesser(Chunk, NextPowerOf2(size))

NodeSize(size) == Lesser(Chunk, NextPowerOf2(size + NodeHeader))

GiveOut(node, at, size, bytes) ==
  /\ taken' = taken \cup {[node |-> node, from |-> at, to |-> at + size,
                           bytes |-> bytes, small |-> size + NodeHeader <= Chunk]}
  /\ place' = at + size

\* temp_realloc to a larger size; what was there before is not copied.
AllocHere(size) ==
  /\ Cardinality(taken) < MaxAllocs /\ filled + size <= cap
  /\ filled' = filled + size
  /\ GiveOut(Len(nodes), place, size, cap)
  /\ UNCHANGED <<nodes, cap>>

\* A request above CHUNK_SIZE gets a node that does not hold it.
AllocNode(size) ==
  /\ Cardinality(taken) < MaxAllocs /\ filled + size > cap
  /\ nodes' = Append(nodes, NodeSize(size))
  /\ filled' = NodeHeader + size /\ cap' = NodeSize(size)
  /\ GiveOut(Len(nodes'), NodeHeader, size, NodeSize(size))

TempNext ==
  \/ \E n \in PieceSizes : AllocHere(n)
  \/ \E n \in PieceSizes : AllocNode(n)
TempSpec == TempInit /\ [][TempNext]_tempVars
-----------------------------------------------------------------------------
(* Properties.                                                               *)

HeaderOf(node) == IF node = 0 THEN BufferHeader ELSE NodeHeader

\* temp_realloc: pieces lie in their node, behind its header, and apart from
\* each other, over any sequence of sizes that a node can hold.
PiecesFit ==
  \A p \in taken : p.small =>
    /\ p.from >= HeaderOf(p.node) /\ p.to <= p.bytes
    /\ \A q \in taken : (q # p /\ q.node = p.node) => q.to <= p.from \/ p.to <= q.from
=============================================================================
