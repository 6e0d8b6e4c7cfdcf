------------------------------ MODULE Resources ------------------------------
(* The resource table: ids of an index and a generation over a free list.     *)
(* The generation of an id is narrower than the counter it is taken from.     *)
EXTENDS Naturals, FiniteSets

CONSTANTS
  Elements, \* objects of a chunk
  Width,    \* 2^22: generations an id can hold
  MaxGen    \* bound: generations of an index

ResourcesAssumption == Elements \in Nat \ {0} /\ Width \in Nat \ {0} /\ MaxGen \in Nat

VARIABLES
  entries, \* generation of each index
  list,    \* free_list: the indices not in use are those at used and after it
  used,
  live,    \* ids in the hands of callers
  stale,   \* ids that were freed
  grown    \* a second chunk was asked for: what follows is not defined

tableVars == <<entries, list, used, live, stale, grown>>
-----------------------------------------------------------------------------
TableInit ==
  /\ entries = <<>> /\ list = <<>> /\ used = 0
  /\ live = {} /\ stale = {} /\ grown = FALSE

ResCap == IF entries = <<>> THEN 0 ELSE Elements
Indices == 0 .. Elements - 1

IdOf(index, gens) == [index |-> index, gen |-> gens[index] % Width]

\* res_alloc makes the first chunk when it is needed.
ResAlloc ==
  /\ ~grown
  /\ used # ResCap \/ entries = <<>>
  /\ LET first == entries = <<>>
         gens == IF first THEN [i \in Indices |-> 1] ELSE entries
         places == IF first THEN [i \in Indices |-> used + i] ELSE list
     IN  /\ entries' = gens /\ list' = places
         /\ used' = used + 1
         /\ live' = live \cup {IdOf(places[used], gens)}
  /\ UNCHANGED <<stale, grown>>

\* For a second chunk the free list is reallocated from res->free, a function.
ResGrow ==
  /\ ~grown /\ used = ResCap /\ entries # <<>>
  /\ grown' = TRUE
  /\ UNCHANGED <<entries, list, used, live, stale>>

\* res_get: the slot of an id, or none.
ResGet(id) == IF id.index < ResCap /\ entries[id.index] = id.gen THEN {id.index} ELSE {}

\* mutant: the generation stays.
FreedKept(index) == entries

Freed(index) == [entries EXCEPT ![index] = @ + 1]

\* mutant: the index is put back beside its place.
ListedBeside(index) == [list EXCEPT ![used % Elements] = index]

Listed(index) == [list EXCEPT ![used - 1] = index]

\* res_free, of an id that is in use.  It looks at the index alone: that no
\* id is freed twice is the caller's to see to.  An id freed again would give
\* an index out twice.
ResFree(id) ==
  /\ ~grown /\ id \in live /\ entries[id.index] < MaxGen
  /\ entries' = Freed(id.index)
  /\ list' = Listed(id.index)
  /\ used' = used - 1
  /\ live' = live \ {id} /\ stale' = stale \cup {id}
  /\ UNCHANGED grown

TableNext ==
  \/ ResAlloc
  \/ ResGrow
  \/ \E id \in live : ResFree(id)
TableSpec == TableInit /\ [][TableNext]_tableVars
-----------------------------------------------------------------------------
(* Properties.                                                               *)

\* res_get and res_free: an id that was freed finds nothing, however often its
\* index was used again since, also once the counter of the index has outgrown
\* the 22 bits of an id.
StaleIsRefused == \A id \in stale \ live : ResGet(id) = {}

\* res_alloc: while the counter fits the id, an id in use finds its slot, and
\* no two of them the same: there are as many as are counted.
LiveIsFound ==
  /\ \A id \in live : entries[id.index] < Width => ResGet(id) = {id.index}
  /\ \A a, b \in live : a.index = b.index => a = b
  /\ Cardinality(live) = used

\* Both: an id leads to the object it was given for, or to nothing.
IdsLeadToTheirs == StaleIsRefused /\ LiveIsFound
=============================================================================
