-------------------------------- MODULE Arena --------------------------------
(* The arena: slabs of one size, taken from a lock-free list of freed ones    *)
(* (LfLifo, which implements AbstractStack) or from the part of the arena     *)
(* that was never used, by any number of threads.                             *)
EXTENDS Naturals, FiniteSets, Sequences, SequencesExt

CONSTANTS
  ArenaThreads,
  ArenaCap,     \* bytes of the arena; need not be a multiple of the slab size
  SlabSize,
  MaxArenaCalls \* bound: calls of arena_alloc

ASSUME ArenaAssumption == ArenaCap \in Nat /\ SlabSize \in Nat \ {0}

VARIABLES
  freed,     \* the list of freed slabs
  reached,   \* used: bytes handed out; goes on growing when the arena is full
  arenapc,   \* "idle" or "add": the list was empty
  has,       \* thread: slabs it holds
  arenaCalls \* calls so far

arenaVars == <<freed, reached, arenapc, has, arenaCalls>>
-----------------------------------------------------------------------------
ArenaInit ==
  /\ freed = <<>> /\ reached = 0
  /\ arenapc = [t \in ArenaThreads |-> "idle"] /\ has = [t \in ArenaThreads |-> {}]
  /\ arenaCalls = 0

\* arena_alloc: the pop; slabs are named by their offsets.
ArenaPop(t) ==
  /\ arenapc[t] = "idle" /\ arenaCalls < MaxArenaCalls
  /\ arenaCalls' = arenaCalls + 1
  /\ IF freed # <<>>
     THEN freed' = Tail(freed) /\ has' = [has EXCEPT ![t] = @ \cup {Head(freed)}] /\ UNCHANGED arenapc
     ELSE arenapc' = [arenapc EXCEPT ![t] = "add"] /\ UNCHANGED <<freed, has>>
  /\ UNCHANGED reached

\* mutant: the end of the slab is not looked at.
FitsStart(from) == from <= ArenaCap

Fits(from) == from + SlabSize <= ArenaCap

\* The fetch-and-add; a caller that does not fit gets NULL.
ArenaAdd(t) ==
  /\ arenapc[t] = "add"
  /\ reached' = reached + SlabSize
  /\ has' = IF Fits(reached) THEN [has EXCEPT ![t] = @ \cup {reached}] ELSE has
  /\ arenapc' = [arenapc EXCEPT ![t] = "idle"]
  /\ UNCHANGED <<freed, arenaCalls>>

\* A slab is freed by whoever has it.
ArenaFree(t, slab) ==
  /\ arenapc[t] = "idle" /\ slab \in has[t]
  /\ freed' = <<slab>> \o freed
  /\ has' = [has EXCEPT ![t] = @ \ {slab}]
  /\ UNCHANGED <<reached, arenapc, arenaCalls>>

ArenaNext ==
  \/ \E t \in ArenaThreads : ArenaPop(t)
  \/ \E t \in ArenaThreads : ArenaAdd(t)
  \/ \E t \in ArenaThreads : \E slab \in has[t] : ArenaFree(t, slab)
ArenaSpec == ArenaInit /\ [][ArenaNext]_arenaVars
-----------------------------------------------------------------------------
\* arena_alloc: the arena is split over the list, the threads and its unused
\* end, and a failed call, which moves the end past the capacity, loses nothing.
EverySlabOnce ==
  LET out == ToSet(freed) \cup UNION {has[t] : t \in ArenaThreads}
      whole == ArenaCap \div SlabSize
      handed == IF reached \div SlabSize < whole THEN reached \div SlabSize ELSE whole
  IN  /\ Len(freed) = Cardinality(ToSet(freed))
      /\ \A t, u \in ArenaThreads : t # u => has[t] \cap has[u] = {}
      /\ \A t \in ArenaThreads : has[t] \cap ToSet(freed) = {}
      /\ out = {k * SlabSize : k \in 0 .. handed - 1}
=============================================================================
