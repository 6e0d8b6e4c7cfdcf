------------------------------ MODULE Registry ------------------------------
(* The table of modules: open addressing with the name beside its hash.  The  *)
(* hash has 64 bits, what is compared is the stored one cut to 32, and what   *)
(* is returned is the address of a local variable, so only the names and the  *)
(* hashes of the table ever change.                                           *)
EXTENDS Naturals, FiniteSets

CONSTANTS
  Names,
  Hash(_),    \* hash of a name, as [high, low] halves
  MaxModules, \* MAX_MODULES
  MaxLookups, \* bound: calls
  NoName

ASSUME RegistryAssumption ==
  /\ MaxModules \in Nat \ {0} /\ NoName \notin Names
  /\ \A name \in Names : Hash(name) \in [high : Nat, low : Nat]

VARIABLES
  hashes, \* slot -> stored hash, [high |-> 0, low |-> 0] where there is none
  names,  \* slot -> name, or NoName
  lookups, asked, \* calls so far, and their names
  failed  \* an assertion failed

registryVars == <<hashes, names, lookups, asked, failed>>
-----------------------------------------------------------------------------
NoHash == [high |-> 0, low |-> 0]
ModuleSlots == 0 .. MaxModules - 1

RegistryInit ==
  /\ hashes = [s \in ModuleSlots |-> NoHash] /\ names = [s \in ModuleSlots |-> NoName]
  /\ lookups = 0 /\ asked = {} /\ failed = "no"

\* mutant: the step of the search grows, which misses slots.
ProbeFromNext(name, i) == (Hash(name).low + i * (i + 1)) % MaxModules

\* The slot of the i-th turn.
Probe(name, i) == (Hash(name).low + i) % MaxModules

\* mutant: the hash alone is compared.
MatchHash(name, s) == Hash(name).high = 0 /\ hashes[s].low = Hash(name).low

\* h == hash compares 32 bits with 64; then the names are compared.
Match(name, s) == Hash(name).high = 0 /\ hashes[s].low = Hash(name).low /\ names[s] = name

\* The turns that do not go on: a match, or a slot whose stored hash ends in
\* 32 zero bits.
Stops(name) ==
  {i \in ModuleSlots : LET s == Probe(name, i) IN
     \/ Match(name, s)
     \/ hashes[s].low = 0 /\ ~(Hash(name).high = 0 /\ Hash(name).low = 0)}

\* _get_module, from each of set, get, remove, add_ and remove_implementation.
GetModule(name) ==
  /\ lookups < MaxLookups /\ failed = "no"
  /\ lookups' = lookups + 1 /\ asked' = asked \cup {name}
  /\ IF Stops(name) = {}
     THEN failed' = "no room" /\ UNCHANGED <<hashes, names>>
     ELSE LET i == CHOOSE i \in Stops(name) : \A j \in Stops(name) : i <= j
              s == Probe(name, i)
          IN  IF Match(name, s) THEN UNCHANGED <<hashes, names, failed>>
              ELSE IF names[s] # NoName
              THEN failed' = "not empty" /\ UNCHANGED <<hashes, names>>
              ELSE /\ hashes' = [hashes EXCEPT ![s] = Hash(name)]
                   /\ names' = [names EXCEPT ![s] = name]
                   /\ UNCHANGED failed

RegistryNext == \E name \in Names : GetModule(name)
RegistrySpec == RegistryInit /\ [][RegistryNext]_registryVars
-----------------------------------------------------------------------------
(* Properties.                                                               *)

SlotsOf(name) == {s \in ModuleSlots : names[s] = name}

\* _get_module: a name whose hash fits 32 bits is found again, whatever other
\* names collide with it or fill the table: it has one slot from its first
\* call on, which is lost only when an assertion stops the program.
SmallHashHasOneSlot ==
  \A name \in asked : Hash(name).high = 0 =>
    \/ Cardinality(SlotsOf(name)) = 1
    \/ failed # "no" /\ SlotsOf(name) = {}

\* "No more room for modules": the assertion fails only when every slot is
\* taken, but for a name whose hash is 0, which cannot be stored.
NoRoomMeansFull ==
  failed = "no room" =>
    (\A s \in ModuleSlots : names[s] # NoName) \/ \E name \in asked : Hash(name) = NoHash

\* The two together.
ModulesHaveOneSlot == SmallHashHasOneSlot /\ NoRoomMeansFull
=============================================================================
