------------------------------ MODULE MCStores ------------------------------
(* Where the engine keeps things.  Each behaviour is about one of the stores:  *)
(* kind says which.  The heap is the per-thread cache with two processors, of  *)
(* whose regions the first also holds the tables.  The modules are extended as *)
(* they stand but for Paths, an instance whose variables are v1 .. v4.         *)
EXTENDS BuddyCache, Slab, Temp, Arena, Resources, Registry, MemStream, TLC

CONSTANTS c1, c2

VARIABLES kind, v1, v2, v3, v4

other == <<v1, v2, v3, v4>>
all == <<kind, vars, slabVars, tempVars, arenaVars, tableVars, registryVars, streamVars, other>>

MCPermanent == (c1 :> <<3, 3, 3>>) @@ (c2 :> <<3>>)
Strings(length, letters) == UNION {[1 .. n -> letters] : n \in 0 .. length}

\* Of one module the high half of the hash is not 0, two hashes are the same,
\* and one is 0.
ModuleHash(name) ==
  [high |-> IF name = "window" THEN 1 ELSE 0,
   low |-> CASE name = "memory" -> 7 [] name = "window" -> 2 [] name = "none" -> 0 [] OTHER -> 3]

Paths_ == INSTANCE Paths WITH
  Sep <- "|", Bases <- {<<>>, <<"a">>, <<"a", "|", "b">>},
  Components <- Strings(5, {"/", "|", ".", "c"}) \cup [1 .. 6 -> {"/", ".", "c"}] \cup [1 .. 7 -> {"/", "."}],
  base <- v1, component <- v2, joined <- v3, parts <- v4

ASSUME StoreAssumptions == SlabAssumption /\ ResourcesAssumption

StoresInit ==
  /\ Init /\ SlabInit /\ TempInit /\ ArenaInit /\ TableInit /\ RegistryInit /\ StreamInit
  /\ \/ /\ kind \in {"heap", "slab", "temp", "arena", "table", "modules", "stream"}
        /\ v1 = None /\ v2 = None /\ v3 = None /\ v4 = None
     \/ kind = "paths" /\ Paths_!Init

StoresNext ==
  /\ UNCHANGED kind
  /\ IF kind = "heap" THEN Next ELSE UNCHANGED vars
  /\ IF kind = "slab" THEN SlabNext ELSE UNCHANGED slabVars
  /\ IF kind = "temp" THEN TempNext ELSE UNCHANGED tempVars
  /\ IF kind = "arena" THEN ArenaNext ELSE UNCHANGED arenaVars
  /\ IF kind = "table" THEN TableNext ELSE UNCHANGED tableVars
  /\ IF kind = "modules" THEN RegistryNext ELSE UNCHANGED registryVars
  /\ IF kind = "stream" THEN StreamNext ELSE UNCHANGED streamVars
  /\ IF kind = "paths" THEN Paths_!Next ELSE UNCHANGED other

StoresSpec == StoresInit /\ [][StoresNext]_all
\* The heap alone, for the counter of its caches.
HeapSpec == StoresInit /\ kind = "heap" /\ [][StoresNext]_all
-----------------------------------------------------------------------------
(* The properties of the extended modules hold of all behaviours as they      *)
(* stand, as a module is at rest in the behaviours of the others.              *)

\* Paths: joining ends where going step by step would, and the parts of a path
\* make the path.
PathsResolve == kind = "paths" => Paths_!JoinResolves /\ Paths_!PartsMakePath
=============================================================================
