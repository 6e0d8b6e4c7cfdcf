------------------------------ MODULE Channel -------------------------------
(***************************************************************************)
(* Channels (src/src/fiber.c, 641-813): a ring of cap entries guarded by a *)
(* spin lock, and a list of waiting fibers on each side.  A blocked fiber  *)
(* enters its list with the lock held and switches to the scheduler, which *)
(* releases the lock once the context of the fiber is saved                *)
(* (tc_fiber_yield(lk), tc_fiber_resume).  Whoever makes room or adds an   *)
(* entry moves the first waiting fiber of the other side to the ready      *)
(* list; that fiber starts over, and may find that others were faster.     *)
(*                                                                         *)
(* The ring, the lists and closed are only touched with the lock held, so  *)
(* a critical section is one action.  A fiber on the ready list is resumed *)
(* in any order, by any worker.  Each put stores the name of its fiber.    *)
(***************************************************************************)
EXTENDS Naturals, Sequences, FiniteSets

CONSTANTS
  Getters,   \* callers of tc_chan_get and tc_chan_try_get
  Putters,   \* callers of tc_chan_put and tc_chan_try_put
  Closers,   \* callers of tc_chan_close
  Blocking,  \* the callers of tc_chan_get and tc_chan_put
  Nothing,   \* an empty ring entry, a get that fails, a lock that is free
  Cap,       \* num_slots of tc_chan_new
  MaxCalls   \* bound: calls per fiber

Fibers == Getters \cup Putters \cup Closers

ASSUME CapAssumption == Cap \in Nat \ {0} /\ MaxCalls \in Nat
ASSUME FiberAssumption ==
  /\ Getters \cap Putters = {} /\ Closers \cap (Getters \cup Putters) = {}
  /\ Blocking \subseteq Getters \cup Putters
  /\ Nothing \notin Fibers
  /\ IsFiniteSet(Fibers)   \* a pool of fibers (fiber_allocator)

VARIABLES
  ring, head, tail,      \* slots, c->head, c->tail
  producers, consumers,  \* the wait lists
  closed,
  lock,   \* who holds c->lock
  pc,     \* idle, enter: spinning, inside: in the critical section,
          \* parking: between slist_add_tail and the saved context, parked
  ready,  \* fibers on the scheduler's ready list
  got,    \* got[g]: what the last get of g returned
  calls   \* calls[f]: calls of f so far

vars == <<ring, head, tail, producers, consumers, closed, lock, pc, ready, got, calls>>

TypeOK ==
  /\ ring \in [0 .. Cap-1 -> Putters \cup {Nothing}]
  /\ head \in 0 .. Cap-1 /\ tail \in 0 .. Cap-1
  /\ producers \in Seq(Putters) /\ consumers \in Seq(Getters)
  /\ closed \in BOOLEAN
  /\ lock \in Fibers \cup {Nothing}
  /\ pc \in [Fibers -> {"idle", "enter", "inside", "parking", "parked"}]
  /\ ready \subseteq Getters \cup Putters
  /\ got \in [Getters -> Putters \cup {Nothing}]
  /\ calls \in [Fibers -> 0 .. MaxCalls]

Init ==
  /\ ring = [i \in 0 .. Cap-1 |-> Nothing] /\ head = 0 /\ tail = 0
  /\ producers = <<>> /\ consumers = <<>>
  /\ closed = FALSE
  /\ lock = Nothing
  /\ pc = [f \in Fibers |-> "idle"]
  /\ ready = {}
  /\ got = [g \in Getters |-> Nothing]
  /\ calls = [f \in Fibers |-> 0]

-----------------------------------------------------------------------------
Full == tail = (head + 1) % Cap
Empty == tail = head

\* queue_notify_one, queue_notify_all
First(list) == IF list = <<>> THEN {} ELSE {Head(list)}
Rest_Peek(list) == list   \* mutant: the fiber stays in the list
Rest(list) == IF list = <<>> THEN <<>> ELSE Tail(list)
Members(list) == {list[i] : i \in DOMAIN list}

Call(f) ==
  /\ pc[f] = "idle" /\ calls[f] < MaxCalls
  /\ pc' = [pc EXCEPT ![f] = "enter"]
  /\ calls' = [calls EXCEPT ![f] = @ + 1]
  /\ UNCHANGED <<ring, head, tail, producers, consumers, closed, lock, ready, got>>

\* TC_LOCK
Lock(f) ==
  /\ pc[f] = "enter" /\ lock = Nothing
  /\ lock' = f
  /\ pc' = [pc EXCEPT ![f] = "inside"]
  /\ UNCHANGED <<ring, head, tail, producers, consumers, closed, ready, got, calls>>

\* TC_UNLOCK and return
Leave(f) ==
  /\ pc[f] = "inside"
  /\ lock' = Nothing
  /\ pc' = [pc EXCEPT ![f] = "idle"]
  /\ UNCHANGED calls

FindClosed(f) ==
  /\ closed /\ Leave(f)
  /\ got' = IF f \in Getters THEN [got EXCEPT ![f] = Nothing] ELSE got
  /\ UNCHANGED <<ring, head, tail, producers, consumers, closed, ready>>

\* Mutant: room is made but no producer is told.
Get_NoNotify(g) ==
  /\ ~closed /\ ~Empty /\ Leave(g)
  /\ got' = [got EXCEPT ![g] = ring[tail]]
  /\ tail' = (tail + 1) % Cap
  /\ UNCHANGED <<ring, head, producers, consumers, closed, ready>>
Get(g) ==
  /\ ~closed /\ ~Empty /\ Leave(g)
  /\ got' = [got EXCEPT ![g] = ring[tail]]
  /\ tail' = (tail + 1) % Cap
  /\ ready' = ready \cup First(producers)
  /\ producers' = Rest(producers)
  /\ UNCHANGED <<ring, head, consumers, closed>>

\* Mutant: the index runs past the ring.
Put_NoWrap(p) ==
  /\ ~closed /\ ~Full /\ Leave(p)
  /\ ring' = [ring EXCEPT ![head] = p]
  /\ head' = head + 1
  /\ ready' = ready \cup First(consumers)
  /\ consumers' = Rest(consumers)
  /\ UNCHANGED <<tail, producers, closed, got>>
\* Mutant: only a put into an empty channel notifies, as the first entry has
\* woken somebody already.
Put_FirstNotifies(p) ==
  /\ ~closed /\ ~Full /\ Leave(p)
  /\ ring' = [ring EXCEPT ![head] = p]
  /\ head' = (head + 1) % Cap
  /\ ready' = IF Empty THEN ready \cup First(consumers) ELSE ready
  /\ consumers' = IF Empty THEN Rest(consumers) ELSE consumers
  /\ UNCHANGED <<tail, producers, closed, got>>
Put(p) ==
  /\ ~closed /\ ~Full /\ Leave(p)
  /\ ring' = [ring EXCEPT ![head] = p]
  /\ head' = (head + 1) % Cap
  /\ ready' = ready \cup First(consumers)
  /\ consumers' = Rest(consumers)
  /\ UNCHANGED <<tail, producers, closed, got>>

\* tc_chan_try_get on an empty channel, tc_chan_try_put on a full one
Refuse(f) ==
  /\ ~closed /\ f \notin Blocking /\ Leave(f)
  /\ \/ f \in Getters /\ Empty /\ got' = [got EXCEPT ![f] = Nothing]
     \/ f \in Putters /\ Full /\ UNCHANGED got
  /\ UNCHANGED <<ring, head, tail, producers, consumers, closed, ready>>

\* slist_add_tail, then into the scheduler with the lock held
Wait(f) ==
  /\ pc[f] = "inside" /\ ~closed /\ f \in Blocking
  /\ \/ /\ f \in Getters /\ Empty
        /\ consumers' = Append(consumers, f) /\ UNCHANGED producers
     \/ /\ f \in Putters /\ Full
        /\ producers' = Append(producers, f) /\ UNCHANGED consumers
  /\ pc' = [pc EXCEPT ![f] = "parking"]
  /\ UNCHANGED <<ring, head, tail, closed, lock, ready, got, calls>>

\* The end of tc_fiber_resume: fctx is saved, then fiblk is released.
Park_UnlockFirst(f) ==   \* mutant: fiblk is released while fctx is unsaved
  /\ pc[f] = "parking"
  /\ \/ lock = f /\ lock' = Nothing /\ UNCHANGED pc
     \/ lock # f /\ pc' = [pc EXCEPT ![f] = "parked"] /\ UNCHANGED lock
  /\ UNCHANGED <<ring, head, tail, producers, consumers, closed, ready, got, calls>>
Park(f) ==
  /\ pc[f] = "parking"
  /\ pc' = [pc EXCEPT ![f] = "parked"]
  /\ lock' = Nothing
  /\ UNCHANGED <<ring, head, tail, producers, consumers, closed, ready, got, calls>>

\* A worker takes f from the ready list; f goes round its loop.
Resume(f) ==
  /\ pc[f] = "parked" /\ f \in ready
  /\ pc' = [pc EXCEPT ![f] = "enter"]
  /\ ready' = ready \ {f}
  /\ UNCHANGED <<ring, head, tail, producers, consumers, closed, lock, got, calls>>

Close_NotifyOne(c) ==   \* mutant: one fiber of each side is woken
  /\ Leave(c)
  /\ closed' = TRUE
  /\ ready' = ready \cup First(producers) \cup First(consumers)
  /\ producers' = Rest(producers) /\ consumers' = Rest(consumers)
  /\ UNCHANGED <<ring, head, tail, got>>
Close(c) ==
  /\ Leave(c)
  /\ closed' = TRUE
  /\ IF closed THEN UNCHANGED <<producers, consumers, ready>>
     ELSE /\ ready' = ready \cup Members(producers) \cup Members(consumers)
          /\ producers' = <<>> /\ consumers' = <<>>
  /\ UNCHANGED <<ring, head, tail, got>>

Step(f) ==
  \/ Lock(f)
  \/ f \in Getters /\ Get(f)
  \/ f \in Putters /\ Put(f)
  \/ f \in Getters \cup Putters /\ (FindClosed(f) \/ Refuse(f) \/ Wait(f))
  \/ f \in Closers /\ Close(f)
  \/ Park(f)
  \/ Resume(f)

Next == \E f \in Fibers : Call(f) \/ Step(f)

Spec == Init /\ [][Next]_vars

\* Running fibers and the scheduler keep going.  The spin lock itself promises
\* nobody that he gets it; as calls are finite, weak fairness is enough.
FairSpec == Spec /\ \A f \in Fibers : WF_vars(Step(f))

-----------------------------------------------------------------------------
Size == (head + Cap - tail) % Cap
Items == [i \in 1 .. Size |-> ring[(tail + i - 1) % Cap]]

\* Fibers that will look at the channel again without being woken.
Coming == ready \cup {f \in Fibers : pc[f] \in {"enter", "inside"}}

\* A wake-up is never lost, although a fiber that was woken may find that
\* another one was faster: while a fiber waits, every entry (every free entry)
\* has a fiber of that side on its way to it.
NoLostWakeup ==
  ~closed =>
    /\ consumers # <<>> => Size <= Cardinality(Coming \cap Getters \cap Blocking)
    /\ producers # <<>> => Cap - 1 - Size <= Cardinality(Coming \cap Putters \cap Blocking)

\* A suspended fiber is in exactly one place: once in one wait list, or on the
\* ready list.  (Both use the link inside the fiber.)
OnePlace ==
  \A f \in Fibers :
    LET places(list) == Cardinality({i \in DOMAIN list : list[i] = f})
    IN  places(producers) + places(consumers) + (IF f \in ready THEN 1 ELSE 0)
          = (IF pc[f] \in {"parking", "parked"} THEN 1 ELSE 0)

\* tc_fiber_ready is only called for fibers whose context has been saved, so
\* TC_ASSERT(ctx != NULL) holds when a worker resumes them.
SavedBeforeReady == \A f \in ready : pc[f] = "parked"

\* Nobody is left waiting on a closed channel, and nobody starts to.
ClosedWakesAll == closed => producers = <<>> /\ consumers = <<>>

\* The two together: who sleeps is woken, by an entry, a place or the close.
SleepersAreWoken == NoLostWakeup /\ ClosedWakesAll

\* A fiber is in one list at a time and readied only with its context saved.
FibersAreSafe == TypeOK /\ OnePlace /\ SavedBeforeReady

\* The channel implements a bounded first-in first-out buffer of one entry
\* less than it has slots, and the abstract promise to go on.
Abs == INSTANCE AbstractChannel WITH
         items <- Items, Capacity <- Cap - 1,
         pending <- {f \in Fibers : pc[f] # "idle"}
RefinesAbstractChannel == Abs!Spec
=============================================================================
