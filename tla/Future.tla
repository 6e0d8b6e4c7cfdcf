------------------------------- MODULE Future -------------------------------
(***************************************************************************)
(* Futures (src/src/fiber.c, 416-539): an atomic counter with a few slots  *)
(* in which fibers register to be made ready when the counter gets a       *)
(* certain value.  Jobs, timers, file requests and child processes all     *)
(* report completion by tc_fut_decr; fibers wait with tc_fut_wait or, by   *)
(* await(), with tc_fut_wait_and_free.                                     *)
(*                                                                         *)
(* One action is one access to the future's memory; every fiber may run on *)
(* a worker of its own.  A suspended fiber resumes when it is on the ready *)
(* list; how workers take it from there is module FiberSched.              *)
(***************************************************************************)
EXTENDS Integers, FiniteSets

CONSTANTS
  Waiters,   \* fibers that call tc_fut_wait
  Owners,    \* those that call tc_fut_wait_and_free instead
  Decrs,     \* callers of tc_fut_decr, once each
  Incrs,     \* callers of tc_fut_incr, once each
  Null,      \* no fiber
  NumSlots,  \* num_slots of tc_fut_new (4 at every call in the code)
  Target,    \* the value waited for
  MaxWaits   \* bound: calls of tc_fut_wait per waiter

SlotsAssumption == NumSlots \in Nat /\ MaxWaits \in Nat /\ Target \in Int
ProcessAssumption ==
  /\ IsFiniteSet(Decrs) /\ IsFiniteSet(Incrs)
  /\ Owners \subseteq Waiters
  /\ Decrs \cap Incrs = {} /\ Waiters \cap (Decrs \cup Incrs) = {}
  /\ Null \notin Waiters

VARIABLES
  value,  \* c->value; negative stands for the wrapped size_t
  slot,   \* slot[i]: [fiber, inuse, value] of entry i
  freed,  \* tc_fut_free was called
  pc,
  idx,    \* idx[p]: loop variable i of process p
  fib,    \* fib[k]: local f of a waker
  val,    \* val[p]: the value that waker p looks for, or waiter p probed
  ready,  \* ready[w]: how often w is on the ready list
  waits,  \* waits[w]: calls made so far
  seen,   \* history: waiters that were waiting when the value was Target
  reached \* history: the value was Target at some time

vars == <<value, slot, freed, pc, idx, fib, val, ready, waits, seen, reached>>

Wakers == Decrs \cup Incrs
Slots == 1 .. NumSlots
WaiterPC == {"idle", "claim", "set", "arm", "probe", "check", "compare",
             "self", "unhook", "yield", "result", "free"}
WakerPC == {"start", "scan", "inuse", "value", "take", "clear", "wake", "done"}

TypeOK ==
  /\ value \in Int
  /\ slot \in [Slots -> [fiber : Waiters \cup {Null}, inuse : BOOLEAN, value : Int]]
  /\ freed \in BOOLEAN
  /\ pc \in [Waiters \cup Wakers -> WaiterPC \cup WakerPC]
  /\ idx \in [Waiters \cup Wakers -> 1 .. NumSlots + 1]
  /\ fib \in [Wakers -> Waiters \cup {Null}]
  /\ val \in [Waiters \cup Wakers -> Int]
  /\ ready \in [Waiters -> Nat]
  /\ waits \in [Waiters -> 0 .. MaxWaits]
  /\ seen \subseteq Waiters
  /\ reached \in BOOLEAN

\* tc_fut_new: as many pending decrements as bring the counter to Target.
Init ==
  /\ value = Target + Cardinality(Decrs) - Cardinality(Incrs)
  /\ slot = [i \in Slots |-> [fiber |-> Null, inuse |-> TRUE, value |-> 0]]
  /\ freed = FALSE
  /\ pc = [p \in Waiters \cup Wakers |-> IF p \in Waiters THEN "idle" ELSE "start"]
  /\ idx = [p \in Waiters \cup Wakers |-> 1]
  /\ fib = [k \in Wakers |-> Null]
  /\ val = [p \in Waiters \cup Wakers |-> 0]
  /\ ready = [w \in Waiters |-> 0]
  /\ waits = [w \in Waiters |-> 0]
  /\ seen = {}
  /\ reached = (value = Target)

-----------------------------------------------------------------------------
Goto(p, label) == pc' = [pc EXCEPT ![p] = label]
Waiting == {w \in Waiters : pc[w] \notin {"idle", "result", "free"}}

(* tc_fut_decr, tc_fut_incr and counter_wakeup *)

\* The atomic addition; its result is what counter_wakeup looks for.
Change(k, d) ==
  /\ pc[k] = "start"
  /\ value' = value + d
  /\ val' = [val EXCEPT ![k] = value + d]
  /\ seen' = IF value + d = Target THEN Waiting ELSE seen
  /\ reached' = (reached \/ value + d = Target)
  /\ Goto(k, "scan")
  /\ UNCHANGED <<slot, freed, idx, fib, ready, waits>>
Decr(k) == k \in Decrs /\ Change(k, -1)
Incr(k) == k \in Incrs /\ Change(k, 1)

NextSlot(k) ==
  /\ idx' = [idx EXCEPT ![k] = @ + 1]
  /\ fib' = [fib EXCEPT ![k] = Null]
  /\ Goto(k, "scan")

\* i < c->num_slots, then the load of slots[i].fiber.
Scan(k) ==
  /\ pc[k] = "scan" /\ idx[k] \in Slots
  /\ IF slot[idx[k]].fiber = Null
     THEN NextSlot(k)
     ELSE /\ fib' = [fib EXCEPT ![k] = slot[idx[k]].fiber]
          /\ Goto(k, "inuse")
          /\ UNCHANGED idx
  /\ UNCHANGED <<value, slot, freed, val, ready, waits, seen, reached>>

ScanEnds(k) ==
  /\ pc[k] = "scan" /\ idx[k] \notin Slots
  /\ Goto(k, "done")
  /\ UNCHANGED <<value, slot, freed, idx, fib, val, ready, waits, seen, reached>>

ScanInUse(k) ==
  /\ pc[k] = "inuse"
  /\ IF slot[idx[k]].inuse THEN NextSlot(k)
                           ELSE Goto(k, "value") /\ UNCHANGED <<idx, fib>>
  /\ UNCHANGED <<value, slot, freed, val, ready, waits, seen, reached>>

\* Mutant: waiters are woken whatever value they wait for.
ScanValue_Any(k) ==
  /\ pc[k] = "value"
  /\ Goto(k, "take")
  /\ UNCHANGED <<value, slot, freed, idx, fib, val, ready, waits, seen, reached>>
ScanValue(k) ==
  /\ pc[k] = "value"
  /\ IF slot[idx[k]].value # val[k] THEN NextSlot(k)
                                    ELSE Goto(k, "take") /\ UNCHANGED <<idx, fib>>
  /\ UNCHANGED <<value, slot, freed, val, ready, waits, seen, reached>>

\* compare-and-swap of inuse from 0 to true
Take(k) ==
  /\ pc[k] = "take"
  /\ IF slot[idx[k]].inuse
     THEN NextSlot(k) /\ UNCHANGED slot
     ELSE /\ slot' = [slot EXCEPT ![idx[k]].inuse = TRUE]
          /\ Goto(k, "clear")
          /\ UNCHANGED <<idx, fib>>
  /\ UNCHANGED <<value, freed, val, ready, waits, seen, reached>>

Clear(k) ==
  /\ pc[k] = "clear"
  /\ slot' = [slot EXCEPT ![idx[k]].fiber = Null]
  /\ Goto(k, "wake")
  /\ UNCHANGED <<value, freed, idx, fib, val, ready, waits, seen, reached>>

\* tc_fiber_ready(f), with the f that was loaded at the start of the iteration
Wake(k) ==
  /\ pc[k] = "wake"
  /\ ready' = [ready EXCEPT ![fib[k]] = @ + 1]
  /\ NextSlot(k)
  /\ UNCHANGED <<value, slot, freed, val, waits, seen, reached>>

-----------------------------------------------------------------------------
(* tc_fut_wait and counter_add_to_waiting *)

CallWait(w) ==
  /\ pc[w] = "idle" /\ waits[w] < MaxWaits
  /\ waits' = [waits EXCEPT ![w] = @ + 1]
  /\ idx' = [idx EXCEPT ![w] = 1]
  /\ seen' = IF value = Target THEN seen \cup {w} ELSE seen
  /\ Goto(w, "claim")
  /\ UNCHANGED <<value, slot, freed, fib, val, ready, reached>>

\* compare-and-swap of slots[i].fiber from 0 to the calling fiber
Claim(w) ==
  /\ pc[w] = "claim" /\ idx[w] \in Slots
  /\ IF slot[idx[w]].fiber = Null
     THEN /\ slot' = [slot EXCEPT ![idx[w]].fiber = w]
          /\ Goto(w, "set")
          /\ UNCHANGED idx
     ELSE /\ idx' = [idx EXCEPT ![w] = @ + 1]
          /\ UNCHANGED <<slot, pc>>
  /\ UNCHANGED <<value, freed, fib, val, ready, waits, seen, reached>>

\* No free slot: return false, although nothing refers to the fiber.
NoSlot_True(w) ==   \* mutant: the caller is told not to wait
  /\ pc[w] = "claim" /\ idx[w] \notin Slots
  /\ Goto(w, "result")
  /\ UNCHANGED <<value, slot, freed, idx, fib, val, ready, waits, seen, reached>>
NoSlot(w) ==
  /\ pc[w] = "claim" /\ idx[w] \notin Slots
  /\ Goto(w, "yield")
  /\ UNCHANGED <<value, slot, freed, idx, fib, val, ready, waits, seen, reached>>

SetValue(w) ==
  /\ pc[w] = "set"
  /\ slot' = [slot EXCEPT ![idx[w]].value = Target]
  /\ Goto(w, "arm")
  /\ UNCHANGED <<value, freed, idx, fib, val, ready, waits, seen, reached>>

\* Mutant: the counter is not looked at again once the slot is armed.
Arm_NoProbe(w) ==
  /\ pc[w] = "arm"
  /\ slot' = [slot EXCEPT ![idx[w]].inuse = FALSE]
  /\ Goto(w, "yield")
  /\ UNCHANGED <<value, freed, idx, fib, val, ready, waits, seen, reached>>
Arm(w) ==
  /\ pc[w] = "arm"
  /\ slot' = [slot EXCEPT ![idx[w]].inuse = FALSE]
  /\ Goto(w, "probe")
  /\ UNCHANGED <<value, freed, idx, fib, val, ready, waits, seen, reached>>

Probe(w) ==
  /\ pc[w] = "probe"
  /\ val' = [val EXCEPT ![w] = value]
  /\ Goto(w, "check")
  /\ UNCHANGED <<value, slot, freed, idx, fib, ready, waits, seen, reached>>

CheckInUse(w) ==
  /\ pc[w] = "check"
  /\ Goto(w, IF slot[idx[w]].inuse THEN "yield" ELSE "compare")
  /\ UNCHANGED <<value, slot, freed, idx, fib, val, ready, waits, seen, reached>>

\* Mutant: the probed value is not compared.
Compare_Any(w) ==
  /\ pc[w] = "compare"
  /\ Goto(w, "self")
  /\ UNCHANGED <<value, slot, freed, idx, fib, val, ready, waits, seen, reached>>
Compare(w) ==
  /\ pc[w] = "compare"
  /\ Goto(w, IF slot[idx[w]].value = val[w] THEN "self" ELSE "yield")
  /\ UNCHANGED <<value, slot, freed, idx, fib, val, ready, waits, seen, reached>>

\* The waiter saw the value itself and takes its registration back, unless a
\* waker took it first.
TakeBack_Store(w) ==   \* mutant: a plain store instead of the compare-and-swap
  /\ pc[w] = "self"
  /\ slot' = [slot EXCEPT ![idx[w]].inuse = TRUE]
  /\ Goto(w, "unhook")
  /\ UNCHANGED <<value, freed, idx, fib, val, ready, waits, seen, reached>>
TakeBack(w) ==
  /\ pc[w] = "self"
  /\ IF slot[idx[w]].inuse
     THEN Goto(w, "yield") /\ UNCHANGED slot
     ELSE slot' = [slot EXCEPT ![idx[w]].inuse = TRUE] /\ Goto(w, "unhook")
  /\ UNCHANGED <<value, freed, idx, fib, val, ready, waits, seen, reached>>

Unhook(w) ==
  /\ pc[w] = "unhook"
  /\ slot' = [slot EXCEPT ![idx[w]].fiber = Null]
  /\ seen' = seen \ {w}
  /\ Goto(w, "result")
  /\ UNCHANGED <<value, freed, idx, fib, val, ready, waits, reached>>

\* tc_fiber_yield(NULL) returns when a worker finds w on the ready list.
Resume(w) ==
  /\ pc[w] = "yield" /\ ready[w] > 0
  /\ ready' = [ready EXCEPT ![w] = @ - 1]
  /\ seen' = seen \ {w}
  /\ Goto(w, "result")
  /\ UNCHANGED <<value, slot, freed, idx, fib, val, waits, reached>>

\* return c->waitable->results
Result(w) ==
  /\ pc[w] = "result"
  /\ Goto(w, IF w \in Owners THEN "free" ELSE "idle")
  /\ val' = [val EXCEPT ![w] = 0]
  /\ UNCHANGED <<value, slot, freed, idx, fib, ready, waits, seen, reached>>

\* tc_fut_free at the end of tc_fut_wait_and_free
Free(w) ==
  /\ pc[w] = "free"
  /\ freed' = TRUE
  /\ Goto(w, "idle")
  /\ UNCHANGED <<value, slot, idx, fib, val, ready, waits, seen, reached>>

-----------------------------------------------------------------------------
WakerStep(k) ==
  \/ Scan(k) \/ ScanEnds(k) \/ ScanInUse(k) \/ ScanValue(k)
  \/ Take(k) \/ Clear(k) \/ Wake(k)
WaiterStep(w) ==
  \/ Claim(w) \/ NoSlot(w) \/ SetValue(w) \/ Arm(w) \/ Probe(w) \/ CheckInUse(w)
  \/ Compare(w) \/ TakeBack(w) \/ Unhook(w) \/ Resume(w) \/ Result(w) \/ Free(w)

WakerGoes(k) == Decr(k) \/ Incr(k) \/ WakerStep(k)

Next ==
  \/ \E k \in Wakers : WakerGoes(k)
  \/ \E w \in Waiters : CallWait(w) \/ WaiterStep(w)

Spec == Init /\ [][Next]_vars

\* Jobs finish, timers fire and running fibers keep running.
FairSpec ==
  /\ Spec
  /\ \A k \in Wakers : WF_vars(WakerGoes(k))
  /\ \A w \in Waiters : WF_vars(WaiterStep(w))

-----------------------------------------------------------------------------
\* No wake-up is lost: a suspended fiber is on the ready list, held by a waker
\* that is about to put it there, or in an armed slot; and once the counter
\* has its value, a waker is still to come past that slot.
InHand(w) == \E k \in Wakers : pc[k] \in {"clear", "wake"} /\ fib[k] = w
Comes(k, i) ==
  /\ val[k] = Target
  /\ \/ pc[k] \in {"scan", "inuse", "value", "take"} /\ idx[k] <= i
     \/ pc[k] \in {"clear", "wake"} /\ idx[k] < i
ArmedSlot(w, i) == slot[i].fiber = w /\ ~slot[i].inuse /\ slot[i].value = Target
NoLostWaiter ==
  \A w \in Waiters : pc[w] = "yield" =>
    \/ ready[w] > 0
    \/ InHand(w)
    \/ \E i \in Slots : /\ ArmedSlot(w, i)
                        /\ value = Target => \E k \in Wakers : Comes(k, i)

\* A fiber is put on the ready list at most once per wait, and never while it
\* runs on: a stale entry would resume it out of some later wait.
NoStaleWakeup ==
  \A w \in Waiters :
    /\ ready[w] <= 1
    /\ pc[w] \in {"idle", "result", "free", "claim", "set", "arm", "unhook"}
         => ready[w] = 0 /\ ~InHand(w)

\* "The fiber will yield if the counter did not reach that value yet and it
\* will be rescheduled when it did" (include/private/fiber.h): a waiter for
\* which the counter had the value does not sleep for ever.
WaiterRescheduled == \A w \in Waiters : w \in seen ~> w \notin Waiting

\* tc_fut_wait never returns before the counter had the value, not even to a
\* fiber that found no free slot or was woken through a slot of another.
ReturnsAfterTarget == \A w \in Waiters : pc[w] \in {"result", "free"} => reached

\* await() frees the future, and with it the memory of its jobs, only when
\* every one of them has counted down.
AwaitFreesLast == freed => value = Target /\ \A k \in Decrs : pc[k] # "start"

\* After tc_fut_free nobody reads or writes the future.
Touching == (WaiterPC \cup WakerPC) \ {"idle", "yield", "wake", "done"}
NoUseAfterFree ==
  freed => \A p \in Waiters \cup Wakers : pc[p] \notin Touching

\* Types; one waiter is never lost, resumed by a stale entry or let go too
\* early.
WakeupsAreSound == TypeOK /\ NoLostWaiter /\ NoStaleWakeup /\ ReturnsAfterTarget

\* Each step of the future is one of the abstract future or a stutter.
Abs == INSTANCE AbstractFuture WITH waiting <- Waiting
RefinesAbstractFuture == Abs!Safety
=============================================================================
