------------------------------- MODULE MCSync -------------------------------
(* Under the waiting of fibers: the lock-free stack with a tag of four values, *)
(* so that it wraps; a future with one waiter that waits twice, so that slots  *)
(* are reused; a future with one slot that two fibers share; the requests to   *)
(* the operating system.  Each behaviour is about one of them: kind says which.*)
(* The future with one slot has v1 .. v11; the others are LfLifo, Future and   *)
(* Requests as they stand.                                                     *)
EXTENDS LfLifo, Future, Requests

CONSTANTS w1, w2

VARIABLES kind, v1, v2, v3, v4, v5, v6, v7, v8, v9, v10, v11

others == <<v1, v2, v3, v4, v5, v6, v7, v8, v9, v10, v11>>
all == <<kind, stackVars, vars, reqVars, others>>

OneSlot == INSTANCE Future WITH
  Waiters <- {w1, w2}, Owners <- {w1}, Incrs <- {}, NumSlots <- 1, MaxWaits <- 1,
  value <- v1, slot <- v2, freed <- v3, pc <- v4, idx <- v5, fib <- v6, val <- v7,
  ready <- v8, waits <- v9, seen <- v10, reached <- v11

ASSUME StackAssumption == TagAssumption /\ ElemAssumption
ASSUME WaitAssumption == SlotsAssumption /\ ProcessAssumption
ASSUME SharedAssumption == OneSlot!SlotsAssumption /\ OneSlot!ProcessAssumption

SyncInit ==
  /\ kind \in {"stack", "wait", "shared", "requests"}
  /\ StackInit /\ (kind # "stack" => held[CHOOSE t \in Threads : TRUE] = Elems)
  /\ Init /\ ReqInit
  /\ IF kind = "shared" THEN OneSlot!Init
     ELSE /\ v1 = Null /\ v2 = Null /\ v3 = Null /\ v4 = Null /\ v5 = Null /\ v6 = Null
          /\ v7 = Null /\ v8 = Null /\ v9 = Null /\ v10 = Null /\ v11 = Null

StackOnly == kind = "stack" /\ UNCHANGED <<kind, vars, reqVars, others>>
FutureOnly == kind = "wait" /\ UNCHANGED <<kind, stackVars, reqVars, others>>
RequestsOnly == kind = "requests" /\ UNCHANGED <<kind, stackVars, vars, others>>
SyncNext ==
  \/ StackOnly /\ StackNext
  \/ FutureOnly /\ Next
  \/ kind = "shared" /\ OneSlot!Next /\ UNCHANGED <<kind, stackVars, vars, reqVars>>
  \/ RequestsOnly /\ ReqNext

\* What each module assumes: see its own specification.
SyncFairness ==
  /\ \A t \in Threads : WF_all(StackOnly /\ Step(t))
  /\ \A k \in Wakers : WF_all(FutureOnly /\ WakerGoes(k))
  /\ \A w \in Waiters : WF_all(FutureOnly /\ WaiterStep(w))
  /\ \A w \in Workers :
       /\ WF_all(RequestsOnly /\ Answered(w))
       /\ WF_all(RequestsOnly /\ Callback(w))
       /\ WF_all(RequestsOnly /\ Decrement(w))
  /\ \A u \in Users : WF_all(RequestsOnly /\ Finish(u))

SyncSpec == SyncInit /\ [][SyncNext]_all /\ SyncFairness
-----------------------------------------------------------------------------
(* The properties of the modules; those of LfLifo, Future and Requests         *)
(* (AnswersAreTheirs) hold as they stand, as these are at rest in the others.  *)

\* Future, with more waiters than slots: nobody returns before the counter had
\* its value, and await frees the future after the last decrement.
ReturnsAreDue == kind = "shared" => OneSlot!ReturnsAfterTarget /\ OneSlot!AwaitFreesLast

\* LfLifo: while a thread is busy, some thread makes progress.  Future: once the
\* counter had its value, the wait returns.  Requests: every waiter goes on.
EveryoneGoesOn ==
  /\ \A t \in Threads, k \in 0 .. TagMod - 1 :
       kind = "stack" /\ Busy(t, k) ~> kind = "stack" /\ Progress(t, k)
  /\ \A w \in Waiters : kind = "wait" /\ w \in seen ~> kind = "wait" /\ w \notin Waiting
  /\ \A u \in Users : []<>(kind = "requests" => wait[u] = Nobody)
=============================================================================
