--------------------------- MODULE AbstractFuture ---------------------------
(***************************************************************************)
(* What a future of src/src/fiber.c promises (include/private/fiber.h):    *)
(* a fiber that waits for the counter to become Target must return when    *)
(* the counter gets that value after the call.  It may return as soon as   *)
(* the counter had that value at all: a decrement that reached it before   *)
(* the call may still be looking for waiters.  For a counter that only     *)
(* counts down to Target, the two are the same.                            *)
(***************************************************************************)
EXTENDS Integers

CONSTANTS
  Waiters,  \* fibers that wait
  Target    \* the value they wait for; await() uses 0

VARIABLES
  value,    \* the counter
  waiting,  \* fibers inside tc_fut_wait
  seen,     \* those of them for which the counter had the value Target
  reached   \* the counter had the value Target at some time

vars == <<value, waiting, seen, reached>>

Call(w) ==
  /\ w \notin waiting
  /\ waiting' = waiting \cup {w}
  /\ seen' = IF value = Target THEN seen \cup {w} ELSE seen
  /\ UNCHANGED <<value, reached>>

Change(v) ==
  /\ value' = v
  /\ seen' = IF v = Target THEN waiting ELSE seen
  /\ reached' = (reached \/ v = Target)
  /\ UNCHANGED waiting

Return(w) ==
  /\ w \in waiting /\ reached
  /\ waiting' = waiting \ {w}
  /\ seen' = seen \ {w}
  /\ UNCHANGED <<value, reached>>

Next ==
  \/ \E w \in Waiters : Call(w) \/ Return(w)
  \/ Change(value + 1) \/ Change(value - 1)

Init == waiting = {} /\ seen = {} /\ reached = (value = Target)
Safety == Init /\ [][Next]_vars
Spec == Safety /\ \A w \in Waiters : WF_vars(w \in seen /\ Return(w))
=============================================================================
