-------------------------- MODULE AbstractChannel ---------------------------
(***************************************************************************)
(* What a channel of src/src/fiber.c promises: a bounded first-in first-   *)
(* out buffer.  A blocked put or get waits until it can be done or the     *)
(* channel is closed, a try_put or try_get never waits, and closing ends   *)
(* every call, whatever is still in the buffer.                            *)
(***************************************************************************)
EXTENDS Naturals, Sequences

CONSTANTS Getters, Putters, Closers, Blocking, Capacity, Nothing

VARIABLES
  items,    \* the buffer; a put stores the name of its caller
  closed,
  pending,  \* calls that have not returned
  got       \* got[g]: what the last get of g returned

vars == <<items, closed, pending, got>>
Fibers == Getters \cup Putters \cup Closers

Call(f) ==
  /\ f \notin pending /\ pending' = pending \cup {f}
  /\ UNCHANGED <<items, closed, got>>

Return(f) == f \in pending /\ pending' = pending \ {f}

Get(g) ==
  /\ Return(g) /\ ~closed /\ items # <<>>
  /\ items' = Tail(items)
  /\ got' = [got EXCEPT ![g] = Head(items)]
  /\ UNCHANGED closed

Put(p) ==
  /\ Return(p) /\ ~closed /\ Len(items) < Capacity
  /\ items' = Append(items, p)
  /\ UNCHANGED <<closed, got>>

Refuse(f) ==
  /\ Return(f) /\ f \notin Blocking /\ ~closed
  /\ f \in Getters => items = <<>>
  /\ f \in Putters => Len(items) = Capacity
  /\ got' = IF f \in Getters THEN [got EXCEPT ![f] = Nothing] ELSE got
  /\ UNCHANGED <<items, closed>>

FindClosed(f) ==
  /\ Return(f) /\ closed
  /\ got' = IF f \in Getters THEN [got EXCEPT ![f] = Nothing] ELSE got
  /\ UNCHANGED <<items, closed>>

Close(c) == Return(c) /\ closed' = TRUE /\ UNCHANGED <<items, got>>

Finish(f) ==
  \/ f \in Getters /\ Get(f)
  \/ f \in Putters /\ Put(f)
  \/ f \in Getters \cup Putters /\ (Refuse(f) \/ FindClosed(f))
  \/ f \in Closers /\ Close(f)

Next == \E f \in Fibers : Call(f) \/ Finish(f)

\* While there is something to get, or room to put, somebody does; calls that
\* need not wait return.
Fairness ==
  /\ WF_vars(\E g \in Getters : Get(g))
  /\ WF_vars(\E p \in Putters : Put(p))
  /\ \A f \in Fibers \ Blocking : WF_vars(Finish(f))
  /\ \A f \in Blocking : WF_vars(closed /\ Finish(f))

Init ==
  /\ items = <<>> /\ closed = FALSE /\ pending = {}
  /\ got = [g \in Getters |-> Nothing]

Safety == Init /\ [][Next]_vars
Spec == Safety /\ Fairness
=============================================================================
