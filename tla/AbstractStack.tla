--------------------------- MODULE AbstractStack ---------------------------
(***************************************************************************)
(* What the lock-free stack of src/src/datastructures/lflifo.h promises:   *)
(* an element is on the stack or in the hands of exactly one thread, and a *)
(* pop hands over the element that was pushed last.  fiber.c uses it as    *)
(* the list of free fibers and as the list of ready fibers.                *)
(***************************************************************************)
EXTENDS Naturals, Sequences

CONSTANTS Threads, Elems

VARIABLES
  stack,   \* the elements on the stack, top first
  held     \* held[t]: the elements thread t owns

vars == <<stack, held>>

\* At first every element is in the hands of one thread.
Init ==
  /\ stack = <<>>
  /\ held \in [Threads -> SUBSET Elems]
  /\ \A e \in Elems : \E t \in Threads : {u \in Threads : e \in held[u]} = {t}

Push(t, e) ==
  /\ e \in held[t]
  /\ stack' = <<e>> \o stack
  /\ held' = [held EXCEPT ![t] = @ \ {e}]

Pop(t) ==
  /\ stack # <<>>
  /\ stack' = Tail(stack)
  /\ held' = [held EXCEPT ![t] = @ \cup {Head(stack)}]

Next == \E t \in Threads : Pop(t) \/ \E e \in Elems : Push(t, e)
Spec == Init /\ [][Next]_vars
=============================================================================
