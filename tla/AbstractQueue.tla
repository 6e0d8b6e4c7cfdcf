--------------------------- MODULE AbstractQueue ---------------------------
(***************************************************************************)
(* What the bounded multi-producer multi-consumer queue of                 *)
(* src/src/datastructures/lfqueue.h promises its callers: a first-in       *)
(* first-out queue of at most Capacity values from which every value that  *)
(* was accepted is handed to exactly one caller.                           *)
(*                                                                         *)
(* A call that returns false changes nothing, so it does not appear here.  *)
(* The implementation may return false although the queue is neither full  *)
(* nor empty; LfQueue states separately when it may.                       *)
(***************************************************************************)
EXTENDS Naturals, Sequences

CONSTANTS
  Threads,   \* callers of lf_queue_put and lf_queue_get
  Values,    \* what is queued (pointers to jobs)
  Capacity,  \* number of cells
  None       \* "nothing received yet"

VARIABLES
  queue,     \* the accepted values that nobody has taken, oldest first
  hand       \* hand[t]: the value thread t took last

vars == <<queue, hand>>

Init ==
  /\ queue = <<>>
  /\ hand = [t \in Threads |-> None]

Put(v) ==
  /\ Len(queue) < Capacity
  /\ queue' = Append(queue, v)
  /\ UNCHANGED hand

Get(t) ==
  /\ queue # <<>>
  /\ hand' = [hand EXCEPT ![t] = Head(queue)]
  /\ queue' = Tail(queue)

Next ==
  \/ \E v \in Values : Put(v)
  \/ \E t \in Threads : Get(t)

Spec == Init /\ [][Next]_vars
=============================================================================
