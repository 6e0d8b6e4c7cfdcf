------------------------------- MODULE LfLifo -------------------------------
(***************************************************************************)
(* The lock-free intrusive stack of src/src/datastructures/lflifo.h.  The  *)
(* head is one word: a 64k-aligned pointer whose low 16 bits are a tag     *)
(* that every successful compare-and-swap increments, so that a pop whose  *)
(* snapshot is old fails although the same element is on top again (the    *)
(* ABA problem).  The link of an element lives in the element, and its     *)
(* owner writes it freely: worker_loop and fiber_create clear it, channels *)
(* chain waiting fibers through it.                                        *)
(*                                                                         *)
(* One action is one access to shared memory.  The tag has TagMod values   *)
(* (65536 in the code).  Window bounds how many compare-and-swaps of other *)
(* threads may succeed while one thread sits between its load and its own  *)
(* compare-and-swap; the stack is correct only while Window < TagMod.      *)
(***************************************************************************)
EXTENDS Naturals, Sequences, FiniteSets

CONSTANTS Threads, Elems, Nil, TagMod, Window

TagAssumption == TagMod \in Nat /\ Window \in Nat /\ Window < TagMod
ElemAssumption == Nil \notin Elems /\ IsFiniteSet(Elems)

VARIABLES
  head,   \* head->next: [top |-> pointer, tag |-> counter]
  next,   \* next[e]: the link inside element e
  held,   \* held[t]: the elements that thread t owns
  tpc,    \* tpc[t]: where t is in lf_lifo_push or lf_lifo_pop
  elem,   \* elem[t]: the element being pushed
  snap,   \* snap[t]: local variable next, the head as t last loaded it
  link,   \* link[t]: elem->next as t read it in a pop
  age     \* age[t]: compare-and-swaps that succeeded since t loaded the head

stackVars == <<head, next, held, tpc, elem, snap, link, age>>

Ptr == Elems \cup {Nil}
Word == [top : Ptr, tag : 0 .. TagMod-1]
NoSnap == [top |-> Nil, tag |-> 0]

StackTypeOK ==
  /\ head \in Word
  /\ next \in [Elems -> Ptr]
  /\ held \in [Threads -> SUBSET Elems]
  /\ tpc \in [Threads -> {"idle", "push_load", "push_link", "push_cas",
                         "pop_load", "pop_next", "pop_cas"}]
  /\ elem \in [Threads -> Ptr]
  /\ snap \in [Threads -> Word]
  /\ link \in [Threads -> Ptr]
  /\ age \in [Threads -> 0 .. Window]

\* Every element starts in the hands of one thread, the one that ran
\* fiber_pool_init.
StackInit ==
  /\ head = NoSnap
  /\ next = [e \in Elems |-> Nil]
  /\ \E t \in Threads : held = [u \in Threads |-> IF u = t THEN Elems ELSE {}]
  /\ tpc = [t \in Threads |-> "idle"]
  /\ elem = [t \in Threads |-> Nil]
  /\ snap = [t \in Threads |-> NoSnap]
  /\ link = [t \in Threads |-> Nil]
  /\ age = [t \in Threads |-> 0]

-----------------------------------------------------------------------------
Bump_NoWrap(tag) == tag + 1   \* mutant: the tag runs into the pointer
Bump_Never(tag) == tag        \* mutant: no tag, as in a plain Treiber stack
Bump(tag) == (tag + 1) % TagMod

\* Threads between their load of the head and their compare-and-swap.
Loaded(u) == tpc[u] \in {"push_link", "push_cas", "pop_next", "pop_cas"}

\* CAS(head, next, newhead) with next = snap[t]: one step whether it succeeds ...
Swap(t, top) ==
  /\ head = snap[t]
  /\ \A u \in Threads \ {t} : Loaded(u) => age[u] < Window
  /\ head' = [top |-> top, tag |-> Bump(snap[t].tag)]
  /\ age' = [u \in Threads |-> IF u # t /\ Loaded(u) THEN age[u] + 1 ELSE 0]
  /\ tpc' = [tpc EXCEPT ![t] = "idle"]
  /\ snap' = [snap EXCEPT ![t] = NoSnap]
  /\ elem' = [elem EXCEPT ![t] = Nil]
  /\ link' = [link EXCEPT ![t] = Nil]

\* ... or fails, which loads the head again and repeats the loop.
SwapFails(t, retry) ==
  /\ head # snap[t]
  /\ snap' = [snap EXCEPT ![t] = head]
  /\ age' = [age EXCEPT ![t] = 0]
  /\ tpc' = [tpc EXCEPT ![t] = retry]
  /\ UNCHANGED <<head, next, held, elem, link>>

LoadHead(t, label) ==
  /\ snap' = [snap EXCEPT ![t] = head]
  /\ age' = [age EXCEPT ![t] = 0]
  /\ tpc' = [tpc EXCEPT ![t] = label]
  /\ UNCHANGED <<head, next, held, elem, link>>

CallPush(t, e) ==
  /\ tpc[t] = "idle" /\ e \in held[t]
  /\ tpc' = [tpc EXCEPT ![t] = "push_load"]
  /\ elem' = [elem EXCEPT ![t] = e]
  /\ UNCHANGED <<head, next, held, snap, link, age>>

PushLoad(t) == tpc[t] = "push_load" /\ LoadHead(t, "push_link")

PushLink(t) ==
  /\ tpc[t] = "push_link"
  /\ next' = [next EXCEPT ![elem[t]] = snap[t].top]
  /\ tpc' = [tpc EXCEPT ![t] = "push_cas"]
  /\ UNCHANGED <<head, held, elem, snap, link, age>>

PushSwap(t) ==
  /\ tpc[t] = "push_cas"
  /\ Swap(t, elem[t])
  /\ held' = [held EXCEPT ![t] = @ \ {elem[t]}]
  /\ UNCHANGED next

\* Mutant: the element is not linked to the new head before the next attempt.
PushRetry_KeepsLink(t) == tpc[t] = "push_cas" /\ SwapFails(t, "push_cas")
\* Mutant: the failed compare-and-swap does not load the head again.
PushRetry_NoReload(t) ==
  /\ tpc[t] = "push_cas" /\ head # snap[t]
  /\ tpc' = [tpc EXCEPT ![t] = "push_link"]
  /\ UNCHANGED <<head, next, held, elem, snap, link, age>>
PushRetry(t) == tpc[t] = "push_cas" /\ SwapFails(t, "push_link")

CallPop(t) ==
  /\ tpc[t] = "idle"
  /\ tpc' = [tpc EXCEPT ![t] = "pop_load"]
  /\ UNCHANGED <<head, next, held, elem, snap, link, age>>

PopLoad(t) == tpc[t] = "pop_load" /\ LoadHead(t, "pop_next")

\* if (elem == NULL) return NULL
PopEmpty(t) ==
  /\ tpc[t] = "pop_next" /\ snap[t].top = Nil
  /\ tpc' = [tpc EXCEPT ![t] = "idle"]
  /\ snap' = [snap EXCEPT ![t] = NoSnap]
  /\ age' = [age EXCEPT ![t] = 0]
  /\ UNCHANGED <<head, next, held, elem, link>>

\* elem->next is read although another thread may own elem by now.
PopNext(t) ==
  /\ tpc[t] = "pop_next" /\ snap[t].top # Nil
  /\ link' = [link EXCEPT ![t] = next[snap[t].top]]
  /\ tpc' = [tpc EXCEPT ![t] = "pop_cas"]
  /\ UNCHANGED <<head, next, held, elem, snap, age>>

PopSwap(t) ==
  /\ tpc[t] = "pop_cas"
  /\ Swap(t, link[t])
  /\ held' = [held EXCEPT ![t] = @ \cup {snap[t].top}]
  /\ UNCHANGED next

PopRetry(t) == tpc[t] = "pop_cas" /\ SwapFails(t, "pop_next")

\* lf_lifo_init(&f->state) and the wait lists of channels: the owner of an
\* element writes its link between two operations.
OwnerLink(t, e, x) ==
  /\ tpc[t] = "idle" /\ e \in held[t]
  /\ next' = [next EXCEPT ![e] = x]
  /\ UNCHANGED <<head, held, tpc, elem, snap, link, age>>

Step(t) ==
  \/ PushLoad(t) \/ PushLink(t) \/ PushSwap(t) \/ PushRetry(t)
  \/ PopLoad(t) \/ PopEmpty(t) \/ PopNext(t) \/ PopSwap(t) \/ PopRetry(t)

StackNext ==
  \E t \in Threads :
    \/ CallPop(t)
    \/ \E e \in Elems : CallPush(t, e) \/ \E x \in Ptr : OwnerLink(t, e, x)
    \/ Step(t)

StackSpec == StackInit /\ [][StackNext]_stackVars
StackFairSpec == StackSpec /\ \A t \in Threads : WF_stackVars(Step(t))

-----------------------------------------------------------------------------
\* The stack as its links spell it out from the head; Cardinality(Elems) + 1
\* entries if the links run in a circle.
Walk[k \in 0 .. Cardinality(Elems)] ==
  IF k = 0 THEN head.top ELSE IF Walk[k-1] = Nil THEN Nil ELSE next[Walk[k-1]]
Height == Cardinality({k \in 0 .. Cardinality(Elems) : Walk[k] # Nil})
Chain == [k \in 1 .. Height |-> Walk[k-1]]

\* No element is lost or handed out twice: at all times each one is either on
\* the stack, once, or owned by exactly one thread.  (For the free list this
\* is "a fiber runs at most one job", for the ready list "a fiber is resumed
\* by one worker".)
EachElementOnce ==
  \A e \in Elems :
    Cardinality({k \in DOMAIN Chain : Chain[k] = e})
      + Cardinality({t \in Threads : e \in held[t]}) = 1

\* Types, and no element is lost or handed out twice.
StackIsSound == StackTypeOK /\ EachElementOnce

\* The stack implements the abstract one: each operation takes effect in its
\* successful compare-and-swap, and last in is first out.
AbsStack == INSTANCE AbstractStack WITH stack <- Chain
RefinesAbstractStack == AbsStack!Spec

\* Lock-freedom is that Busy leads to Progress: while a thread is busy, it returns
\* or somebody's operation succeeds.
Busy(t, k) == tpc[t] # "idle" /\ head.tag = k
Progress(t, k) == tpc[t] = "idle" \/ head.tag # k
=============================================================================
