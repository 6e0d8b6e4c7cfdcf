-------------------------- MODULE FiberSched_proofs --------------------------
(***************************************************************************)
(* Machine-checked proofs about FiberSched, for any number of workers,     *)
(* fibers and jobs and every set of programs, where fibers are woken by    *)
(* the worker they run on: with one worker, or if jobs await requests only *)
(* and just the main thread awaits jobs.                                   *)
(***************************************************************************)
EXTENDS FiberSched, FiniteSetTheorems, FunctionTheorems, SequenceTheorems,
        WellFoundedInduction, TLAPS

-----------------------------------------------------------------------------
(* Where a fiber is                                                          *)

In(list, x) == \E i \in DOMAIN list : list[i] = x
NoTwice(list) == \A i, j \in DOMAIN list : list[i] = list[j] => i = j

HoldPC == {"popped", "start", "run", "save", "check"}
Held(x) == \E w \in Workers : f[w] = x
Unawaited(x) == \A i \in Askers : waiter[i] # x

FreeInv(x) ==
  In(free, x) => fpc[x] = "loop" /\ fjob[x] = Null /\ saved[x] /\ ~In(ready, x)

\* A fiber that can go on.
Woken(x) ==
  fpc[x] = "awake" /\ fjob[x] # Null /\ saved[x] /\ Unawaited(x) /\ left[fjob[x]] = 0
ReadyInv(x) == In(ready, x) => Woken(x)

\* A fiber that has left its job is over with it, and one that waits is registered.
HeldInv(w, x) ==
  f[w] = x =>
    /\ wpc[w] \in HoldPC /\ ~In(free, x) /\ ~In(ready, x)
    /\ \A v \in Workers : f[v] = x => v = w
    /\ wpc[w] = "popped" => Woken(x)
    /\ wpc[w] = "start" => fpc[x] = "loop" /\ fjob[x] = Null /\ saved[x]
    /\ wpc[w] = "run" =>
         /\ fjob[x] = Null <=> fpc[x] = "end"
         /\ fpc[x] = "sleep" => waiter[fjob[x]] = x
         /\ fpc[x] = "awake" => left[fjob[x]] = 0
    /\ wpc[w] \in {"save", "check"} =>
         /\ fpc[x] \in {"awake", "loop"} /\ (fjob[x] = Null <=> fpc[x] = "loop")
         /\ fpc[x] = "awake" => waiter[fjob[x]] = x
    /\ wpc[w] = "check" => saved[x]

\* Only its own worker can wake a fiber before the context is saved.
WakerInv(w, x) ==
  f[w] = x /\ Workers # {Main} =>
    /\ wpc[w] = "run" =>
         /\ fpc[x] = "submit" => fjob[x] \in prog.io
         /\ fpc[x] = "register" => left[fjob[x]] = 0 \/ io[fjob[x]] = w
         /\ fpc[x] = "sleep" => io[fjob[x]] = w
    /\ wpc[w] \in {"save", "check"} /\ fpc[x] = "awake" => io[fjob[x]] = w

WaiterInv(x) ==
  \A i \in Askers : waiter[i] = x =>
    /\ fjob[x] = i /\ ~In(ready, x)
    /\ fpc[x] \in {"sleep", "awake"}
    /\ \A w \in Workers : f[w] = x /\ wpc[w] = "run" => fpc[x] = "sleep"
    /\ ~Held(x) => fpc[x] = "awake" /\ saved[x]

NowhereInv(x) ==
  \/ In(free, x) \/ In(ready, x) \/ Held(x)
  \/ fjob[x] # Null /\ waiter[fjob[x]] = x

\* The main thread waits, is on the ready list or in the hands of a worker, or
\* goes on.
MainInv ==
  /\ \A w \in Workers : In(ready, w) => w = Main
  /\ \A w \in Workers : wpc[w] = "popped" /\ f[w] \in Workers => f[w] = Main
  /\ \A w \in Workers : w # Main => wpc[w] \in LoopPC
  /\ waiter[Main] \in {Main, Null}
  /\ \A j \in Jobs : waiter[j] # Main
  /\ In(ready, Main) => left[Main] = 0 /\ waiter[Main] = Null
  /\ \A w \in Workers : wpc[w] = "popped" /\ f[w] = Main =>
       /\ left[Main] = 0 /\ waiter[Main] = Null /\ ~In(ready, Main)
       /\ \A v \in Workers : wpc[v] = "popped" /\ f[v] = Main => v = w
  /\ wpc[Main] \notin LoopPC =>
       /\ waiter[Main] = Null /\ ~In(ready, Main)
       /\ \A w \in Workers : ~(wpc[w] = "popped" /\ f[w] = Main)
  /\ Returned => left[Main] = 0

PlaceInv ==
  /\ NoTwice(free) /\ NoTwice(ready)
  /\ MainInv
  /\ \A x \in FiberSet : FreeInv(x) /\ ReadyInv(x) /\ WaiterInv(x) /\ NowhereInv(x)
  /\ \A w \in Workers, x \in FiberSet : HeldInv(w, x) /\ WakerInv(w, x)
-----------------------------------------------------------------------------
(* Where a job is                                                            *)

HandedIn == {j \in Jobs : \E i \in Askers : \E n \in 1 .. put[i] : prog.kids[i][n] = j}
Waits(j) == j \in HandedIn /\ ran[j] = 0
Taking(w) == wpc[w] \in {"create", "start"}

QueueInv == NoTwice(queue) /\ \A j \in Jobs : In(queue, j) => Waits(j)

TakenInv(w) ==
  Taking(w) =>
    /\ job[w] # Null /\ Waits(job[w]) /\ ~In(queue, job[w])
    /\ \A v \in Workers : Taking(v) /\ job[v] = job[w] => v = w
    /\ \A x \in FiberSet : fjob[x] # job[w]

CarriedInv(x) ==
  fjob[x] # Null =>
    /\ fjob[x] \in HandedIn /\ ~In(queue, fjob[x])
    /\ \A y \in FiberSet : fjob[y] = fjob[x] => y = x
    /\ ran[fjob[x]] = IF fpc[x] = "loop" THEN 0 ELSE 1
    /\ fjob[x] \in finished <=> fpc[x] = "clear"
    /\ fpc[x] \in {"finish", "clear"} => left[fjob[x]] = 0
    /\ fpc[x] = "submit" /\ fjob[x] \in prog.io => left[fjob[x]] = 1 /\ io[fjob[x]] = Null

Pending(i) == {n \in DOMAIN prog.kids[i] : prog.kids[i][n] \notin finished}

\* The future of an asker counts what it waits for.
LeftInv(i) ==
  /\ i \notin prog.io => left[i] = Cardinality(Pending(i))
  /\ i \in prog.io => left[i] \in {0, 1}

HistoryInv(j) ==
  /\ ran[j] \in {0, 1}
  /\ ran[j] = 0 => put[j] = 0 /\ io[j] = Null /\ (j \in prog.io => left[j] = 1)
  /\ ran[j] = 1 => j \in HandedIn
  /\ j \in finished => ran[j] = 1 /\ left[j] = 0
  /\ io[j] # Null => j \in prog.io /\ left[j] = 1

JobInv ==
  /\ QueueInv
  /\ \A w \in Workers : TakenInv(w)
  /\ \A x \in FiberSet : CarriedInv(x)
  /\ \A i \in Askers : LeftInv(i)
  /\ \A j \in Jobs : HistoryInv(j)
-----------------------------------------------------------------------------
(* When the pool is destroyed nothing is left to do.                         *)
Quiet ==
  /\ queue = <<>> /\ (\A j \in Jobs : io[j] = Null)
  /\ \A x \in FiberSet : ~In(ready, x)
  /\ \A v, w \in Workers : f[v] = f[w] /\ f[v] \in FiberSet => v = w
  /\ \A w \in Workers :
       /\ wpc[w] \notin {"create", "start"}
       /\ wpc[w] = "popped" => f[w] \in Workers
       /\ wpc[w] = "run" => f[w] \in FiberSet /\ fpc[f[w]] \in {"clear", "end"}
       /\ w # Main => wpc[w] \in LoopPC \cup {"exited"}

Started ==
  \A w \in Workers : /\ wpc[w] \in {"start", "run", "save", "check"} /\ failed = "none"
                        => f[w] \in FiberSet
                     /\ wpc[w] = "popped" => f[w] # Null

IInv ==
  /\ TypeOK /\ failed \in {"none", "159f"}
  /\ Started
  /\ IF ShuttingDown THEN Quiet ELSE PlaceInv /\ JobInv
Assumed == NodeAssumption /\ ProgramAssumption
-----------------------------------------------------------------------------
(***************************************************************************)
(* Lists                                                                   *)
(***************************************************************************)
\* Push puts an element before the others.
LEMMA PushList ==
  ASSUME NEW S, NEW list \in Seq(S), NEW e \in S
  PROVE  /\ Push(list, e) \in Seq(S)
         /\ \A y : In(Push(list, e), y) <=> y = e \/ In(list, y)
         /\ NoTwice(list) /\ ~In(list, e) => NoTwice(Push(list, e))
<1> DEFINE new == Push(list, e)
<1>1. /\ new \in Seq(S) /\ Len(new) = Len(list) + 1 /\ Len(list) \in Nat
      /\ new[1] = e /\ \A i \in 1 .. Len(list) : new[i + 1] = list[i]
  BY DEF Push
<1>2. DOMAIN new = 1 .. Len(list) + 1 /\ DOMAIN list = 1 .. Len(list)
  BY <1>1, LenProperties
<1> HIDE DEF new
<1>3. ASSUME NEW y PROVE In(new, y) <=> y = e \/ In(list, y)
  <2>1. ASSUME In(new, y) PROVE y = e \/ In(list, y)
    <3>1. PICK i \in 1 .. Len(list) + 1 : new[i] = y
      BY <1>2, <2>1 DEF In
    <3>2. CASE i = 1
      BY <1>1, <3>1, <3>2
    <3>3. CASE i # 1
      <4>1. i - 1 \in 1 .. Len(list) /\ (i - 1) + 1 = i
        BY <1>1, <3>3
      <4>2. list[i - 1] = y
        BY <1>1, <3>1, <4>1
      <4>3. QED BY <1>2, <4>1, <4>2 DEF In
    <3>4. QED BY <3>2, <3>3
  <2>2. ASSUME In(list, y) PROVE In(new, y)
    <3>1. PICK i \in 1 .. Len(list) : list[i] = y
      BY <1>2, <2>2 DEF In
    <3>2. i + 1 \in 1 .. Len(list) + 1 /\ new[i + 1] = y
      BY <1>1, <3>1
    <3>3. QED BY <1>2, <3>2 DEF In
  <2>3. ASSUME y = e PROVE In(new, y)
    <3>1. 1 \in 1 .. Len(list) + 1
      BY <1>1
    <3>2. QED BY <1>1, <1>2, <2>3, <3>1 DEF In
  <2>4. QED BY <2>1, <2>2, <2>3
<1>4. ASSUME NoTwice(list), ~In(list, e) PROVE NoTwice(new)
  <2>1. SUFFICES ASSUME NEW i \in 1 .. Len(list) + 1, NEW j \in 1 .. Len(list) + 1, new[i] = new[j]
                 PROVE  i = j
    BY <1>2 DEF NoTwice
  <2>2. ASSUME NEW k \in 1 .. Len(list) + 1, k # 1
        PROVE  k - 1 \in 1 .. Len(list) /\ new[k] = list[k - 1] /\ new[k] # e
    <3>1. k - 1 \in 1 .. Len(list) /\ (k - 1) + 1 = k
      BY <1>1, <2>2
    <3>2. new[k] = list[k - 1]
      BY <1>1, <3>1
    <3>3. QED BY <1>2, <1>4, <3>1, <3>2 DEF In
  <2>3. CASE i = 1 \/ j = 1
    BY <1>1, <2>1, <2>2, <2>3
  <2>4. CASE i # 1 /\ j # 1
    <3>1. list[i - 1] = list[j - 1] /\ i - 1 \in 1 .. Len(list) /\ j - 1 \in 1 .. Len(list)
      BY <2>1, <2>2, <2>4
    <3>2. i - 1 = j - 1
      BY <1>2, <1>4, <3>1 DEF NoTwice
    <3>3. QED BY <3>2
  <2>5. QED BY <2>3, <2>4
<1>5. QED BY <1>1, <1>3, <1>4 DEF new

\* Tail leaves what is behind the first element.
LEMMA PopList ==
  ASSUME NEW S, NEW list \in Seq(S), list # <<>>
  PROVE  /\ Head(list) \in S /\ Tail(list) \in Seq(S) /\ In(list, Head(list))
         /\ Len(Tail(list)) = Len(list) - 1
         /\ \A y : In(list, y) <=> y = Head(list) \/ In(Tail(list), y)
         /\ NoTwice(list) => NoTwice(Tail(list)) /\ ~In(Tail(list), Head(list))
<1> DEFINE rest == Tail(list)
<1>1. /\ Head(list) \in S /\ Head(list) = list[1]
      /\ rest \in Seq(S) /\ Len(rest) = Len(list) - 1 /\ Len(list) \in Nat /\ Len(list) >= 1
      /\ \A i \in 1 .. Len(list) - 1 : rest[i] = list[i + 1]
  BY HeadTailProperties, LenProperties, EmptySeq
<1>2. DOMAIN rest = 1 .. Len(list) - 1 /\ DOMAIN list = 1 .. Len(list)
  BY <1>1, LenProperties
<1> HIDE DEF rest
<1>3. In(list, Head(list))
  <2>1. 1 \in 1 .. Len(list)
    BY <1>1
  <2>2. QED BY <1>1, <1>2, <2>1 DEF In
<1>4. ASSUME NEW y PROVE In(list, y) <=> y = Head(list) \/ In(rest, y)
  <2>1. ASSUME In(list, y) PROVE y = Head(list) \/ In(rest, y)
    <3>1. PICK i \in 1 .. Len(list) : list[i] = y
      BY <1>2, <2>1 DEF In
    <3>2. CASE i = 1
      BY <1>1, <3>1, <3>2
    <3>3. CASE i # 1
      <4>1. i - 1 \in 1 .. Len(list) - 1 /\ (i - 1) + 1 = i
        BY <1>1, <3>3
      <4>2. rest[i - 1] = y
        BY <1>1, <3>1, <4>1
      <4>3. QED BY <1>2, <4>1, <4>2 DEF In
    <3>4. QED BY <3>2, <3>3
  <2>2. ASSUME In(rest, y) PROVE In(list, y)
    <3>1. PICK i \in 1 .. Len(list) - 1 : rest[i] = y
      BY <1>2, <2>2 DEF In
    <3>2. i + 1 \in 1 .. Len(list) /\ list[i + 1] = y
      BY <1>1, <3>1
    <3>3. QED BY <1>2, <3>2 DEF In
  <2>3. QED BY <1>3, <2>1, <2>2
<1>5. ASSUME NoTwice(list) PROVE NoTwice(rest) /\ ~In(rest, Head(list))
  <2>1. ASSUME NEW i \in 1 .. Len(list) - 1
        PROVE  i + 1 \in 1 .. Len(list) /\ rest[i] = list[i + 1]
    BY <1>1
  <2>2. NoTwice(rest)
    <3>1. SUFFICES ASSUME NEW i \in 1 .. Len(list) - 1, NEW j \in 1 .. Len(list) - 1, rest[i] = rest[j]
                   PROVE  i = j
      BY <1>2 DEF NoTwice
    <3>2. i + 1 = j + 1
      BY <1>2, <1>5, <2>1, <3>1 DEF NoTwice
    <3>3. QED BY <3>2
  <2>3. ASSUME In(rest, Head(list)) PROVE FALSE
    <3>1. PICK i \in 1 .. Len(list) - 1 : rest[i] = list[1]
      BY <1>1, <1>2, <2>3 DEF In
    <3>2. 1 \in 1 .. Len(list) /\ i + 1 \in 1 .. Len(list) /\ list[i + 1] = list[1]
      BY <1>1, <1>2, <1>5, <2>1, <3>1
    <3>3. i + 1 = 1
      BY <1>2, <1>5, <3>2 DEF NoTwice
    <3>4. QED BY <3>3
  <2>4. QED BY <2>2, <2>3
<1>6. QED BY <1>1, <1>3, <1>4, <1>5 DEF rest

\* Append puts an element behind the others.
LEMMA AppendList ==
  ASSUME NEW S, NEW list \in Seq(S), NEW e \in S
  PROVE  /\ Append(list, e) \in Seq(S) /\ Len(Append(list, e)) = Len(list) + 1
         /\ \A y : In(Append(list, e), y) <=> y = e \/ In(list, y)
         /\ NoTwice(list) /\ ~In(list, e) => NoTwice(Append(list, e))
<1> DEFINE new == Append(list, e)
<1>1. /\ new \in Seq(S) /\ Len(new) = Len(list) + 1 /\ Len(list) \in Nat
      /\ new[Len(list) + 1] = e /\ \A i \in 1 .. Len(list) : new[i] = list[i]
  BY AppendProperties, LenProperties
<1>2. DOMAIN new = 1 .. Len(list) + 1 /\ DOMAIN list = 1 .. Len(list)
  BY <1>1, LenProperties
<1> HIDE DEF new
<1>3. \A i \in 1 .. Len(list) + 1 : i = Len(list) + 1 \/ i \in 1 .. Len(list)
  BY <1>1
<1>4. \A i \in 1 .. Len(list) : i \in 1 .. Len(list) + 1 /\ i # Len(list) + 1
  BY <1>1
<1>5. Len(list) + 1 \in 1 .. Len(list) + 1
  BY <1>1
<1>6. ASSUME NEW y PROVE In(new, y) <=> y = e \/ In(list, y)
  BY <1>1, <1>2, <1>3, <1>4, <1>5 DEF In
<1>7. ASSUME NoTwice(list), ~In(list, e) PROVE NoTwice(new)
  BY <1>1, <1>2, <1>3, <1>4, <1>5, <1>7 DEF In, NoTwice
<1>8. QED BY <1>1, <1>6, <1>7 DEF new
-----------------------------------------------------------------------------
(***************************************************************************)
(* Fibers: what a step leaves in place                                     *)
(***************************************************************************)
LEMMA Names ==
  ASSUME Assumed
  PROVE  /\ Main \in Workers /\ Main \in Askers /\ Main \notin Jobs /\ Main \notin FiberSet
         /\ Null \notin Workers /\ Null \notin FiberSet /\ Null \notin Jobs /\ Null \notin Askers
         /\ \A w \in Workers : w \notin FiberSet
BY DEF Assumed, NodeAssumption, Askers

\* The fibers whose worker goes on with other things stay where they are.
LEMMA PlaceFrame ==
  ASSUME Assumed, TypeOK, PlaceInv, prog' = prog,
         free' = free, fpc' = fpc, fjob' = fjob, saved' = saved, left' = left, io' = io,
         \A y \in FiberSet : In(ready', y) <=> In(ready, y),
         \A v \in Workers, y \in FiberSet : f'[v] = y <=> f[v] = y,
         \A v \in Workers : f[v] \in FiberSet => wpc'[v] = wpc[v],
         \A i \in Askers, y \in FiberSet : waiter'[i] = y <=> waiter[i] = y,
         NoTwice(ready'), MainInv'
  PROVE  PlaceInv'
<1>1. \A x \in FiberSet : /\ FreeInv(x) /\ ReadyInv(x) /\ WaiterInv(x) /\ NowhereInv(x)
                          /\ \A w \in Workers : HeldInv(w, x) /\ WakerInv(w, x)
  BY DEF PlaceInv
<1>2. \A x \in FiberSet : (Woken(x) => Woken(x)') /\ (Held(x)' <=> Held(x))
  BY DEF Woken, Unawaited, Held
<1>3. \A x \in FiberSet : fjob[x] \in Jobs \cup {Null}
  BY DEF TypeOK
<1>4. ASSUME NEW x \in FiberSet
      PROVE  FreeInv(x)' /\ ReadyInv(x)'
  BY <1>1, <1>2 DEF FreeInv, ReadyInv
<1>5. ASSUME NEW x \in FiberSet PROVE WaiterInv(x)'
  <2>1. ASSUME NEW w \in Workers, f'[w] = x PROVE f[w] = x /\ wpc'[w] = wpc[w]
    BY <2>1
  <2>2. QED BY <1>1, <1>2, <2>1 DEF WaiterInv
<1>6. ASSUME NEW x \in FiberSet PROVE NowhereInv(x)'
  <2>1. fjob[x] # Null => fjob[x] \in Askers
    BY <1>3 DEF Askers
  <2>2. QED BY <1>1, <1>2, <2>1 DEF NowhereInv
<1>7. ASSUME NEW x \in FiberSet, NEW w \in Workers PROVE HeldInv(w, x)' /\ WakerInv(w, x)'
  <2>1. SUFFICES ASSUME f[w] = x PROVE HeldInv(w, x)' /\ WakerInv(w, x)'
    BY DEF HeldInv, WakerInv
  <2>2. wpc'[w] = wpc[w] /\ HeldInv(w, x) /\ WakerInv(w, x)
    BY <1>1, <2>1
  <2>3. \A i \in Askers : waiter[i] = x => waiter'[i] = x
    OBVIOUS
  <2>4. fjob[x] # Null => fjob[x] \in Askers
    BY <1>3 DEF Askers
  <2>5. HeldInv(w, x)'
    <3>1. \A v \in Workers : f'[v] = x => v = w
      BY <2>1, <2>2 DEF HeldInv
    <3>2. wpc'[w] \in {"save", "check"} => (fpc[x] = "awake" => waiter'[fjob[x]] = x)
      BY <2>1, <2>2, <2>3, <2>4 DEF HeldInv
    <3>3. wpc'[w] = "run" => (fpc[x] = "sleep" => waiter'[fjob[x]] = x)
      BY <2>1, <2>2, <2>3, <2>4 DEF HeldInv
    <3>4. QED BY <1>2, <2>1, <2>2, <3>1, <3>2, <3>3 DEF HeldInv
  <2>6. WakerInv(w, x)'
    BY <2>1, <2>2 DEF WakerInv
  <2>7. QED BY <2>5, <2>6
<1>8. QED BY <1>4, <1>5, <1>6, <1>7 DEF PlaceInv

\* Two fibers do not carry the same job.
OneCarrier == \A x, y \in FiberSet : fjob[x] # Null /\ fjob[y] = fjob[x] => y = x

\* A worker and the fiber in its hands go on; the other fibers do not notice.
LEMMA LocalPlace ==
  ASSUME Assumed, TypeOK, PlaceInv, OneCarrier,
         NEW w \in Workers, NEW x \in FiberSet, f[w] = x,
         prog' = prog, free' = free, ready' = ready, f' = f, left' = left,
         \A v \in Workers : v # w => wpc'[v] = wpc[v],
         wpc'[w] \in HoldPC \ {"popped"},
         \A y \in FiberSet : y # x => fpc'[y] = fpc[y] /\ fjob'[y] = fjob[y] /\ saved'[y] = saved[y],
         \/ waiter' = waiter
         \/ fjob[x] # Null /\ waiter' = [waiter EXCEPT ![fjob[x]] = x],
         \A j \in Jobs : j # fjob[x] => io'[j] = io[j],
         HeldInv(w, x)', WakerInv(w, x)', WaiterInv(x)'
  PROVE  PlaceInv'
<1>1. \A y \in FiberSet : /\ FreeInv(y) /\ ReadyInv(y) /\ WaiterInv(y) /\ NowhereInv(y)
                          /\ \A v \in Workers : HeldInv(v, y) /\ WakerInv(v, y)
  BY DEF PlaceInv
<1>2. /\ waiter \in [Askers -> FiberSet \cup {Main, Null}]
      /\ \A y \in FiberSet : fjob[y] \in Jobs \cup {Null} /\ (fjob[y] # Null => fjob[y] \in Askers)
      /\ wpc[w] \in HoldPC
  BY <1>1 DEF TypeOK, Askers, HeldInv
<1>3. ~In(free, x) /\ ~In(ready, x) /\ \A v \in Workers : f[v] = x => v = w
  BY <1>1 DEF HeldInv
<1>4. ASSUME NEW y \in FiberSet, y # x
      PROVE  /\ fpc'[y] = fpc[y] /\ fjob'[y] = fjob[y] /\ saved'[y] = saved[y]
             /\ Held(y)' <=> Held(y)
             /\ \A i \in Askers : waiter'[i] = y => waiter[i] = y
             /\ fjob[y] # Null /\ waiter[fjob[y]] = y => waiter'[fjob[y]] = y
             /\ \A v \in Workers : f[v] = y => v # w /\ wpc'[v] = wpc[v]
             /\ fjob[y] # Null => io'[fjob[y]] = io[fjob[y]]
             /\ Woken(y) => Woken(y)'
  <2>1. fjob[y] # Null => fjob[y] # fjob[x]
    BY <1>4 DEF OneCarrier
  <2>2. \A i \in Askers : waiter'[i] = y => waiter[i] = y
    BY <1>2, <1>4
  <2>3. Woken(y) => Woken(y)'
    BY <1>4, <2>2 DEF Woken, Unawaited
  <2>4. QED BY <1>2, <1>4, <2>1, <2>2, <2>3 DEF Held
<1>5. NoTwice(free)' /\ NoTwice(ready)'
  BY DEF PlaceInv
<1>6. MainInv'
  <2>1. /\ \A v \in Workers : wpc'[v] = "popped" /\ f[v] \notin FiberSet => wpc[v] = "popped"
        /\ \A v \in Workers : wpc[v] = "popped" /\ f[v] \notin FiberSet => wpc'[v] = "popped"
    OBVIOUS
  <2>2. wpc'[w] \in LoopPC /\ wpc[w] \in LoopPC /\ wpc'[w] # "popped"
    BY <1>2 DEF HoldPC, LoopPC
  <2>3. waiter'[Main] = waiter[Main] /\ \A j \in Jobs : waiter'[j] # Main
    BY <1>2, Names DEF PlaceInv, MainInv, Askers
  <2>8. wpc'[Main] = wpc[Main] \/ (wpc'[Main] \in LoopPC /\ wpc[Main] \in LoopPC)
    <3>1. Main \in Workers
      BY Names
    <3>2. CASE Main = w
      BY <2>2, <3>2
    <3>3. CASE Main # w
      BY <3>1, <3>3
    <3>4. QED BY <3>2, <3>3
  <2>4. Returned' <=> Returned
    BY <2>8 DEF Returned, LoopPC
  <2>5. \A v \in Workers : v # Main => wpc'[v] \in LoopPC
    BY <2>2 DEF PlaceInv, MainInv
  <2>6. wpc'[Main] \in LoopPC <=> wpc[Main] \in LoopPC
    BY <2>8
  <2>7. QED BY <2>1, <2>2, <2>3, <2>4, <2>5, <2>6, Names DEF PlaceInv, MainInv
<1>7. ASSUME NEW y \in FiberSet, NEW v \in Workers
      PROVE  HeldInv(v, y)' /\ WakerInv(v, y)'
  <2>1. SUFFICES ASSUME f[v] = y, y # x PROVE HeldInv(v, y)' /\ WakerInv(v, y)'
    BY <1>3 DEF HeldInv, WakerInv
  <2>2. HeldInv(v, y)'
    BY <1>1, <1>4, <2>1 DEF HeldInv
  <2>3. fpc[y] = "awake" /\ wpc[v] \in {"save", "check"} => fjob[y] # Null
    BY <1>1, <2>1 DEF HeldInv
  <2>4. fpc[y] \in {"submit", "register", "sleep"} /\ wpc[v] = "run" => fjob[y] # Null
    BY <1>1, <2>1 DEF HeldInv
  <2>5. WakerInv(v, y)'
    BY <1>1, <1>4, <2>1, <2>3, <2>4 DEF WakerInv
  <2>6. QED BY <2>2, <2>5
<1>8. ASSUME NEW y \in FiberSet
      PROVE  FreeInv(y)' /\ ReadyInv(y)' /\ WaiterInv(y)' /\ NowhereInv(y)'
  <2>1. CASE y = x
    BY <1>3, <2>1 DEF FreeInv, ReadyInv, NowhereInv, Held
  <2>2. CASE y # x
    <3>1. FreeInv(y)' /\ ReadyInv(y)'
      BY <1>1, <1>4, <2>2 DEF FreeInv, ReadyInv
    <3>2. WaiterInv(y)'
      BY <1>1, <1>4, <2>2 DEF WaiterInv
    <3>3. NowhereInv(y)'
      BY <1>1, <1>4, <2>2 DEF NowhereInv
    <3>4. QED BY <3>1, <3>2, <3>3
  <2>3. QED BY <2>1, <2>2
<1>9. QED BY <1>5, <1>6, <1>7, <1>8 DEF PlaceInv

\* One fiber goes from a list to a worker or back; the others do not notice.
LEMMA MovePlace ==
  ASSUME Assumed, TypeOK, PlaceInv, NEW x \in FiberSet,
         prog' = prog, left' = left, io' = io, waiter' = waiter,
         fpc' = fpc, fjob' = fjob, saved' = saved,
         \A y \in FiberSet : y # x =>
            /\ In(free', y) <=> In(free, y)
            /\ In(ready', y) <=> In(ready, y)
            /\ \A v \in Workers : f'[v] = y <=> f[v] = y,
         \A v \in Workers : f[v] \in FiberSet /\ f[v] # x => wpc'[v] = wpc[v],
         FreeInv(x)', ReadyInv(x)', WaiterInv(x)', NowhereInv(x)',
         \A v \in Workers : HeldInv(v, x)' /\ WakerInv(v, x)',
         NoTwice(free'), NoTwice(ready'), MainInv'
  PROVE  PlaceInv'
<1>1. \A y \in FiberSet : /\ FreeInv(y) /\ ReadyInv(y) /\ WaiterInv(y) /\ NowhereInv(y)
                          /\ \A v \in Workers : HeldInv(v, y) /\ WakerInv(v, y)
  BY DEF PlaceInv
<1>2. ASSUME NEW y \in FiberSet, y # x
      PROVE  (Woken(y) => Woken(y)') /\ (Held(y)' <=> Held(y))
  BY <1>2 DEF Woken, Unawaited, Held
<1>3. ASSUME NEW y \in FiberSet, y # x
      PROVE  FreeInv(y)' /\ ReadyInv(y)' /\ NowhereInv(y)'
  BY <1>1, <1>2, <1>3 DEF FreeInv, ReadyInv, NowhereInv
<1>4. ASSUME NEW y \in FiberSet, y # x PROVE WaiterInv(y)'
  <2>1. ASSUME NEW w \in Workers, f'[w] = y PROVE f[w] = y /\ wpc'[w] = wpc[w]
    BY <1>4, <2>1
  <2>2. QED BY <1>1, <1>2, <1>4, <2>1 DEF WaiterInv
<1>5. ASSUME NEW y \in FiberSet, y # x, NEW w \in Workers
      PROVE  HeldInv(w, y)' /\ WakerInv(w, y)'
  <2>1. SUFFICES ASSUME f[w] = y PROVE HeldInv(w, y)' /\ WakerInv(w, y)'
    BY <1>5 DEF HeldInv, WakerInv
  <2>2. wpc'[w] = wpc[w] /\ HeldInv(w, y) /\ WakerInv(w, y)
    BY <1>1, <1>5, <2>1
  <2>3. HeldInv(w, y)'
    BY <1>2, <1>5, <2>1, <2>2 DEF HeldInv
  <2>4. WakerInv(w, y)'
    BY <2>1, <2>2 DEF WakerInv
  <2>5. QED BY <2>3, <2>4
<1>6. QED BY <1>3, <1>4, <1>5 DEF PlaceInv

\* The value of the future of i goes down, and wakes whoever waits for 0 and is
\* in nobody's hands.
LEMMA DecrPlace ==
  ASSUME Assumed, TypeOK, PlaceInv, NEW i \in Askers, left[i] \in Nat \ {0},
         prog' = prog, free' = free, f' = f, wpc' = wpc, fjob' = fjob, saved' = saved,
         failed = "none", Decr(i),
         \A w \in Workers : waiter[i] \in FiberSet => f[w] # waiter[i],
         \A y \in FiberSet : \/ fpc'[y] = fpc[y]
                             \/ /\ fpc[y] = "finish" /\ fpc'[y] = "clear"
                                /\ \E w \in Workers : f[w] = y /\ wpc[w] = "run",
         \A j \in Jobs : j # i \/ left[i] # 1 => io'[j] = io[j]
  PROVE  PlaceInv' /\ failed' = "none"
<1>1. \A y \in FiberSet : /\ FreeInv(y) /\ ReadyInv(y) /\ WaiterInv(y) /\ NowhereInv(y)
                          /\ \A v \in Workers : HeldInv(v, y) /\ WakerInv(v, y)
  BY DEF PlaceInv
<1>2. /\ waiter \in [Askers -> FiberSet \cup {Main, Null}] /\ left \in [Askers -> Nat]
      /\ ready \in Seq(FiberSet \cup Workers)
      /\ \A y \in FiberSet : fjob[y] \in Jobs \cup {Null} /\ (fjob[y] # Null => fjob[y] \in Askers)
  <2>1. Cardinality(Jobs) \in Nat
    BY FS_CardinalityType DEF Assumed, ProgramAssumption
  <2>2. QED BY <2>1 DEF TypeOK, Askers
<1>3. /\ left'[i] = left[i] - 1
      /\ \A k \in Askers : k # i => left'[k] = left[k]
      /\ \A k \in Askers : left[k] = 0 => left'[k] = 0
  BY <1>2 DEF Decr
<1>4. \A k \in Askers : waiter'[k] = IF k = i /\ left[i] = 1 THEN Null ELSE waiter[k]
  BY <1>2 DEF Decr
<1> DEFINE y0 == waiter[i]
           wakes == left[i] = 1 /\ waiter[i] # Null
<1>5. ASSUME wakes, y0 \in FiberSet
      PROVE  /\ fjob[y0] = i /\ ~In(ready, y0) /\ fpc[y0] = "awake" /\ saved[y0]
             /\ ~In(free, y0) /\ ~Held(y0)
             /\ \A k \in Askers : waiter[k] = y0 => k = i
  <2>1. ~Held(y0) /\ \A k \in Askers : waiter[k] = y0 => fjob[y0] = k
    BY <1>1, <1>5 DEF Held, WaiterInv
  <2>2. fjob[y0] = i /\ ~In(ready, y0) /\ fpc[y0] = "awake" /\ saved[y0]
    BY <1>1, <1>5, <2>1 DEF WaiterInv
  <2>3. ~In(free, y0)
    BY <1>1, <1>5, <2>2, Names DEF FreeInv
  <2>4. QED BY <2>1, <2>2, <2>3
<1>6. ASSUME wakes, y0 \notin FiberSet
      PROVE  y0 = Main /\ i = Main /\ ~In(ready, Main)
  BY <1>2, <1>6, Names DEF PlaceInv, MainInv, Askers
<1>7. wakes => y0 \in FiberSet \cup Workers /\ ~In(ready, y0)
  BY <1>2, <1>5, <1>6, Names
<1>8. /\ failed' = "none" /\ NoTwice(ready')
      /\ \A y : In(ready', y) <=> In(ready, y) \/ (wakes /\ y = y0)
  <2>1. CASE wakes
    <3>1. ready' = Push(ready, y0) /\ Ready(y0)
      BY <2>1 DEF Decr, Ready
    <3>2. NoTwice(ready)
      BY DEF PlaceInv
    <3>3. NoTwice(ready') /\ \A y : In(ready', y) <=> In(ready, y) \/ y = y0
      BY <1>2, <1>7, <2>1, <3>1, <3>2, PushList
    <3>4. ready # <<>> => Head(ready) # y0
      BY <1>2, <1>7, <2>1, PopList
    <3>5. y0 \in FiberSet => fjob[y0] # Null
      BY <1>5, <2>1, Names
    <3>6. failed' = "none"
      BY <3>1, <3>4, <3>5 DEF Ready, Assert
    <3>7. QED BY <2>1, <3>3, <3>6
  <2>2. CASE ~wakes
    BY <2>2 DEF Decr, PlaceInv
  <2>3. QED BY <2>1, <2>2
<1>9. ASSUME NEW y \in FiberSet, Woken(y) PROVE Woken(y)'
  BY <1>2, <1>3, <1>4, <1>9, Names DEF Woken, Unawaited
<1>10. ASSUME NEW y \in FiberSet, wakes, y = y0 PROVE Woken(y)'
  <2>1. fpc'[y] = "awake" /\ left'[i] = 0
    BY <1>3, <1>5, <1>10
  <2>2. Unawaited(y)'
    BY <1>4, <1>5, <1>10, Names DEF Unawaited
  <2>3. QED BY <1>5, <1>10, <2>1, <2>2, Names DEF Woken
<1> HIDE DEF wakes, y0
<1>11. ASSUME NEW y \in FiberSet
       PROVE  /\ FreeInv(y)' /\ ReadyInv(y)'
              /\ NowhereInv(y)' /\ (Held(y)' <=> Held(y))
  <2>1. Held(y)' <=> Held(y)
    BY DEF Held
  <2>2. ReadyInv(y)'
    BY <1>1, <1>8, <1>9, <1>10 DEF ReadyInv
  <2>3. FreeInv(y)'
    BY <1>1, <1>5, <1>8 DEF FreeInv
  <2>4. NowhereInv(y)'
    BY <1>1, <1>2, <1>4, <1>8, <2>1 DEF NowhereInv, wakes, y0
  <2>5. QED BY <2>1, <2>2, <2>3, <2>4
<1>12. ASSUME NEW y \in FiberSet PROVE WaiterInv(y)'
  <2>1. SUFFICES ASSUME NEW k \in Askers, waiter'[k] = y
                 PROVE  /\ fjob[y] = k /\ ~In(ready', y)
                        /\ fpc'[y] \in {"sleep", "awake"}
                        /\ \A w \in Workers : f[w] = y /\ wpc[w] = "run" => fpc'[y] = "sleep"
                        /\ ~Held(y) => fpc'[y] = "awake" /\ saved[y]
    BY <1>11 DEF WaiterInv
  <2>2. waiter[k] = y /\ (k # i \/ left[i] # 1)
    BY <1>4, <2>1, Names
  <2>3. fpc[y] # "finish" /\ fjob[y] = k /\ ~In(ready, y)
    BY <1>1, <2>2 DEF WaiterInv
  <2>4. ~(wakes /\ y = y0)
    BY <1>5, <2>2 DEF wakes, y0
  <2>5. QED BY <1>1, <1>8, <2>2, <2>3, <2>4 DEF WaiterInv
<1>13. ASSUME NEW y \in FiberSet, NEW w \in Workers
       PROVE  HeldInv(w, y)' /\ WakerInv(w, y)'
  <2>1. SUFFICES ASSUME f[w] = y PROVE HeldInv(w, y)' /\ WakerInv(w, y)'
    BY DEF HeldInv, WakerInv
  <2>2. ~(wakes /\ y = y0)
    BY <1>5, <2>1 DEF Held, wakes, y0
  <2>3. \A k \in Askers : waiter[k] = y => waiter'[k] = y
    BY <1>4, <2>1, <2>2, Names DEF wakes, y0
  <2>4. HeldInv(w, y) /\ WakerInv(w, y)
    BY <1>1
  <2>5. fpc[y] = "finish" /\ fpc'[y] = "clear" => wpc[w] = "run"
    <3>1. SUFFICES ASSUME fpc[y] = "finish", fpc'[y] = "clear" PROVE wpc[w] = "run"
      OBVIOUS
    <3>2. PICK v \in Workers : f[v] = y /\ wpc[v] = "run"
      BY <3>1
    <3>3. v = w
      BY <1>1, <2>1, <3>2 DEF HeldInv
    <3>4. QED BY <3>2, <3>3
  <2>6. HeldInv(w, y)'
    BY <1>2, <1>3, <1>8, <1>9, <2>1, <2>2, <2>3, <2>4, <2>5 DEF HeldInv
  <2>7. WakerInv(w, y)'
    <3>1. SUFFICES ASSUME Workers # {Main} PROVE WakerInv(w, y)'
      BY DEF WakerInv
    <3>2. wpc[w] = "run" /\ fpc[y] \in {"register", "sleep"} => fjob[y] \in Jobs
      BY <1>2, <2>1, <2>4 DEF HeldInv
    <3>3. wpc[w] \in {"save", "check"} /\ fpc[y] = "awake" => fjob[y] \in Jobs
      BY <1>2, <2>1, <2>4 DEF HeldInv
    <3>4. fpc[y] = "register" /\ fjob[y] = i /\ left[i] = 1 => left'[i] = 0
      BY <1>3
    <3>5. wpc[w] = "run" /\ fpc[y] = "sleep" => waiter[fjob[y]] = y
      BY <2>1, <2>4 DEF HeldInv
    <3>6. wpc[w] \in {"save", "check"} /\ fpc[y] = "awake" => waiter[fjob[y]] = y
      BY <2>1, <2>4 DEF HeldInv
    <3>7. waiter[fjob[y]] = y /\ fjob[y] \in Jobs => fjob[y] # i \/ left[i] # 1
      BY <2>2, Names DEF wakes, y0
    <3>8. \A j \in Jobs : j \in Askers
      BY DEF Askers
    <3>9. wpc[w] = "run" /\ fpc'[y] = "register" => left'[fjob[y]] = 0 \/ io'[fjob[y]] = w
      BY <1>3, <2>1, <2>4, <3>1, <3>2, <3>4, <3>8 DEF WakerInv
    <3>10. QED BY <2>1, <2>4, <3>1, <3>2, <3>3, <3>5, <3>6, <3>7, <3>9 DEF WakerInv
  <2>8. QED BY <2>6, <2>7
<1>14. MainInv'
  <2>1. \A w \in Workers : In(ready', w) <=> In(ready, w) \/ (wakes /\ w = y0)
    BY <1>8
  <2>2. MainInv
    BY DEF PlaceInv
  <2>3. waiter'[Main] \in {Main, Null} /\ \A j \in Jobs : waiter'[j] # Main
    BY <1>4, <2>2, Names DEF MainInv, Askers
  <2>4. waiter[Main] = Null => waiter'[Main] = Null
    BY <1>4, Names
  <2>5. left[Main] = 0 => left'[Main] = 0
    BY <1>3, Names
  <2>6. In(ready', Main) => left'[Main] = 0 /\ waiter'[Main] = Null
    BY <1>3, <1>4, <1>6, <2>1, <2>2, <2>4, <2>5, Names DEF MainInv, wakes, y0
  <2>7. In(ready', Main) /\ ~In(ready, Main) => waiter[Main] = Main
    BY <1>6, <2>1, Names DEF y0
  <2>8. \A w \in Workers : In(ready', w) => w = Main
    BY <1>6, <2>1, <2>2, Names DEF MainInv
  <2>9. Returned' <=> Returned
    BY DEF Returned
  <2>10. waiter[Main] = Null => ~In(ready', Main) \/ In(ready, Main)
    BY <2>7, Names
  <2>11. QED BY <2>2, <2>3, <2>4, <2>5, <2>6, <2>8, <2>9, <2>10, Names DEF MainInv
<1>15. QED BY <1>8, <1>11, <1>12, <1>13, <1>14 DEF PlaceInv
-----------------------------------------------------------------------------
(***************************************************************************)
(* Jobs: what a step leaves in place                                       *)
(***************************************************************************)
\* The program, by its parts.
LEMMA Program ==
  ASSUME Assumed, prog \in Programs
  PROVE  /\ prog.io \subseteq Jobs /\ Main \notin prog.io
         /\ \A i \in Askers :
              /\ prog.kids[i] \in Seq(Jobs) /\ DOMAIN prog.kids[i] = 1 .. Len(prog.kids[i])
              /\ Len(prog.kids[i]) \in Nat
              /\ \A n \in 1 .. Len(prog.kids[i]) : prog.kids[i][n] \in Jobs /\ i \notin prog.io
              /\ i \in prog.io => prog.kids[i] = <<>>
         /\ \A i, k \in Askers : \A m \in DOMAIN prog.kids[i], n \in DOMAIN prog.kids[k] :
              prog.kids[i][m] = prog.kids[k][n] => i = k /\ m = n
<1>1. /\ prog.io \subseteq Jobs
      /\ \A i \in Askers : prog.kids[i] \in Seq(Jobs) /\ (i \in prog.io => prog.kids[i] = <<>>)
      /\ \A i, k \in Askers : \A m \in DOMAIN prog.kids[i], n \in DOMAIN prog.kids[k] :
           prog.kids[i][m] = prog.kids[k][n] => i = k /\ m = n
  BY DEF Assumed, ProgramAssumption
<1>2. ASSUME NEW i \in Askers
      PROVE  /\ DOMAIN prog.kids[i] = 1 .. Len(prog.kids[i])
             /\ Len(prog.kids[i]) \in Nat
             /\ \A n \in 1 .. Len(prog.kids[i]) : prog.kids[i][n] \in Jobs /\ i \notin prog.io
  <2>1. DOMAIN prog.kids[i] = 1 .. Len(prog.kids[i]) /\ Len(prog.kids[i]) \in Nat
    BY <1>1, LenProperties
  <2>2. \A n \in 1 .. Len(prog.kids[i]) : prog.kids[i][n] \in Jobs
    BY <1>1, <2>1, ElementOfSeq
  <2>3. i \in prog.io => Len(prog.kids[i]) = 0
    BY <1>1
  <2>4. QED BY <2>1, <2>2, <2>3
<1>3. QED BY <1>1, <1>2, Names

LEMMA OwnerOf ==
  ASSUME Assumed, prog \in Programs, NEW i \in Askers, NEW n \in DOMAIN prog.kids[i]
  PROVE  Owner(prog.kids[i][n]) = i
<1> DEFINE P(k) == \E m \in DOMAIN prog.kids[k] : prog.kids[k][m] = prog.kids[i][n]
<1>1. P(i)
  OBVIOUS
<1>2. \A k \in Askers : P(k) => k = i
  BY Program
<1>3. (CHOOSE k \in Askers : P(k)) = i
  BY <1>1, <1>2
<1>4. QED BY <1>3 DEF Owner

\* What an asker waits for are distinct jobs.
LEMMA PendingFinite ==
  ASSUME Assumed, prog \in Programs, NEW i \in Askers
  PROVE  /\ IsFiniteSet(Pending(i)) /\ Cardinality(Pending(i)) \in Nat
         /\ Cardinality(Jobs) \in Nat /\ Len(prog.kids[i]) <= Cardinality(Jobs)
         /\ i \in Jobs => 1 <= Cardinality(Jobs)
<1> DEFINE N == Len(prog.kids[i])
<1>1. /\ prog.kids[i] \in [1 .. N -> Jobs] /\ N \in Nat
      /\ \A m, n \in 1 .. N : prog.kids[i][m] = prog.kids[i][n] => m = n
  <2>1. /\ DOMAIN prog.kids[i] = 1 .. N /\ N \in Nat /\ prog.kids[i] \in Seq(Jobs)
        /\ \A m, n \in 1 .. N : prog.kids[i][m] = prog.kids[i][n] => m = n
    BY Program
  <2>2. prog.kids[i] \in [1 .. N -> Jobs]
    BY <2>1, LenProperties
  <2>3. QED BY <2>1, <2>2
<1>2. IsFiniteSet(Jobs) /\ Cardinality(Jobs) \in Nat
  BY FS_CardinalityType DEF Assumed, ProgramAssumption
<1>3. prog.kids[i] \in Injection(1 .. N, Jobs)
  BY <1>1 DEF Injection, IsInjective
<1>4. Cardinality(1 .. N) = N /\ IsFiniteSet(1 .. N)
  <2>1. N \in Nat
    BY <1>1
  <2>2. Cardinality(1 .. N) = N
    BY <2>1, FS_Interval
  <2>3. IsFiniteSet(1 .. N)
    BY <2>1, FS_Interval
  <2>4. QED BY <2>2, <2>3
<1>5. N <= Cardinality(Jobs)
  BY <1>2, <1>3, <1>4, FS_Injection
<1>6. Pending(i) \subseteq 1 .. N
  BY <1>1 DEF Pending
<1>7. IsFiniteSet(Pending(i)) /\ Cardinality(Pending(i)) \in Nat
  BY <1>4, <1>6, FS_Subset, FS_CardinalityType
<1>8. i \in Jobs => 1 <= Cardinality(Jobs)
  <2>1. SUFFICES ASSUME i \in Jobs PROVE Cardinality(Jobs) # 0
    BY <1>2
  <2>2. QED BY <1>2, <2>1, FS_EmptySet
<1>9. QED BY <1>2, <1>5, <1>7, <1>8

\* Workers and fibers that go on between two decisions leave the jobs alone.
LEMMA JobFrame ==
  ASSUME Assumed, TypeOK, JobInv, prog' = prog, queue' = queue, put' = put, ran' = ran,
         finished' = finished, left' = left, io' = io, fjob' = fjob,
         \A v \in Workers : Taking(v)' => Taking(v) /\ job'[v] = job[v],
         \A x \in FiberSet :
            \/ fpc'[x] = fpc[x] \/ fjob[x] = Null
            \/ /\ fpc[x] \notin {"loop", "clear"}
               /\ fpc'[x] \in {"register", "sleep", "awake", "finish"}
               /\ fpc'[x] = "finish" => left[fjob[x]] = 0
  PROVE  JobInv'
<1>1. HandedIn' = HandedIn /\ \A j : Waits(j)' <=> Waits(j)
  BY DEF HandedIn, Waits
<1>2. QueueInv'
  BY <1>1 DEF JobInv, QueueInv
<1>3. ASSUME NEW w \in Workers PROVE TakenInv(w)'
  <2>1. SUFFICES ASSUME Taking(w)' PROVE TakenInv(w)'
    BY DEF TakenInv
  <2>2. Taking(w) /\ job'[w] = job[w] /\ TakenInv(w)
    BY <2>1 DEF JobInv
  <2>3. \A v \in Workers : Taking(v)' /\ job'[v] = job'[w] => v = w
    BY <2>2 DEF TakenInv
  <2>4. QED BY <1>1, <2>2, <2>3 DEF TakenInv
<1>4. ASSUME NEW x \in FiberSet PROVE CarriedInv(x)'
  <2>1. CarriedInv(x)
    BY DEF JobInv
  <2>2. CASE fpc'[x] = fpc[x] \/ fjob[x] = Null
    BY <1>1, <2>1, <2>2 DEF CarriedInv
  <2>3. CASE /\ fpc[x] \notin {"loop", "clear"}
             /\ fpc'[x] \in {"register", "sleep", "awake", "finish"}
             /\ fpc'[x] = "finish" => left[fjob[x]] = 0
    BY <1>1, <2>1, <2>3 DEF CarriedInv
  <2>4. QED BY <2>2, <2>3
<1>5. ASSUME NEW i \in Askers PROVE LeftInv(i)'
  BY DEF JobInv, LeftInv, Pending
<1>6. ASSUME NEW j \in Jobs PROVE HistoryInv(j)'
  BY <1>1 DEF JobInv, HistoryInv
<1>7. QED BY <1>2, <1>3, <1>4, <1>5, <1>6 DEF JobInv

\* A job that is taken from the queue is at no other place.
LEMMA NextJobKeeps ==
  ASSUME Assumed, TypeOK, JobInv, NEW w \in Workers, NextJob(w)
  PROVE  JobInv'
<1>1. CASE queue = <<>>
  <2>1. \A v \in Workers : Taking(v)' => Taking(v) /\ job'[v] = job[v]
    BY <1>1 DEF NextJob, Goto, TypeOK, Taking
  <2>2. QED BY <1>1, <2>1, JobFrame DEF NextJob, lists, fibers, futures, events, history
<1>2. CASE queue # <<>>
  <2> DEFINE j == Head(queue)
  <2>1. /\ wpc' = [wpc EXCEPT ![w] = "create"] /\ job' = [job EXCEPT ![w] = j]
        /\ queue' = Tail(queue) /\ wpc[w] = "next"
        /\ prog' = prog /\ put' = put /\ ran' = ran /\ finished' = finished
        /\ left' = left /\ io' = io /\ fjob' = fjob /\ fpc' = fpc
    BY <1>2 DEF NextJob, Goto, At, fibers, futures, events, history
  <2>2. /\ queue \in Seq(Jobs) /\ wpc \in [Workers -> LoopPC \cup MainPC \cup {"exited"}]
        /\ job \in [Workers -> Jobs \cup {Null}]
    BY DEF TypeOK
  <2>3. /\ j \in Jobs /\ In(queue, j) /\ ~In(queue', j) /\ NoTwice(queue')
        /\ \A k : In(queue', k) => In(queue, k)
    BY <1>2, <2>1, <2>2, PopList DEF JobInv, QueueInv
  <2>4. HandedIn' = HandedIn /\ \A k : Waits(k)' <=> Waits(k)
    BY <2>1 DEF HandedIn, Waits
  <2>5. \A v \in Workers : TakenInv(v)
    BY DEF JobInv
  <2> HIDE DEF j
  <2>6. QueueInv'
    BY <2>3, <2>4 DEF JobInv, QueueInv
  <2>7. /\ Taking(w)' /\ job'[w] = j
        /\ \A v \in Workers : v # w => (Taking(v)' <=> Taking(v)) /\ job'[v] = job[v]
    BY <2>1, <2>2 DEF Taking
  <2>8. TakenInv(w)'
    <3>1. j \in HandedIn' /\ ran'[j] = 0 /\ j # Null
      BY <2>1, <2>3, <2>4, Names DEF JobInv, QueueInv, Waits
    <3>2. \A v \in Workers : Taking(v)' /\ job'[v] = j => v = w
      BY <2>3, <2>5, <2>7 DEF TakenInv
    <3>3. \A x \in FiberSet : fjob'[x] # j
      BY <2>1, <2>3, Names DEF JobInv, CarriedInv
    <3>4. QED BY <2>3, <2>7, <3>1, <3>2, <3>3 DEF TakenInv, Waits
  <2>9. ASSUME NEW v \in Workers, v # w PROVE TakenInv(v)'
    BY <2>1, <2>3, <2>4, <2>5, <2>7, <2>9 DEF TakenInv
  <2>10. ASSUME NEW x \in FiberSet PROVE CarriedInv(x)'
    BY <2>1, <2>3, <2>4 DEF JobInv, CarriedInv
  <2>11. ASSUME NEW i \in Askers PROVE LeftInv(i)'
    BY <2>1 DEF JobInv, LeftInv, Pending
  <2>12. ASSUME NEW k \in Jobs PROVE HistoryInv(k)'
    BY <2>1, <2>4 DEF JobInv, HistoryInv
  <2>13. QED BY <2>6, <2>8, <2>9, <2>10, <2>11, <2>12 DEF JobInv
<1>3. QED BY <1>1, <1>2

\* A fiber takes over the job of its worker.
LEMMA StartKeeps ==
  ASSUME Assumed, TypeOK, JobInv, NEW w \in Workers, NEW x \in FiberSet, f[w] = x,
         fpc[x] = "loop", fjob[x] = Null, Start(w)
  PROVE  JobInv'
<1> DEFINE j == job[w]
<1>1. /\ wpc[w] = "start" /\ wpc' = [wpc EXCEPT ![w] = "run"] /\ job' = job
      /\ fjob' = [fjob EXCEPT ![x] = j]
      /\ queue' = queue /\ prog' = prog /\ put' = put /\ ran' = ran /\ finished' = finished
      /\ left' = left /\ io' = io /\ fpc' = fpc
  BY DEF Start, Resume, Goto, At, lists, futures, events, history
<1>2. /\ wpc \in [Workers -> LoopPC \cup MainPC \cup {"exited"}]
      /\ fjob \in [FiberSet -> Jobs \cup {Null}]
  BY DEF TypeOK
<1>3. HandedIn' = HandedIn /\ \A k : Waits(k)' <=> Waits(k)
  BY <1>1 DEF HandedIn, Waits
<1>4. /\ Taking(w) /\ ~Taking(w)'
      /\ \A v \in Workers : v # w => (Taking(v)' <=> Taking(v))
  BY <1>1, <1>2 DEF Taking
<1>5. /\ j # Null /\ Waits(j) /\ ~In(queue, j) /\ \A y \in FiberSet : fjob[y] # j
      /\ \A v \in Workers : Taking(v) /\ job[v] = j => v = w
  BY <1>4 DEF JobInv, TakenInv
<1> HIDE DEF j
<1>6. QueueInv'
  BY <1>1, <1>3 DEF JobInv, QueueInv
<1>7. fjob'[x] = j /\ \A y \in FiberSet : y # x => fjob'[y] = fjob[y]
  BY <1>1, <1>2
<1>8. ASSUME NEW v \in Workers PROVE TakenInv(v)'
  <2>1. SUFFICES ASSUME Taking(v)' PROVE TakenInv(v)'
    BY DEF TakenInv
  <2>2. v # w /\ Taking(v) /\ TakenInv(v)
    BY <1>4, <2>1 DEF JobInv
  <2>3. job[v] # j
    BY <1>5, <2>2
  <2>4. QED BY <1>1, <1>3, <1>4, <1>7, <2>2, <2>3 DEF TakenInv
<1>9. ASSUME NEW y \in FiberSet, y # x PROVE CarriedInv(y)'
  BY <1>1, <1>3, <1>5, <1>7, <1>9 DEF JobInv, CarriedInv
<1>10. CarriedInv(x)'
  <2>1. j \in HandedIn /\ ran[j] = 0 /\ j \in Jobs
    BY <1>5 DEF Waits, HandedIn
  <2>2. j \notin finished
    BY <2>1 DEF JobInv, HistoryInv
  <2>3. QED BY <1>1, <1>3, <1>5, <1>7, <2>1, <2>2 DEF CarriedInv
<1>11. ASSUME NEW i \in Askers PROVE LeftInv(i)'
  BY <1>1 DEF JobInv, LeftInv, Pending
<1>12. ASSUME NEW k \in Jobs PROVE HistoryInv(k)'
  BY <1>1, <1>3 DEF JobInv, HistoryInv
<1>13. QED BY <1>6, <1>8, <1>9, <1>10, <1>11, <1>12 DEF JobInv

\* A job starts once.
LEMMA BeginKeeps ==
  ASSUME Assumed, TypeOK, JobInv, NEW w \in Workers, NEW x \in FiberSet, Begin(w, x),
         fjob[x] # Null
  PROVE  JobInv'
<1> DEFINE j == fjob[x]
<1>1. /\ fpc[x] = "loop" /\ ran' = [ran EXCEPT ![j] = @ + 1]
      /\ fpc' = [fpc EXCEPT ![x] = IF left[j] > 0 THEN "submit" ELSE "finish"]
      /\ wpc' = wpc /\ job' = job /\ fjob' = fjob /\ queue' = queue /\ prog' = prog
      /\ put' = put /\ finished' = finished /\ left' = left /\ io' = io
  BY DEF Begin, Runs, Next_, lists, threads, futures, events
<1>2. /\ fjob \in [FiberSet -> Jobs \cup {Null}] /\ ran \in [Jobs -> Nat] /\ j \in Jobs
      /\ DOMAIN fpc = FiberSet /\ left[j] \in Nat /\ j \in Askers
  <2>1. Cardinality(Jobs) \in Nat
    BY FS_CardinalityType DEF Assumed, ProgramAssumption
  <2>2. QED BY <2>1 DEF TypeOK, Askers
<1>3. CarriedInv(x)
  BY DEF JobInv
<1>4. /\ ran[j] = 0 /\ j \in HandedIn /\ j \notin finished /\ ~In(queue, j)
      /\ \A y \in FiberSet : y # x => fjob[y] # j
  BY <1>1, <1>3 DEF CarriedInv
<1>5. ran'[j] = 1 /\ \A k \in Jobs : k # j => ran'[k] = ran[k]
  BY <1>1, <1>2, <1>4
<1>6. HandedIn' = HandedIn /\ \A k \in Jobs : k # j => (Waits(k)' <=> Waits(k))
  BY <1>1, <1>5 DEF HandedIn, Waits
<1>7. QueueInv'
  BY <1>1, <1>4, <1>6 DEF JobInv, QueueInv
<1>8. ASSUME NEW v \in Workers PROVE TakenInv(v)'
  <2>1. SUFFICES ASSUME Taking(v) PROVE TakenInv(v)'
    BY <1>1 DEF TakenInv, Taking
  <2>2. TakenInv(v) /\ job[v] # j /\ job[v] \in Jobs
    BY <2>1 DEF JobInv, TakenInv, Waits, HandedIn
  <2>3. \A u \in Workers : Taking(u)' <=> Taking(u)
    BY <1>1 DEF Taking
  <2>4. QED BY <1>1, <1>6, <2>2, <2>3 DEF TakenInv
<1>9. ASSUME NEW y \in FiberSet, y # x PROVE CarriedInv(y)'
  <2>1. CarriedInv(y) /\ fpc'[y] = fpc[y]
    BY <1>1, <1>2, <1>9 DEF JobInv
  <2>2. fjob[y] # Null => fjob[y] \in Jobs /\ ran'[fjob[y]] = ran[fjob[y]]
    BY <1>2, <1>4, <1>5, <1>9
  <2>3. QED BY <1>1, <1>6, <2>1, <2>2 DEF CarriedInv
<1>10. CarriedInv(x)'
  <2>1. fpc'[x] = IF left[j] > 0 THEN "submit" ELSE "finish"
    BY <1>1, <1>2
  <2>2. fpc'[x] = "finish" => left[j] = 0
    BY <1>2, <2>1
  <2>3. j \in prog.io => left[j] = 1 /\ io[j] = Null
    BY <1>2, <1>4 DEF JobInv, HistoryInv
  <2>4. QED BY <1>1, <1>3, <1>4, <1>5, <1>6, <2>1, <2>2, <2>3 DEF CarriedInv
<1>11. ASSUME NEW i \in Askers PROVE LeftInv(i)'
  BY <1>1 DEF JobInv, LeftInv, Pending
<1>12. ASSUME NEW k \in Jobs PROVE HistoryInv(k)'
  BY <1>1, <1>4, <1>5, <1>6 DEF JobInv, HistoryInv
<1>13. QED BY <1>7, <1>8, <1>9, <1>10, <1>11, <1>12 DEF JobInv

\* A job is handed in once.
LEMMA EnqueueHands ==
  ASSUME Assumed, TypeOK, NEW i \in Askers, Enqueue(i), prog' = prog
  PROVE  \E n \in 1 .. Len(prog.kids[i]), j \in Jobs :
           /\ n = put[i] + 1 /\ put' = [put EXCEPT ![i] = n]
           /\ j = prog.kids[i][n] /\ j \notin HandedIn /\ HandedIn' = HandedIn \cup {j}
<1> DEFINE j == prog.kids[i][put[i] + 1]
<1>1. /\ put[i] + 1 \in 1 .. Len(prog.kids[i]) /\ put \in [Askers -> Nat] /\ j \in Jobs
      /\ put' = [put EXCEPT ![i] = @ + 1] /\ prog \in Programs
      /\ \A k \in Askers : put[k] <= Len(prog.kids[k])
  <2>1. put \in [Askers -> Nat] /\ prog \in Programs /\ put' = [put EXCEPT ![i] = @ + 1]
        /\ put[i] < Len(prog.kids[i]) /\ \A k \in Askers : put[k] <= Len(prog.kids[k])
    BY DEF TypeOK, Enqueue
  <2>2. Len(prog.kids[i]) \in Nat /\ \A n \in 1 .. Len(prog.kids[i]) : prog.kids[i][n] \in Jobs
    BY <2>1, Program
  <2>3. put[i] + 1 \in 1 .. Len(prog.kids[i])
    BY <2>1, <2>2
  <2>4. QED BY <2>1, <2>2, <2>3
<1>2. \A k \in Askers : \A n \in 1 .. put[k] : prog.kids[k][n] # j
  <2>1. SUFFICES ASSUME NEW k \in Askers, NEW n \in 1 .. put[k], prog.kids[k][n] = j
                 PROVE  FALSE
    OBVIOUS
  <2>2. n \in DOMAIN prog.kids[k] /\ put[i] + 1 \in DOMAIN prog.kids[i]
    <3>1. /\ DOMAIN prog.kids[k] = 1 .. Len(prog.kids[k]) /\ Len(prog.kids[k]) \in Nat
          /\ DOMAIN prog.kids[i] = 1 .. Len(prog.kids[i])
      BY <1>1, Program
    <3>2. QED BY <1>1, <3>1
  <2>3. k = i /\ n = put[i] + 1
    BY <1>1, <2>1, <2>2, Program
  <2>4. QED BY <1>1, <2>3
<1>3. j \notin HandedIn
  BY <1>2 DEF HandedIn
<1>4. HandedIn' = HandedIn \cup {j}
  <2>1. \A k \in Askers : k # i => put'[k] = put[k]
    BY <1>1
  <2>2. put'[i] = put[i] + 1 /\ put[i] \in Nat
    BY <1>1
  <2>3. \A n : n \in 1 .. put[i] + 1 <=> n \in 1 .. put[i] \/ n = put[i] + 1
    BY <2>2
  <2>4. ASSUME NEW k \in HandedIn' PROVE k \in HandedIn \cup {j}
    <3>1. PICK m \in Askers : \E n \in 1 .. put'[m] : prog.kids[m][n] = k
      BY <2>4 DEF HandedIn
    <3>2. k \in Jobs
      BY <2>4 DEF HandedIn
    <3>3. CASE m = i
      BY <2>2, <2>3, <3>1, <3>2, <3>3 DEF HandedIn
    <3>4. CASE m # i
      BY <2>1, <3>1, <3>2, <3>4 DEF HandedIn
    <3>5. QED BY <3>3, <3>4
  <2>5. ASSUME NEW k \in HandedIn PROVE k \in HandedIn'
    <3>1. PICK m \in Askers : \E n \in 1 .. put[m] : prog.kids[m][n] = k
      BY <2>5 DEF HandedIn
    <3>2. k \in Jobs
      BY <2>5 DEF HandedIn
    <3>3. \A n \in 1 .. put[m] : n \in 1 .. put'[m]
      BY <2>1, <2>2, <2>3, <3>1
    <3>4. QED BY <3>1, <3>2, <3>3 DEF HandedIn
  <2>6. j \in HandedIn'
    <3>1. put[i] + 1 \in 1 .. put'[i]
      BY <2>2
    <3>2. QED BY <1>1, <3>1 DEF HandedIn
  <2>7. QED BY <2>4, <2>5, <2>6
<1>5. QED BY <1>1, <1>3, <1>4

\* A job is handed in once, and is new to everyone then.
LEMMA EnqueueKeeps ==
  ASSUME Assumed, TypeOK, JobInv, NEW i \in Askers, Enqueue(i), i \in Jobs => ran[i] # 0,
         prog' = prog, wpc' = wpc, job' = job, fjob' = fjob, fpc' = fpc,
         ran' = ran, finished' = finished, left' = left, io' = io
  PROVE  JobInv'
<1>1. PICK j \in Jobs :
        /\ j = prog.kids[i][put[i] + 1] /\ put' = [put EXCEPT ![i] = put[i] + 1]
        /\ j \notin HandedIn /\ HandedIn' = HandedIn \cup {j}
  BY EnqueueHands
<1>2. ran[j] = 0 /\ ~In(queue, j) /\ (\A x \in FiberSet : fjob[x] # j)
  <2>1. ran[j] = 0
    BY <1>1 DEF JobInv, HistoryInv
  <2>2. ~In(queue, j)
    BY <1>1 DEF JobInv, QueueInv, Waits
  <2>3. \A x \in FiberSet : fjob[x] # j
    BY <1>1, Names DEF JobInv, CarriedInv
  <2>4. QED BY <2>1, <2>2, <2>3
<1>3. /\ NoTwice(queue') /\ \A k : In(queue', k) => In(queue, k) \/ k = j
  <2>1. queue \in Seq(Jobs)
    BY DEF TypeOK
  <2>2. queue' = Append(queue, j) \/ queue' = queue
    BY <1>1 DEF Enqueue
  <2>3. NoTwice(queue)
    BY DEF JobInv, QueueInv
  <2>4. QED BY <1>2, <2>1, <2>2, <2>3, AppendList
<1>4. j \in HandedIn' /\ ran'[j] = 0 /\ \A k : Waits(k) => Waits(k)'
  BY <1>1, <1>2 DEF Waits
<1>5. QueueInv'
  BY <1>3, <1>4 DEF JobInv, QueueInv, Waits
<1>6. ASSUME NEW v \in Workers PROVE TakenInv(v)'
  <2>1. SUFFICES ASSUME Taking(v) PROVE TakenInv(v)'
    BY DEF TakenInv, Taking
  <2>2. TakenInv(v) /\ job[v] # j
    BY <1>1, <2>1 DEF JobInv, TakenInv, Waits
  <2>3. \A u \in Workers : Taking(u)' <=> Taking(u)
    BY DEF Taking
  <2>4. QED BY <1>3, <1>4, <2>1, <2>2, <2>3 DEF TakenInv
<1>7. ASSUME NEW x \in FiberSet PROVE CarriedInv(x)'
  BY <1>1, <1>2, <1>3 DEF JobInv, CarriedInv
<1>8. ASSUME NEW k \in Askers PROVE LeftInv(k)'
  BY DEF JobInv, LeftInv, Pending
<1>9. ASSUME NEW k \in Jobs PROVE HistoryInv(k)'
  <2>1. HistoryInv(k) /\ (ran[k] = 0 => put'[k] = put[k])
    BY <1>1 DEF JobInv, Askers
  <2>2. QED BY <1>1, <2>1 DEF HistoryInv
<1>10. QED BY <1>5, <1>6, <1>7, <1>8, <1>9 DEF JobInv

\* A job makes its request.
LEMMA RequestKeeps ==
  ASSUME Assumed, TypeOK, JobInv, NEW w \in Workers, NEW x \in FiberSet, Request(w, x),
         fjob[x] # Null
  PROVE  JobInv'
<1> DEFINE j == fjob[x]
<1>1. /\ fpc[x] = "submit" /\ fpc' = [fpc EXCEPT ![x] = "register"]
      /\ j \in prog.io /\ io' = [io EXCEPT ![j] = w]
      /\ wpc' = wpc /\ job' = job /\ fjob' = fjob /\ queue' = queue /\ prog' = prog
      /\ put' = put /\ finished' = finished /\ left' = left /\ ran' = ran
  BY DEF Request, Runs, Next_, lists, threads, futures, history
<1>2. /\ fjob \in [FiberSet -> Jobs \cup {Null}] /\ j \in Jobs
      /\ fpc'[x] = "register" /\ \A y \in FiberSet : y # x => fpc'[y] = fpc[y]
      /\ io'[j] = w /\ \A k \in Jobs : k # j => io'[k] = io[k]
  BY <1>1 DEF TypeOK
<1>3. CarriedInv(x)
  BY DEF JobInv
<1>4. /\ left[j] = 1 /\ io[j] = Null /\ ran[j] = 1
      /\ \A y \in FiberSet : y # x => fjob[y] # j
  BY <1>1, <1>3 DEF CarriedInv
<1>5. HandedIn' = HandedIn /\ \A k : Waits(k)' <=> Waits(k)
  BY <1>1 DEF HandedIn, Waits
<1>6. QueueInv'
  BY <1>1, <1>5 DEF JobInv, QueueInv
<1>7. ASSUME NEW v \in Workers PROVE TakenInv(v)'
  BY <1>1, <1>5 DEF JobInv, TakenInv, Taking
<1>8. ASSUME NEW y \in FiberSet PROVE CarriedInv(y)'
  <2>1. CASE y = x
    BY <1>1, <1>2, <1>3, <1>5, <2>1 DEF CarriedInv
  <2>2. CASE y # x
    <3>1. CarriedInv(y) /\ fpc'[y] = fpc[y] /\ (fjob[y] # Null => io'[fjob[y]] = io[fjob[y]])
      BY <1>2, <1>4, <2>2 DEF JobInv
    <3>2. QED BY <1>1, <1>5, <3>1 DEF CarriedInv
  <2>3. QED BY <2>1, <2>2
<1>9. ASSUME NEW i \in Askers PROVE LeftInv(i)'
  BY <1>1 DEF JobInv, LeftInv, Pending
<1>10. ASSUME NEW k \in Jobs PROVE HistoryInv(k)'
  BY <1>1, <1>2, <1>4, <1>5 DEF JobInv, HistoryInv
<1>11. QED BY <1>6, <1>7, <1>8, <1>9, <1>10 DEF JobInv

\* A request is answered once.
LEMMA CallbackKeeps ==
  ASSUME Assumed, TypeOK, JobInv, NEW w \in Workers, NEW j \in Jobs, Callback(w, j)
  PROVE  JobInv' /\ left[j] = 1
<1>1. /\ io[j] = w /\ io' = [io EXCEPT ![j] = Null] /\ left' = [left EXCEPT ![j] = @ - 1]
      /\ wpc' = wpc /\ job' = job /\ fjob' = fjob /\ queue' = queue /\ prog' = prog
      /\ put' = put /\ finished' = finished /\ ran' = ran /\ fpc' = fpc
  BY DEF Callback, Decr, threads, fibers, history
<1>2. /\ fjob \in [FiberSet -> Jobs \cup {Null}] /\ DOMAIN left = Askers /\ j \in Askers
      /\ io'[j] = Null /\ \A k \in Jobs : k # j => io'[k] = io[k]
  BY <1>1 DEF TypeOK, Askers
<1>3. left[j] = 1 /\ j \in prog.io /\ ran[j] # 0 /\ j \notin finished
  BY <1>1, Names DEF JobInv, HistoryInv
<1>4. left'[j] = 0 /\ \A i \in Askers : i # j => left'[i] = left[i]
  BY <1>1, <1>2, <1>3
<1>5. HandedIn' = HandedIn /\ \A k : Waits(k)' <=> Waits(k)
  BY <1>1 DEF HandedIn, Waits
<1>6. QueueInv'
  BY <1>1, <1>5 DEF JobInv, QueueInv
<1>7. ASSUME NEW v \in Workers PROVE TakenInv(v)'
  BY <1>1, <1>5 DEF JobInv, TakenInv, Taking
<1>8. ASSUME NEW y \in FiberSet PROVE CarriedInv(y)'
  <2>1. CarriedInv(y)
    BY DEF JobInv
  <2>2. CASE fjob[y] = j
    BY <1>1, <1>2, <1>4, <1>5, <2>1, <2>2, Names DEF CarriedInv
  <2>3. CASE fjob[y] # j
    <3>1. fjob[y] # Null => left'[fjob[y]] = left[fjob[y]] /\ io'[fjob[y]] = io[fjob[y]]
      BY <1>2, <1>4, <2>3 DEF Askers
    <3>2. QED BY <1>1, <1>5, <2>1, <3>1 DEF CarriedInv
  <2>4. QED BY <2>2, <2>3
<1>9. ASSUME NEW i \in Askers PROVE LeftInv(i)'
  BY <1>1, <1>3, <1>4 DEF JobInv, LeftInv, Pending
<1>10. ASSUME NEW k \in Jobs PROVE HistoryInv(k)'
  BY <1>1, <1>2, <1>3, <1>4, <1>5 DEF JobInv, HistoryInv, Askers
<1>11. QED BY <1>3, <1>6, <1>7, <1>8, <1>9, <1>10 DEF JobInv

\* The asker of a job that runs waits for it.
LEMMA OwnerWaits ==
  ASSUME Assumed, TypeOK, JobInv, NEW x \in FiberSet, fpc[x] = "finish", fjob[x] # Null
  PROVE  LET j == fjob[x]
             i == Owner(j)
         IN  /\ i \in Askers /\ i \notin prog.io /\ left[i] \in Nat \ {0} /\ i # j
             /\ Cardinality(Pending(i) \ {n \in DOMAIN prog.kids[i] : prog.kids[i][n] = j})
                  = left[i] - 1
             /\ \A k \in Askers : k # i => \A n \in DOMAIN prog.kids[k] : prog.kids[k][n] # j
             /\ prog.kids[i] # <<>>
<1> DEFINE j == fjob[x]
<1>1. /\ j \in HandedIn /\ j \notin finished /\ left[j] = 0
  BY DEF JobInv, CarriedInv
<1>2. PICK i \in Askers : \E n \in 1 .. put[i] : prog.kids[i][n] = j
  BY <1>1 DEF HandedIn
<1>3. PICK n \in 1 .. put[i] : prog.kids[i][n] = j
  BY <1>2
<1>4. prog \in Programs /\ put[i] \in Nat /\ put[i] <= Len(prog.kids[i])
  BY DEF TypeOK
<1>5. n \in DOMAIN prog.kids[i] /\ DOMAIN prog.kids[i] = 1 .. Len(prog.kids[i]) /\ i \notin prog.io
  <2>1. /\ DOMAIN prog.kids[i] = 1 .. Len(prog.kids[i]) /\ Len(prog.kids[i]) \in Nat
        /\ \A m \in 1 .. Len(prog.kids[i]) : i \notin prog.io
    BY <1>4, Program
  <2>2. n \in 1 .. Len(prog.kids[i])
    BY <1>3, <1>4, <2>1
  <2>3. QED BY <2>1, <2>2
<1>6. Owner(j) = i
  BY <1>3, <1>4, <1>5, OwnerOf
<1>7. n \in Pending(i) /\ left[i] = Cardinality(Pending(i))
  BY <1>1, <1>3, <1>5 DEF JobInv, LeftInv, Pending
<1>8. \A k \in Askers : \A m \in DOMAIN prog.kids[k] : prog.kids[k][m] = j => k = i /\ m = n
  BY <1>3, <1>4, <1>5, Program
<1>9. {m \in DOMAIN prog.kids[i] : prog.kids[i][m] = j} = {n}
  BY <1>3, <1>5, <1>8
<1>10. IsFiniteSet(Pending(i)) /\ Cardinality(Pending(i)) \in Nat
  BY <1>4, PendingFinite
<1>11. Cardinality(Pending(i) \ {n}) = Cardinality(Pending(i)) - 1
  BY <1>7, <1>10, FS_RemoveElement
<1>12. Cardinality(Pending(i)) # 0
  BY <1>7, <1>10, FS_EmptySet
<1>13. left[i] \in Nat \ {0} /\ i # j
  BY <1>1, <1>7, <1>10, <1>12
<1>14. prog.kids[i] # <<>>
  BY <1>5
<1>15. QED BY <1>5, <1>6, <1>7, <1>8, <1>9, <1>11, <1>13, <1>14

\* The future of the asker counts down for the job that finishes.
LEMMA FinishKeeps ==
  ASSUME Assumed, TypeOK, JobInv, NEW w \in Workers, NEW x \in FiberSet, Finish(w, x),
         fjob[x] # Null
  PROVE  JobInv'
<1> DEFINE j == fjob[x]
<1>1. /\ fpc[x] = "finish" /\ fpc' = [fpc EXCEPT ![x] = "clear"]
      /\ finished' = finished \cup {j} /\ left' = [left EXCEPT ![Owner(j)] = @ - 1]
      /\ wpc' = wpc /\ job' = job /\ fjob' = fjob /\ queue' = queue /\ prog' = prog
      /\ put' = put /\ io' = io /\ ran' = ran
  BY DEF Finish, Runs, Next_, Decr, threads, events
<1>2. PICK i \in Askers :
      /\ i = Owner(j) /\ i \notin prog.io /\ left[i] \in Nat \ {0} /\ i # j
      /\ Cardinality(Pending(i) \ {n \in DOMAIN prog.kids[i] : prog.kids[i][n] = j})
           = left[i] - 1
      /\ \A k \in Askers : k # i => \A n \in DOMAIN prog.kids[k] : prog.kids[k][n] # j
  BY <1>1, OwnerWaits
<1>3. /\ fjob \in [FiberSet -> Jobs \cup {Null}] /\ j \in Jobs /\ DOMAIN left = Askers
      /\ fpc'[x] = "clear" /\ \A y \in FiberSet : y # x => fpc'[y] = fpc[y]
  BY <1>1 DEF TypeOK
<1>4. CarriedInv(x)
  BY DEF JobInv
<1>5. /\ left[j] = 0 /\ j \notin finished /\ ran[j] = 1
      /\ \A y \in FiberSet : y # x => fjob[y] # j
  BY <1>1, <1>4 DEF CarriedInv
<1>6. /\ left'[i] = left[i] - 1 /\ \A k \in Askers : k # i => left'[k] = left[k]
      /\ \A k \in Askers : left[k] = 0 => left'[k] = 0
  BY <1>1, <1>2, <1>3
<1>7. HandedIn' = HandedIn /\ \A k : Waits(k)' <=> Waits(k)
  BY <1>1 DEF HandedIn, Waits
<1>8. QueueInv'
  BY <1>1, <1>7 DEF JobInv, QueueInv
<1>9. ASSUME NEW v \in Workers PROVE TakenInv(v)'
  BY <1>1, <1>7 DEF JobInv, TakenInv, Taking
<1>10. ASSUME NEW y \in FiberSet PROVE CarriedInv(y)'
  <2>1. CASE y = x
    <3>1. left'[j] = 0
      BY <1>3, <1>5, <1>6 DEF Askers
    <3>2. QED BY <1>1, <1>3, <1>4, <1>7, <2>1, <3>1 DEF CarriedInv
  <2>2. CASE y # x
    <3>1. CarriedInv(y) /\ fpc'[y] = fpc[y] /\ fjob[y] # j
      BY <1>3, <1>5, <2>2 DEF JobInv
    <3>2. fjob[y] # Null => /\ left[fjob[y]] = 0 => left'[fjob[y]] = 0
                            /\ fjob[y] \in prog.io => left'[fjob[y]] = left[fjob[y]]
      BY <1>2, <1>3, <1>6 DEF Askers
    <3>3. QED BY <1>1, <1>7, <3>1, <3>2 DEF CarriedInv
  <2>3. QED BY <2>1, <2>2
<1>11. ASSUME NEW k \in Askers PROVE LeftInv(k)'
  <2>1. LeftInv(k)
    BY DEF JobInv
  <2>2. CASE k = i
    <3>1. Pending(i)' = Pending(i) \ {n \in DOMAIN prog.kids[i] : prog.kids[i][n] = j}
      BY <1>1 DEF Pending
    <3>2. QED BY <1>1, <1>2, <1>6, <2>2, <3>1 DEF LeftInv
  <2>3. CASE k # i
    <3>1. Pending(k)' = Pending(k)
      BY <1>1, <1>2, <2>3 DEF Pending
    <3>2. QED BY <1>1, <1>6, <2>1, <2>3, <3>1 DEF LeftInv
  <2>4. QED BY <2>2, <2>3
<1>12. ASSUME NEW k \in Jobs PROVE HistoryInv(k)'
  <2>1. HistoryInv(k) /\ k \in Askers
    BY DEF JobInv, Askers
  <2>2. k = j => ran[k] = 1 /\ left'[k] = 0
    BY <1>5, <1>6, <2>1
  <2>3. k \in prog.io => left'[k] = left[k]
    BY <1>2, <1>6, <2>1
  <2>4. QED BY <1>1, <1>6, <1>7, <2>1, <2>2, <2>3 DEF HistoryInv
<1>13. QED BY <1>8, <1>9, <1>10, <1>11, <1>12 DEF JobInv

\* A fiber lets go of its job.
LEMMA ClearKeeps ==
  ASSUME Assumed, TypeOK, JobInv, NEW w \in Workers, NEW x \in FiberSet, Clear(w, x)
  PROVE  JobInv'
<1>1. /\ fpc' = [fpc EXCEPT ![x] = "end"] /\ fjob' = [fjob EXCEPT ![x] = Null]
      /\ finished' = finished /\ left' = left
      /\ wpc' = wpc /\ job' = job /\ queue' = queue /\ prog' = prog
      /\ put' = put /\ io' = io /\ ran' = ran
  BY DEF Clear, Runs, Next_, threads, events, lists, futures, history
<1>2. /\ fjob'[x] = Null
      /\ \A y \in FiberSet : y # x => fpc'[y] = fpc[y] /\ fjob'[y] = fjob[y]
  BY <1>1 DEF TypeOK
<1>3. HandedIn' = HandedIn /\ \A k : Waits(k)' <=> Waits(k)
  BY <1>1 DEF HandedIn, Waits
<1>4. QueueInv'
  BY <1>1, <1>3 DEF JobInv, QueueInv
<1>5. ASSUME NEW v \in Workers PROVE TakenInv(v)'
  BY <1>1, <1>2, <1>3 DEF JobInv, TakenInv, Taking
<1>6. ASSUME NEW y \in FiberSet PROVE CarriedInv(y)'
  BY <1>1, <1>2, <1>3 DEF JobInv, CarriedInv
<1>7. ASSUME NEW k \in Askers PROVE LeftInv(k)'
  BY <1>1 DEF JobInv, LeftInv, Pending
<1>8. ASSUME NEW k \in Jobs PROVE HistoryInv(k)'
  BY <1>1, <1>3 DEF JobInv, HistoryInv
<1>9. QED BY <1>4, <1>5, <1>6, <1>7, <1>8 DEF JobInv
-----------------------------------------------------------------------------
(***************************************************************************)
(* When the wait of the main thread is over, nothing is left to do         *)
(***************************************************************************)
\* A set of natural numbers that is not empty has a least element.
LEMMA LeastNumber ==
  ASSUME NEW T, T \subseteq Nat, T # {}
  PROVE  \E m \in T : \A n \in T : m <= n
<1>1. PICK m \in T : \A n \in T : ~ (<<n, m>> \in OpToRel(<, Nat))
  BY NatLessThanWellFounded, WFMin
<1>2. ASSUME NEW n \in T PROVE m <= n
  <2>1. m \in Nat /\ n \in Nat
    OBVIOUS
  <2>2. ~ (n < m)
    BY <1>1, <2>1 DEF OpToRel
  <2>3. QED BY <2>1, <2>2
<1>3. QED BY <1>2

\* Every job that was handed in has finished.
LEMMA AllDone ==
  ASSUME Assumed, TypeOK, JobInv, left[Main] = 0
  PROVE  HandedIn \subseteq finished
<1>1. prog \in Programs
  BY DEF TypeOK
<1>2. PICK age \in [Jobs -> 0 .. Cardinality(Jobs)] :
        \A i \in Jobs : \A n \in DOMAIN prog.kids[i] : age[i] < age[prog.kids[i][n]]
  BY <1>1 DEF Assumed, ProgramAssumption
<1>3. Cardinality(Jobs) \in Nat
  BY FS_CardinalityType DEF Assumed, ProgramAssumption
<1>4. SUFFICES ASSUME HandedIn \ finished # {} PROVE FALSE
  OBVIOUS
<1> DEFINE Ages == {age[j] : j \in HandedIn \ finished}
<1>5. HandedIn \subseteq Jobs
  BY DEF HandedIn
<1>6. \A k \in Jobs : age[k] \in Nat
  BY <1>2, <1>3
<1>7. Ages \subseteq Nat /\ Ages # {}
  BY <1>4, <1>5, <1>6
<1>8. PICK j \in HandedIn \ finished : \A k \in HandedIn \ finished : age[j] <= age[k]
  <2>1. PICK m \in Ages : \A n \in Ages : m <= n
    BY <1>7, LeastNumber
  <2>2. QED BY <2>1
<1>9. PICK i \in Askers : \E n \in 1 .. put[i] : prog.kids[i][n] = j
  BY <1>8 DEF HandedIn
<1>10. PICK n \in 1 .. put[i] : prog.kids[i][n] = j
  BY <1>9
<1>11. n \in DOMAIN prog.kids[i] /\ i \notin prog.io
  <2>1. /\ DOMAIN prog.kids[i] = 1 .. Len(prog.kids[i]) /\ Len(prog.kids[i]) \in Nat
        /\ \A m \in 1 .. Len(prog.kids[i]) : i \notin prog.io
    BY <1>1, Program
  <2>2. put[i] \in Nat /\ put[i] <= Len(prog.kids[i])
    BY DEF TypeOK
  <2>3. n \in 1 .. Len(prog.kids[i])
    BY <1>10, <2>1, <2>2
  <2>4. QED BY <2>1, <2>3
<1>12. left[i] = 0
  <2>1. CASE i = Main
    BY <2>1
  <2>2. CASE i \in Jobs
    <3>1. put[i] # 0
      BY <1>10
    <3>2. ran[i] = 1 /\ i \in HandedIn
      BY <2>2, <3>1 DEF JobInv, HistoryInv
    <3>3. age[i] < age[j]
      BY <1>2, <1>10, <1>11, <2>2
    <3>4. age[i] \in Nat /\ age[j] \in Nat
      BY <1>5, <1>6, <1>8, <2>2
    <3>5. i \in finished
      BY <1>8, <3>2, <3>3, <3>4
    <3>6. QED BY <2>2, <3>5 DEF JobInv, HistoryInv
  <2>3. QED BY <2>1, <2>2 DEF Askers
<1>13. Pending(i) = {}
  <2>1. Cardinality(Pending(i)) = 0
    BY <1>11, <1>12 DEF JobInv, LeftInv
  <2>2. QED BY <1>1, <2>1, PendingFinite, FS_EmptySet
<1>14. j \in finished
  BY <1>10, <1>11, <1>13 DEF Pending
<1>15. QED BY <1>8, <1>14

LEMMA NothingLeft ==
  ASSUME Assumed, TypeOK, PlaceInv, JobInv, Started, failed = "none", Returned
  PROVE  Quiet
<1>1. MainInv /\ left[Main] = 0
  BY DEF PlaceInv, MainInv
<1>2. \A j \in HandedIn : j \in finished /\ ran[j] = 1 /\ left[j] = 0
  BY <1>1, AllDone DEF JobInv, HistoryInv, HandedIn
<1>3. ASSUME NEW x \in FiberSet, fjob[x] # Null
      PROVE  fpc[x] = "clear"
  BY <1>2, <1>3 DEF JobInv, CarriedInv
<1>4. ASSUME NEW x \in FiberSet PROVE ~Woken(x)
  BY <1>3 DEF Woken
<1>5. \A x \in FiberSet : ~In(ready, x)
  BY <1>4 DEF PlaceInv, ReadyInv
<1>6. queue = <<>>
  <2>1. SUFFICES ASSUME queue # <<>> PROVE FALSE
    OBVIOUS
  <2>2. Head(queue) \in Jobs /\ In(queue, Head(queue))
    BY <2>1, PopList DEF TypeOK
  <2>3. Waits(Head(queue))
    BY <2>2 DEF JobInv, QueueInv
  <2>4. QED BY <1>2, <2>3 DEF Waits
<1>7. \A j \in Jobs : io[j] = Null
  <2>1. SUFFICES ASSUME NEW j \in Jobs, io[j] # Null PROVE FALSE
    OBVIOUS
  <2>2. ran[j] # 0 /\ left[j] = 1 /\ ran[j] \in {0, 1}
    BY <2>1 DEF JobInv, HistoryInv
  <2>3. j \in HandedIn
    BY <2>2 DEF JobInv, HistoryInv
  <2>4. QED BY <1>2, <2>2, <2>3
<1>8. ASSUME NEW w \in Workers
      PROVE  /\ wpc[w] \notin {"create", "start"}
             /\ wpc[w] = "popped" => f[w] \in Workers
             /\ wpc[w] = "run" => f[w] \in FiberSet /\ fpc[f[w]] \in {"clear", "end"}
             /\ w # Main => wpc[w] \in LoopPC \cup {"exited"}
  <2>1. wpc[w] \notin {"create", "start"}
    BY <1>2 DEF JobInv, TakenInv, Taking, Waits
  <2>2. ASSUME NEW x \in FiberSet, f[w] = x PROVE HeldInv(w, x)
    BY DEF PlaceInv
  <2>3. wpc[w] = "popped" => f[w] \notin FiberSet
    BY <1>4, <2>2 DEF HeldInv
  <2>4. wpc[w] = "popped" => f[w] # Null
    BY DEF Started
  <2>5. wpc[w] = "run" => f[w] \in FiberSet
    BY DEF Started, HoldPC
  <2>6. wpc[w] = "run" => fpc[f[w]] \in {"clear", "end"}
    BY <1>3, <2>2, <2>5 DEF HeldInv
  <2>7. QED BY <1>1, <2>1, <2>3, <2>4, <2>5, <2>6 DEF MainInv, TypeOK
<1>9. \A v, w \in Workers : f[v] = f[w] /\ f[v] \in FiberSet => v = w
  BY DEF PlaceInv, HeldInv
<1>10. QED BY <1>5, <1>6, <1>7, <1>8, <1>9 DEF Quiet
-----------------------------------------------------------------------------
(***************************************************************************)
(* Types                                                                   *)
(***************************************************************************)
LEMMA CountsAreNumbers ==
  ASSUME Assumed, TypeOK
  PROVE  Cardinality(Jobs) \in Nat /\ left \in [Askers -> Nat]
BY FS_CardinalityType DEF Assumed, ProgramAssumption, TypeOK

\* Lowering a future that waits for something keeps the types.
LEMMA DecrType ==
  ASSUME Assumed, TypeOK, NEW i \in Askers, left[i] # 0, Decr(i)
  PROVE  /\ left' \in [Askers -> 0 .. Cardinality(Jobs)]
         /\ waiter' \in [Askers -> FiberSet \cup {Main, Null}]
         /\ ready' \in Seq(FiberSet \cup Workers)
         /\ failed' \in {"none", "216"} \/ failed' = failed
<1>1. /\ left \in [Askers -> 0 .. Cardinality(Jobs)] /\ Cardinality(Jobs) \in Nat
      /\ waiter \in [Askers -> FiberSet \cup {Main, Null}]
      /\ ready \in Seq(FiberSet \cup Workers)
  BY CountsAreNumbers DEF TypeOK
<1>2. left[i] \in 0 .. Cardinality(Jobs) /\ left[i] - 1 \in 0 .. Cardinality(Jobs)
  BY <1>1
<1>3. left' = [left EXCEPT ![i] = left[i] - 1]
  BY DEF Decr
<1>4. left' \in [Askers -> 0 .. Cardinality(Jobs)]
  BY <1>1, <1>2, <1>3
<1>5. waiter' \in [Askers -> FiberSet \cup {Main, Null}]
  BY <1>1 DEF Decr
<1>6. /\ ready' \in Seq(FiberSet \cup Workers)
      /\ failed' \in {"none", "216"} \/ failed' = failed
  <2>1. CASE left[i] = 1 /\ waiter[i] # Null
    <3>1. waiter[i] \in FiberSet \cup Workers
      BY <1>1, <2>1, Names
    <3>2. ready' = Push(ready, waiter[i]) /\ failed' \in {"none", "216"}
      BY <2>1 DEF Decr, Ready, Assert
    <3>3. QED BY <1>1, <3>1, <3>2, PushList
  <2>2. CASE ~(left[i] = 1 /\ waiter[i] # Null)
    BY <1>1, <2>2 DEF Decr
  <2>3. QED BY <2>1, <2>2
<1>7. QED BY <1>4, <1>5, <1>6

LEMMA EnqueueType ==
  ASSUME Assumed, TypeOK, NEW i \in Askers, Enqueue(i)
  PROVE  /\ put' \in [Askers -> Nat] /\ \A k \in Askers : put'[k] <= Len(prog.kids[k])
         /\ queue' \in Seq(Jobs) /\ Len(queue') <= QueueSize
<1>1. /\ prog \in Programs /\ put \in [Askers -> Nat] /\ queue \in Seq(Jobs)
      /\ \A k \in Askers : put[k] <= Len(prog.kids[k])
      /\ Len(queue) <= QueueSize
  BY DEF TypeOK
<1>2. \A k \in Askers : Len(prog.kids[k]) \in Nat
  BY <1>1, Program
<1>3. put[i] < Len(prog.kids[i]) /\ put' = [put EXCEPT ![i] = put[i] + 1]
  BY DEF Enqueue
<1>4. put' \in [Askers -> Nat] /\ \A k \in Askers : put'[k] <= Len(prog.kids[k])
  BY <1>1, <1>2, <1>3
<1>5. prog.kids[i][put[i] + 1] \in Jobs
  <2>1. put[i] + 1 \in 1 .. Len(prog.kids[i])
    BY <1>1, <1>2, <1>3
  <2>2. QED BY <1>1, <2>1, Program
<1>6. QueueSize \in Nat /\ Len(queue) \in Nat
  BY <1>1, LenProperties DEF Assumed, ProgramAssumption
<1>7. queue' \in Seq(Jobs) /\ Len(queue') <= QueueSize
  <2>1. CASE Len(queue) < QueueSize
    <3>1. queue' = Append(queue, prog.kids[i][put[i] + 1])
      BY <2>1 DEF Enqueue
    <3>2. queue' \in Seq(Jobs) /\ Len(queue') = Len(queue) + 1
      BY <1>1, <1>5, <3>1, AppendList
    <3>3. QED BY <1>6, <2>1, <3>2
  <2>2. CASE ~(Len(queue) < QueueSize)
    BY <1>1, <2>2 DEF Enqueue
  <2>3. QED BY <2>1, <2>2
<1>8. QED BY <1>4, <1>7

LEMMA LoopType ==
  ASSUME Assumed, TypeOK, Started, failed = "none", NEW w \in Workers, LoopStep(w),
         \A j \in Jobs : Callback(w, j) => left[j] # 0
  PROVE  TypeOK' /\ Started'
<1>0. /\ \A v \in Workers : v \notin FiberSet
      /\ Null \notin FiberSet /\ Null \notin Workers
  BY Names
<1>1. ASSUME Pop(w) PROVE TypeOK' /\ Started'
  <2>1. CASE ready = <<>>
    BY <1>0, <1>1, <2>1 DEF Pop, TypeOK, Started, lists, threads, fibers, futures, events, history, Goto, At, LoopPC
  <2>2. CASE ready # <<>>
    <3>1. Head(ready) \in FiberSet \cup Workers /\ Tail(ready) \in Seq(FiberSet \cup Workers)
      BY <2>2, PopList DEF TypeOK
    <3>2. f'[w] # Null /\ f'[w] = Head(ready) /\ \A v \in Workers : v # w => f'[v] = f[v]
      BY <1>0, <1>1, <2>2, <3>1 DEF Pop, TypeOK
    <3>3. Started'
      <4>1. wpc' = [wpc EXCEPT ![w] = "popped"] /\ failed' = failed
        BY <1>1, <2>2 DEF Pop, Goto
      <4>2. wpc'[w] = "popped" /\ \A v \in Workers : v # w => wpc'[v] = wpc[v]
        BY <4>1 DEF TypeOK
      <4>3. QED BY <3>2, <4>1, <4>2 DEF Started
    <3>4. TypeOK'
      BY <1>1, <2>2, <3>1 DEF Pop, TypeOK, Started, lists, threads, fibers, futures, events, history, Goto, At, LoopPC
    <3>5. QED BY <3>3, <3>4
  <2>3. QED BY <2>1, <2>2
<1>2. ASSUME PopOwn(w) PROVE TypeOK' /\ Started'
  BY <1>0, <1>2 DEF PopOwn, LoopPC, MainPC, TypeOK, Started, lists, threads, fibers, futures, events, history, Goto, At
<1>3. ASSUME PopForeign(w) PROVE TypeOK' /\ Started'
  <2>1. f[w] \in FiberSet \cup Workers /\ ready \in Seq(FiberSet \cup Workers)
    BY <1>3 DEF PopForeign, TypeOK
  <2>2. ready' \in Seq(FiberSet \cup Workers)
    BY <1>3, <2>1, PushList DEF PopForeign
  <2>3. QED BY <1>0, <1>3, <2>2 DEF PopForeign, TypeOK, Started, lists, threads, fibers, futures, events, history, Goto, At, LoopPC
<1>4. ASSUME ResumeReady(w) PROVE TypeOK' /\ Started'
  BY <1>0, <1>4 DEF ResumeReady, Resume, Assert, LoopPC, TypeOK, Started, lists, threads, fibers, futures, events, history, Goto, At
<1>5. ASSUME NextJob(w) PROVE TypeOK' /\ Started'
  <2>1. CASE queue = <<>>
    <3>1. wpc' = [wpc EXCEPT ![w] = "poll"] /\ UNCHANGED <<queue, job>>
      BY <1>5, <2>1 DEF NextJob, Goto
    <3>2. QED BY <1>0, <1>5, <3>1 DEF NextJob, TypeOK, Started, lists, threads, fibers, futures, events, history, At, LoopPC
  <2>2. CASE queue # <<>>
    <3>1. queue \in Seq(Jobs) /\ Len(queue) \in Nat /\ Len(queue) <= QueueSize /\ QueueSize \in Nat
      BY LenProperties DEF TypeOK, Assumed, ProgramAssumption
    <3>2. Head(queue) \in Jobs /\ Tail(queue) \in Seq(Jobs) /\ Len(Tail(queue)) = Len(queue) - 1
      BY <2>2, <3>1, PopList
    <3>3. Len(Tail(queue)) <= QueueSize
      BY <3>1, <3>2
    <3>4. wpc' = [wpc EXCEPT ![w] = "create"] /\ job' = [job EXCEPT ![w] = Head(queue)]
          /\ queue' = Tail(queue) /\ f' = f /\ failed' = failed
      BY <1>5, <2>2 DEF NextJob, Goto
    <3>5. wpc' \in [Workers -> LoopPC \cup MainPC \cup {"exited"}]
          /\ job' \in [Workers -> Jobs \cup {Null}]
      BY <3>2, <3>4 DEF TypeOK, LoopPC
    <3>6. Started'
      BY <3>4 DEF Started, TypeOK
    <3>7. TypeOK'
      BY <1>5, <3>2, <3>3, <3>4, <3>5 DEF NextJob, TypeOK, fibers, futures, events, history
    <3>8. QED BY <3>6, <3>7
  <2>3. QED BY <2>1, <2>2
<1>6. ASSUME Create(w) PROVE TypeOK' /\ Started'
  <2>1. CASE free = <<>>
    BY <1>0, <1>6, <2>1 DEF Create, Assert, TypeOK, Started, lists, threads, fibers, futures, events, history, Goto, At, LoopPC
  <2>2. CASE free # <<>>
    <3>1. Head(free) \in FiberSet /\ Tail(free) \in Seq(FiberSet)
      BY <2>2, PopList DEF TypeOK
    <3>2. failed' \in {"none", "159job"}
      BY <1>6, <2>2 DEF Create, Assert
    <3>3. wpc' = [wpc EXCEPT ![w] = "start"] /\ f' = [f EXCEPT ![w] = Head(free)]
          /\ free' = Tail(free)
      BY <1>6, <2>2 DEF Create, Goto
    <3>4. wpc' \in [Workers -> LoopPC \cup MainPC \cup {"exited"}]
          /\ f' \in [Workers -> FiberSet \cup Workers \cup {Null}]
      BY <3>1, <3>3 DEF TypeOK, LoopPC
    <3>5. Started'
      BY <1>0, <3>1, <3>3 DEF Started, TypeOK
    <3>6. TypeOK'
      BY <1>6, <3>1, <3>2, <3>3, <3>4 DEF Create, TypeOK, fibers, futures, events, history
    <3>7. QED BY <3>5, <3>6
  <2>3. QED BY <2>1, <2>2
<1>7. ASSUME Start(w) PROVE TypeOK' /\ Started'
  BY <1>0, <1>7 DEF Start, Resume, Assert, LoopPC, TypeOK, Started, lists, threads, fibers, futures, events, history, Goto, At
<1>8. ASSUME Save(w) PROVE TypeOK' /\ Started'
  BY <1>0, <1>8 DEF Save, Resume, Assert, LoopPC, TypeOK, Started, lists, threads, fibers, futures, events, history, Goto, At
<1>9. ASSUME Check(w) PROVE TypeOK' /\ Started'
  <2>1. f[w] \in FiberSet /\ free \in Seq(FiberSet)
    BY <1>9 DEF Check, At, Started, TypeOK
  <2>2. free' \in Seq(FiberSet)
    BY <1>9, <2>1, PushList DEF Check
  <2>3. QED BY <1>0, <1>9, <2>2 DEF Check, TypeOK, Started, lists, threads, fibers, futures, events, history, Goto, At, LoopPC
<1>10. ASSUME Polled(w) PROVE TypeOK' /\ Started'
  BY <1>0, <1>10 DEF Polled, Resume, Assert, LoopPC, TypeOK, Started, lists, threads, fibers, futures, events, history, Goto, At
<1>11. ASSUME NEW j \in Jobs, Callback(w, j) PROVE TypeOK' /\ Started'
  <2>1. /\ left' \in [Askers -> 0 .. Cardinality(Jobs)]
        /\ waiter' \in [Askers -> FiberSet \cup {Main, Null}]
        /\ ready' \in Seq(FiberSet \cup Workers)
        /\ failed' \in {"none", "216"}
    BY <1>11, DecrType DEF Callback, Askers
  <2>2. QED BY <1>11, <2>1 DEF Callback, TypeOK, Started, lists, threads, fibers, futures, events, history, Goto, At
<1>12. QED BY <1>1, <1>2, <1>3, <1>4, <1>5, <1>6, <1>7, <1>8, <1>9, <1>10, <1>11 DEF LoopStep

LEMMA FiberType ==
  ASSUME Assumed, TypeOK, Started, failed = "none", NEW w \in Workers, NEW x \in FiberSet,
         FiberStep(w, x), fpc[x] # "end" => fjob[x] # Null,
         fpc[x] = "finish" => Owner(fjob[x]) \in Askers /\ left[Owner(fjob[x])] # 0
  PROVE  TypeOK' /\ Started'
<1>0. /\ \A v \in Workers : v \notin FiberSet
      /\ Null \notin FiberSet /\ Null \notin Workers
      /\ fjob[x] \in Jobs \cup {Null} /\ (fjob[x] # Null => fjob[x] \in Askers)
  BY Names DEF TypeOK, Askers
<1>1. ASSUME Begin(w, x) PROVE TypeOK' /\ Started'
  BY <1>0, <1>1 DEF Begin, Runs, Next_, Yield, LoopPC, TypeOK, Started, lists, threads, fibers, futures, events, history, Goto, At
<1>2. ASSUME Submit(w, x) PROVE TypeOK' /\ Started'
  <2>1. fjob[x] \in Askers
    BY <1>0, <1>2 DEF Submit, Runs
  <2>2. /\ put' \in [Askers -> Nat] /\ (\A k \in Askers : put'[k] <= Len(prog.kids[k]))
        /\ queue' \in Seq(Jobs) /\ Len(queue') <= QueueSize
    BY <1>2, <2>1, EnqueueType DEF Submit
  <2>3. QED BY <1>0, <1>2, <2>2 DEF Submit, TypeOK, Started, lists, threads, fibers, futures, events, history, Goto, At
<1>3. ASSUME Request(w, x) PROVE TypeOK' /\ Started'
  BY <1>0, <1>3 DEF Request, Runs, Next_, Yield, LoopPC, TypeOK, Started, lists, threads, fibers, futures, events, history, Goto, At
<1>4. ASSUME Submitted(w, x) PROVE TypeOK' /\ Started'
  BY <1>0, <1>4 DEF Submitted, Runs, Next_, Yield, LoopPC, TypeOK, Started, lists, threads, fibers, futures, events, history, Goto, At
<1>5. ASSUME Register(w, x) PROVE TypeOK' /\ Started'
  BY <1>0, <1>5 DEF Register, Runs, Next_, Yield, LoopPC, TypeOK, Started, lists, threads, fibers, futures, events, history, Goto, At
<1>6. ASSUME Sleep(w, x) PROVE TypeOK' /\ Started'
  BY <1>0, <1>6 DEF Sleep, Runs, Next_, Yield, LoopPC, TypeOK, Started, lists, threads, fibers, futures, events, history, Goto, At
<1>7. ASSUME Awake(w, x) PROVE TypeOK' /\ Started'
  BY <1>0, <1>7 DEF Awake, Runs, Next_, Yield, LoopPC, TypeOK, Started, lists, threads, fibers, futures, events, history, Goto, At
<1>8. ASSUME Finish(w, x) PROVE TypeOK' /\ Started'
  <2>1. /\ left' \in [Askers -> 0 .. Cardinality(Jobs)]
        /\ waiter' \in [Askers -> FiberSet \cup {Main, Null}]
        /\ ready' \in Seq(FiberSet \cup Workers)
        /\ failed' \in {"none", "216"}
    BY <1>8, DecrType DEF Finish, Runs
  <2>2. fjob[x] \in Jobs
    BY <1>0, <1>8 DEF Finish, Runs
  <2>3. QED BY <1>0, <1>8, <2>1, <2>2 DEF Finish, Runs, Next_, TypeOK, Started, lists, threads, fibers, futures, events, history, Goto, At
<1>9. ASSUME Clear(w, x) PROVE TypeOK' /\ Started'
  BY <1>0, <1>9 DEF Clear, Runs, Next_, Yield, LoopPC, TypeOK, Started, lists, threads, fibers, futures, events, history, Goto, At
<1>10. ASSUME End(w, x) PROVE TypeOK' /\ Started'
  BY <1>0, <1>10 DEF End, Runs, Next_, Yield, LoopPC, TypeOK, Started, lists, threads, fibers, futures, events, history, Goto, At
<1>11. QED BY <1>1, <1>2, <1>3, <1>4, <1>5, <1>6, <1>7, <1>8, <1>9, <1>10 DEF FiberStep

LEMMA MainType ==
  ASSUME Assumed, TypeOK, Started, failed = "none", MainStep
  PROVE  TypeOK' /\ Started'
<1>0. /\ (\A v \in Workers : v \notin FiberSet) /\ Main \in Workers /\ Main \in Askers
      /\ Null \notin FiberSet /\ Null \notin Workers
  BY Names
<1>1. ASSUME MainSubmit PROVE TypeOK' /\ Started'
  <2>1. /\ put' \in [Askers -> Nat] /\ (\A k \in Askers : put'[k] <= Len(prog.kids[k]))
        /\ queue' \in Seq(Jobs) /\ Len(queue') <= QueueSize
    BY <1>0, <1>1, EnqueueType DEF MainSubmit
  <2>2. QED BY <1>0, <1>1, <2>1 DEF MainSubmit, TypeOK, Started, lists, threads, fibers, futures, events, history, Goto, At
<1>2. ASSUME MainSubmitted PROVE TypeOK' /\ Started'
  BY <1>0, <1>2 DEF MainSubmitted, Assert, LoopPC, MainPC, TypeOK, Started, lists, threads, fibers, futures, events, history, Goto, At
<1>3. ASSUME MainRegister PROVE TypeOK' /\ Started'
  <2>1. CASE left[Main] = 0
    <3>1. wpc' = [wpc EXCEPT ![Main] = "return"] /\ UNCHANGED waiter
      BY <1>3, <2>1 DEF MainRegister, Goto
    <3>2. UNCHANGED <<prog, lists, f, job, fibers, put, left, events, history, failed>>
      BY <1>3 DEF MainRegister
    <3>3. TypeOK'
      BY <1>0, <3>1, <3>2 DEF MainPC, TypeOK, lists, fibers, events, history
    <3>4. Started'
      BY <1>0, <3>1, <3>2 DEF TypeOK, Started
    <3>5. QED BY <3>3, <3>4
  <2>2. CASE left[Main] # 0
    <3>1. wpc' = [wpc EXCEPT ![Main] = "pop"] /\ waiter' = [waiter EXCEPT ![Main] = Main]
      BY <1>3, <2>2 DEF MainRegister, Goto
    <3>2. UNCHANGED <<prog, lists, f, job, fibers, put, left, events, history, failed>>
      BY <1>3 DEF MainRegister
    <3>3. TypeOK'
      BY <1>0, <3>1, <3>2 DEF LoopPC, TypeOK, lists, fibers, events, history
    <3>4. Started'
      BY <1>0, <3>1, <3>2 DEF TypeOK, Started
    <3>5. QED BY <3>3, <3>4
  <2>3. QED BY <2>1, <2>2
<1>4. ASSUME MainReturn PROVE TypeOK' /\ Started'
  BY <1>0, <1>4 DEF MainReturn, Assert, LoopPC, MainPC, TypeOK, Started, lists, threads, fibers, futures, events, history, Goto, At
<1>5. ASSUME DestroyFibers PROVE TypeOK' /\ Started'
  <2>1. Fibers \in Seq(FiberSet) /\ free \in Seq(FiberSet)
    BY DEF Assumed, NodeAssumption, TypeOK
  <2>2. free' \in Seq(FiberSet)
    BY <1>5, <2>1, ConcatProperties DEF DestroyFibers
  <2>3. QED BY <1>0, <1>5, <2>2 DEF DestroyFibers, TypeOK, Started, lists, threads, fibers, futures, events, history, Goto, At, MainPC
<1>6. ASSUME Stopped PROVE TypeOK' /\ Started'
  BY <1>0, <1>6 DEF Stopped, Assert, LoopPC, MainPC, TypeOK, Started, lists, threads, fibers, futures, events, history, Goto, At
<1>7. ASSUME FreeContext PROVE TypeOK' /\ Started'
  BY <1>0, <1>7 DEF FreeContext, Assert, LoopPC, MainPC, TypeOK, Started, lists, threads, fibers, futures, events, history, Goto, At
<1>8. ASSUME NEW w \in Workers, StopOne(w) PROVE TypeOK' /\ Started'
  <2>1. ready' \in Seq(FiberSet \cup Workers)
    BY <1>8, PushList DEF StopOne, TypeOK
  <2>2. QED BY <1>0, <1>8, <2>1 DEF StopOne, TypeOK, Started, lists, threads, fibers, futures, events, history, Goto, At, MainPC
<1>9. QED BY <1>1, <1>2, <1>3, <1>4, <1>5, <1>6, <1>7, <1>8 DEF MainStep
-----------------------------------------------------------------------------
(***************************************************************************)
(* The pool is shut down quietly                                           *)
(***************************************************************************)
LEMMA QuietSteps ==
  ASSUME Assumed, TypeOK, Started, Quiet, ShuttingDown, failed = "none", Next
  PROVE  Quiet' /\ ShuttingDown' /\ failed' = "none"
<1> USE DEF LoopPC
<1>0. /\ \A v \in Workers : v \notin FiberSet
      /\ Null \notin FiberSet /\ Null \notin Workers /\ Main \in Workers
      /\ wpc[Main] \in {"stop", "stopping", "freed"}
      /\ wpc \in [Workers -> LoopPC \cup MainPC \cup {"exited"}]
      /\ f \in [Workers -> FiberSet \cup Workers \cup {Null}]
      /\ fpc \in [FiberSet -> {"loop", "submit", "register", "sleep", "awake",
                                "finish", "clear", "end"}]
  BY Names DEF ShuttingDown, TypeOK
<1> DEFINE Good(w) ==
        /\ wpc[w] \notin {"create", "start"}
        /\ wpc[w] = "popped" => f[w] \in Workers
        /\ wpc[w] = "run" => f[w] \in FiberSet /\ fpc[f[w]] \in {"clear", "end"}
        /\ w # Main => wpc[w] \in LoopPC \cup {"exited"}
<1>1. /\ queue = <<>> /\ (\A j \in Jobs : io[j] = Null)
      /\ \A x \in FiberSet : ~In(ready, x)
      /\ \A v, w \in Workers : f[v] = f[w] /\ f[v] \in FiberSet => v = w
      /\ \A w \in Workers : Good(w)
  BY DEF Quiet
<1>2. ASSUME NEW w \in Workers, w # Main, queue' = queue, io' = io,
             \A x \in FiberSet : ~In(ready', x), failed' = "none",
             \A v \in Workers : v # w => wpc'[v] = wpc[v] /\ f'[v] = f[v],
             f'[w] = f[w] \/ f'[w] \notin FiberSet,
             \A x \in FiberSet : f[w] # x => fpc'[x] = fpc[x],
             Good(w)'
      PROVE  Quiet' /\ ShuttingDown' /\ failed' = "none"
  <2>1. \A v, u \in Workers : f'[v] = f'[u] /\ f'[v] \in FiberSet => v = u
    BY <1>1, <1>2
  <2>2. ASSUME NEW v \in Workers, v # w PROVE Good(v)'
    <3>1. Good(v) /\ wpc'[v] = wpc[v] /\ f'[v] = f[v]
      BY <1>1, <1>2, <2>2
    <3>2. f[v] \in FiberSet => fpc'[f[v]] = fpc[f[v]]
      BY <1>1, <1>2, <2>2
    <3>3. QED BY <3>1, <3>2
  <2>3. ShuttingDown'
    BY <1>0, <1>2 DEF ShuttingDown
  <2>4. \A v \in Workers : Good(v)'
    BY <1>2, <2>2
  <2>5. QED BY <1>1, <1>2, <2>1, <2>3, <2>4 DEF Quiet
<1>3. ASSUME NEW w \in Workers, LoopStep(w)
      PROVE  Quiet' /\ ShuttingDown' /\ failed' = "none"
  <2>1. w # Main /\ Good(w)
    BY <1>0, <1>1, <1>3 DEF LoopStep, Pop, PopOwn, PopForeign, ResumeReady, NextJob, Create,
                      Start, Save, Check, Callback, Polled, At
  <2>2. ASSUME Pop(w) PROVE Quiet' /\ ShuttingDown' /\ failed' = "none"
    <3>1. CASE ready = <<>>
      <4>1. Good(w)'
        BY <1>0, <2>1, <2>2, <3>1 DEF Pop, Goto, fibers
      <4>2. QED BY <1>0, <1>1, <1>2, <2>1, <2>2, <3>1, <4>1 DEF Pop, Goto, At, lists, threads, fibers, futures, events, history
    <3>2. CASE ready # <<>>
      <4>1. /\ Head(ready) \in FiberSet \cup Workers /\ In(ready, Head(ready))
            /\ \A x : In(Tail(ready), x) => In(ready, x)
        BY <3>2, PopList DEF TypeOK
      <4>2. Head(ready) \in Workers
        BY <1>1, <4>1
      <4>3. Good(w)'
        BY <1>0, <2>1, <2>2, <3>2, <4>2 DEF Pop, Goto, fibers
      <4>4. /\ ready' = Tail(ready) /\ f' = [f EXCEPT ![w] = Head(ready)] /\ queue' = queue
            /\ io' = io /\ failed' = failed /\ fpc' = fpc /\ wpc' = [wpc EXCEPT ![w] = "popped"]
        BY <2>2, <3>2 DEF Pop, Goto, At, lists, threads, fibers, futures, events, history
      <4>5. f'[w] \notin FiberSet /\ \A x \in FiberSet : ~In(ready', x)
        BY <1>0, <1>1, <4>1, <4>2, <4>4
      <4>6. QED BY <1>0, <1>2, <2>1, <4>3, <4>4, <4>5
    <3>3. QED BY <3>1, <3>2
  <2>3. ASSUME PopOwn(w) PROVE Quiet' /\ ShuttingDown' /\ failed' = "none"
    <3>1. Good(w)'
      BY <1>0, <2>1, <2>3 DEF PopOwn, Goto, fibers
    <3>2. QED BY <1>0, <1>1, <1>2, <2>1, <2>3, <3>1 DEF PopOwn, Goto, At, lists, threads, fibers, futures, events, history
  <2>4. ASSUME PopForeign(w) PROVE Quiet' /\ ShuttingDown' /\ failed' = "none"
    <3>1. Good(w)'
      BY <1>0, <2>1, <2>4 DEF PopForeign, Goto, fibers
    <3>2. \A x \in FiberSet : ~In(ready', x)
      <4>1. f[w] \in Workers /\ ready \in Seq(FiberSet \cup Workers) /\ ready' = Push(ready, f[w])
        BY <2>4 DEF PopForeign, TypeOK
      <4>2. \A x : In(ready', x) <=> x = f[w] \/ In(ready, x)
        BY <4>1, PushList
      <4>3. QED BY <1>0, <1>1, <4>1, <4>2
    <3>3. QED BY <1>0, <1>1, <1>2, <2>1, <2>4, <3>1, <3>2 DEF PopForeign, Goto, At, lists, threads, fibers, futures, events, history
  <2>5. ASSUME NextJob(w) PROVE Quiet' /\ ShuttingDown' /\ failed' = "none"
    <3>1. Good(w)' /\ queue' = queue
      BY <1>0, <1>1, <2>1, <2>5 DEF NextJob, Goto, fibers
    <3>2. QED BY <1>0, <1>1, <1>2, <2>1, <2>5, <3>1 DEF NextJob, Goto, At, lists, threads, fibers, futures, events, history
  <2>6. ASSUME Save(w) PROVE Quiet' /\ ShuttingDown' /\ failed' = "none"
    <3>1. Good(w)'
      BY <1>0, <2>1, <2>6 DEF Save, Goto
    <3>2. QED BY <1>0, <1>1, <1>2, <2>1, <2>6, <3>1 DEF Save, Goto, At, lists, threads, fibers, futures, events, history
  <2>7. ASSUME Check(w) PROVE Quiet' /\ ShuttingDown' /\ failed' = "none"
    <3>1. Good(w)'
      BY <1>0, <2>1, <2>7 DEF Check, Goto, fibers
    <3>2. QED BY <1>0, <1>1, <1>2, <2>1, <2>7, <3>1 DEF Check, Goto, At, lists, threads, fibers, futures, events, history
  <2>8. ASSUME Polled(w) PROVE Quiet' /\ ShuttingDown' /\ failed' = "none"
    <3>1. Good(w)'
      BY <1>0, <2>1, <2>8 DEF Polled, Goto, fibers
    <3>2. QED BY <1>0, <1>1, <1>2, <2>1, <2>8, <3>1 DEF Polled, Goto, At, lists, threads, fibers, futures, events, history
  <2>9. ~ResumeReady(w) /\ ~Create(w) /\ ~Start(w) /\ \A j \in Jobs : ~Callback(w, j)
    BY <1>0, <1>1, <2>1 DEF ResumeReady, Create, Start, Callback, At
  <2>10. QED BY <1>3, <2>2, <2>3, <2>4, <2>5, <2>6, <2>7, <2>8, <2>9 DEF LoopStep
<1>4. ASSUME NEW w \in Workers, NEW x \in FiberSet, FiberStep(w, x)
      PROVE  Quiet' /\ ShuttingDown' /\ failed' = "none"
  <2>1. wpc[w] = "run" /\ f[w] = x /\ w # Main /\ Good(w)
    BY <1>0, <1>1, <1>4 DEF FiberStep, Begin, Submit, Request, Submitted, Register, Sleep, Awake,
                      Finish, Clear, End, Yield, Runs, At
  <2>2. fpc[x] \in {"clear", "end"}
    BY <2>1
  <2>3. Clear(w, x) \/ End(w, x)
    BY <1>4, <2>2 DEF FiberStep, Begin, Submit, Request, Submitted, Register, Sleep, Awake,
                      Finish, Yield, Runs
  <2>4. ASSUME Clear(w, x) PROVE Quiet' /\ ShuttingDown' /\ failed' = "none"
    <3>1. Good(w)'
      BY <1>0, <2>1, <2>4 DEF Clear, Next_, threads
    <3>2. QED BY <1>0, <1>1, <1>2, <2>1, <2>4, <3>1 DEF Clear, Next_, Goto, At, lists, threads, fibers, futures, events, history
  <2>5. ASSUME End(w, x) PROVE Quiet' /\ ShuttingDown' /\ failed' = "none"
    <3>1. Good(w)'
      BY <1>0, <2>1, <2>5 DEF End, Yield, Next_, Goto
    <3>2. QED BY <1>0, <1>1, <1>2, <2>1, <2>5, <3>1 DEF End, Yield, Next_, Goto, At, lists, threads, fibers, futures, events, history
  <2>6. QED BY <2>3, <2>4, <2>5
<1>5. ASSUME MainStep PROVE Quiet' /\ ShuttingDown' /\ failed' = "none"
  <2>1. ASSUME NEW w \in Workers, StopOne(w)
        PROVE  Quiet' /\ ShuttingDown' /\ failed' = "none"
    <3>1. ready \in Seq(FiberSet \cup Workers) /\ ready' = Push(ready, w)
      BY <2>1 DEF StopOne, TypeOK
    <3>2. \A x \in FiberSet : ~In(ready', x)
      <4>1. w \in FiberSet \cup Workers
        OBVIOUS
      <4>2. \A x : In(ready', x) <=> x = w \/ In(ready, x)
        BY <3>1, <4>1, PushList
      <4>3. QED BY <1>0, <1>1, <4>2
    <3>3. /\ wpc' = [wpc EXCEPT ![Main] = "stopping"] /\ f' = [f EXCEPT ![Main] = w]
          /\ queue' = queue /\ io' = io /\ fpc' = fpc /\ failed' = failed
      BY <2>1 DEF StopOne, Goto, At, lists, threads, fibers, futures, events, history
    <3>4. \A v, u \in Workers : f'[v] = f'[u] /\ f'[v] \in FiberSet => v = u
      BY <1>0, <1>1, <3>3
    <3>5. \A v \in Workers : Good(v)'
      BY <1>0, <1>1, <3>3
    <3>6. ShuttingDown'
      BY <1>0, <3>3 DEF ShuttingDown
    <3>7. QED BY <1>1, <3>2, <3>3, <3>4, <3>5, <3>6 DEF Quiet
  <2>2. ASSUME Stopped \/ FreeContext PROVE Quiet' /\ ShuttingDown' /\ failed' = "none"
    <3>1. /\ \E l \in {"stop", "freed"} : wpc' = [wpc EXCEPT ![Main] = l]
          /\ queue' = queue /\ io' = io /\ fpc' = fpc /\ failed' = failed /\ f' = f /\ ready' = ready
      BY <2>2 DEF Stopped, FreeContext, Goto, At, lists, threads, fibers, futures, events, history
    <3>2. wpc'[Main] \in {"stop", "freed"} /\ \A v \in Workers : v # Main => wpc'[v] = wpc[v]
      BY <1>0, <3>1
    <3>3. \A v \in Workers : Good(v)'
      BY <1>1, <3>1, <3>2
    <3>4. QED BY <1>1, <3>1, <3>2, <3>3 DEF Quiet, ShuttingDown
  <2>3. ~MainSubmit /\ ~MainSubmitted /\ ~MainRegister /\ ~MainReturn /\ ~DestroyFibers
    BY <1>0 DEF MainSubmit, MainSubmitted, MainRegister, MainReturn, DestroyFibers, At
  <2>4. QED BY <1>5, <2>1, <2>2, <2>3 DEF MainStep
<1>6. ASSUME NEW j \in Jobs, Answer(j) PROVE FALSE
  BY <1>1, <1>6 DEF Answer, Complete
<1>7. QED BY <1>3, <1>4, <1>5, <1>6 DEF Next, WorkerStep
-----------------------------------------------------------------------------
(***************************************************************************)
(* The steps of worker_loop                                                *)
(***************************************************************************)
Going == PlaceInv /\ JobInv /\ ~ShuttingDown

\* The main thread does not notice what has nothing to do with it.
LEMMA MainFrame ==
  ASSUME Assumed, MainInv, left' = left, waiter' = waiter,
         \A v \in Workers : In(ready', v) <=> In(ready, v),
         \A v \in Workers : wpc'[v] = "popped" /\ f'[v] \in Workers
                              <=> wpc[v] = "popped" /\ f[v] \in Workers,
         \A v \in Workers : wpc[v] = "popped" /\ f[v] \in Workers => f'[v] = f[v],
         \A v \in Workers : wpc'[v] = wpc[v] \/ (wpc[v] \in LoopPC /\ wpc'[v] \in LoopPC)
  PROVE  MainInv' /\ (ShuttingDown' <=> ShuttingDown)
<1>1. Main \in Workers
  BY Names
<1>2. wpc'[Main] = wpc[Main] \/ (wpc[Main] \in LoopPC /\ wpc'[Main] \in LoopPC)
  BY <1>1
<1>3. Returned' <=> Returned
  BY <1>2 DEF Returned, LoopPC
<1>4. ShuttingDown' <=> ShuttingDown
  BY <1>2 DEF ShuttingDown, LoopPC
<1>5. \A v \in Workers : v # Main => wpc'[v] \in LoopPC
  BY DEF MainInv
<1>6. \A v \in Workers : wpc'[v] = "popped" /\ f'[v] \in Workers =>
        wpc[v] = "popped" /\ f[v] = f'[v]
  OBVIOUS
<1>7. wpc'[Main] \in LoopPC <=> wpc[Main] \in LoopPC
  BY <1>2
<1>8. QED BY <1>1, <1>3, <1>4, <1>5, <1>6, <1>7 DEF MainInv

\* A worker that is not between taking and leaving a fiber has none.
LEMMA EmptyHands ==
  ASSUME PlaceInv, NEW w \in Workers, wpc[w] \notin HoldPC
  PROVE  f[w] \notin FiberSet
BY DEF PlaceInv, HeldInv

LEMMA FiberInv ==
  ASSUME PlaceInv, NEW x \in FiberSet
  PROVE  /\ FreeInv(x) /\ ReadyInv(x) /\ WaiterInv(x) /\ NowhereInv(x)
         /\ \A w \in Workers : HeldInv(w, x) /\ WakerInv(w, x)
BY DEF PlaceInv

LEMMA PopKeeps ==
  ASSUME Assumed, TypeOK, Going, failed = "none", NEW w \in Workers, Pop(w)
  PROVE  Going' /\ failed' = "none"
<1>1. /\ wpc[w] = "pop" /\ prog' = prog /\ free' = free /\ queue' = queue /\ job' = job
      /\ fpc' = fpc /\ fjob' = fjob /\ saved' = saved /\ put' = put /\ left' = left
      /\ waiter' = waiter /\ io' = io /\ ran' = ran /\ finished' = finished /\ failed' = failed
  BY DEF Pop, At, fibers, futures, events, history
<1>2. /\ wpc \in [Workers -> LoopPC \cup MainPC \cup {"exited"}] /\ MainInv
      /\ f \in [Workers -> FiberSet \cup Workers \cup {Null}]
      /\ ready \in Seq(FiberSet \cup Workers) /\ NoTwice(free) /\ NoTwice(ready)
  BY DEF TypeOK, Going, PlaceInv
<1>3. f[w] \notin FiberSet
  BY <1>1, EmptyHands DEF HoldPC, Going
<1>4. CASE ready = <<>>
  <2>1. wpc' = [wpc EXCEPT ![w] = "next"] /\ ready' = ready /\ f' = f
    BY <1>4 DEF Pop, Goto
  <2>2. wpc'[w] = "next" /\ \A v \in Workers : v # w => wpc'[v] = wpc[v]
    BY <1>2, <2>1
  <2>3. MainInv' /\ ~ShuttingDown'
    BY <1>1, <1>2, <2>1, <2>2, MainFrame DEF Going, LoopPC
  <2>4. PlaceInv'
    BY <1>1, <1>2, <1>3, <2>1, <2>2, <2>3, PlaceFrame DEF Going
  <2>5. JobInv'
    BY <1>1, <2>2, JobFrame DEF Going, Taking
  <2>6. QED BY <1>1, <2>3, <2>4, <2>5 DEF Going
<1>5. CASE ready # <<>>
  <2> DEFINE x == Head(ready)
  <2>1. /\ wpc' = [wpc EXCEPT ![w] = "popped"] /\ ready' = Tail(ready)
        /\ f' = [f EXCEPT ![w] = Head(ready)]
    BY <1>5 DEF Pop, Goto
  <2>2. /\ wpc'[w] = "popped" /\ \A v \in Workers : v # w => wpc'[v] = wpc[v]
        /\ f'[w] = Head(ready) /\ \A v \in Workers : v # w => f'[v] = f[v]
    BY <1>2, <2>1
  <2>3. /\ Head(ready) \in FiberSet \cup Workers /\ In(ready, Head(ready))
        /\ NoTwice(ready') /\ ~In(ready', Head(ready))
        /\ \A y : In(ready, y) <=> y = Head(ready) \/ In(ready', y)
    BY <1>2, <1>5, <2>1, PopList
  <2>4. PICK h \in FiberSet \cup Workers : h = Head(ready)
    BY <2>3
  <2>5. JobInv'
    BY <1>1, <2>2, JobFrame DEF Going, Taking
  <2>6. CASE h \in FiberSet
    <3>1. \A v \in Workers : v \notin FiberSet
      BY Names
    <3>2. MainInv' /\ ~ShuttingDown'
      <4>1. \A v \in Workers : In(ready', v) <=> In(ready, v)
        BY <2>3, <2>4, <2>6, <3>1
      <4>2. \A v \in Workers : wpc'[v] = "popped" /\ f'[v] \in Workers
                              <=> wpc[v] = "popped" /\ f[v] \in Workers
        BY <1>1, <2>2, <2>4, <2>6, <3>1
      <4>3. QED BY <1>1, <1>2, <2>2, <4>1, <4>2, MainFrame DEF Going, LoopPC
    <3>3. /\ Woken(h) /\ ~In(free, h) /\ \A v \in Workers : f[v] # h
      BY <2>3, <2>4, <2>6, FiberInv DEF FreeInv, ReadyInv, HeldInv, Going
    <3>4. Woken(h)'
      BY <1>1, <3>3 DEF Woken, Unawaited
    <3>5. FreeInv(h)' /\ ReadyInv(h)'
      BY <1>1, <2>3, <2>4, <3>3 DEF FreeInv, ReadyInv
    <3>6. WaiterInv(h)'
      BY <3>4 DEF WaiterInv, Woken, Unawaited
    <3>7. NowhereInv(h)'
      BY <2>2, <2>4 DEF NowhereInv, Held
    <3>8. ASSUME NEW v \in Workers PROVE HeldInv(v, h)' /\ WakerInv(v, h)'
      <4>1. SUFFICES ASSUME f'[v] = h PROVE HeldInv(v, h)' /\ WakerInv(v, h)'
        BY DEF HeldInv, WakerInv
      <4>2. v = w /\ wpc'[v] = "popped"
        BY <2>2, <3>3, <4>1
      <4>3. \A u \in Workers : f'[u] = h => u = v
        BY <2>2, <3>3, <4>2
      <4>4. HeldInv(v, h)'
        BY <1>1, <2>3, <2>4, <3>3, <3>4, <4>2, <4>3 DEF HeldInv, HoldPC
      <4>5. WakerInv(v, h)'
        BY <4>2 DEF WakerInv
      <4>6. QED BY <4>4, <4>5
    <3>9. PlaceInv'
      BY <1>1, <1>2, <1>3, <2>2, <2>3, <2>4, <2>6, <3>2, <3>5, <3>6, <3>7, <3>8, MovePlace
         DEF Going
    <3>10. QED BY <1>1, <2>5, <3>2, <3>9 DEF Going
  <2>7. CASE h \in Workers
    <3>1. h = Main /\ h \notin FiberSet
      BY <1>2, <2>3, <2>4, <2>7, Names DEF MainInv
    <3>2. left[Main] = 0 /\ waiter[Main] = Null /\ ~In(ready', Main) /\ In(ready, Main)
      BY <1>2, <2>3, <2>4, <3>1 DEF MainInv
    <3>3. MainInv'
      <4>1. \A v \in Workers : ~In(ready', v)
        BY <1>2, <2>3, <3>2 DEF MainInv
      <4>2. \A v \in Workers : ~(wpc[v] = "popped" /\ f[v] = Main)
        BY <1>2, <3>2 DEF MainInv
      <4>3. \A v \in Workers : wpc'[v] = "popped" /\ f'[v] = Main => v = w
        BY <2>2, <4>2
      <4>4. \A v \in Workers : wpc'[v] = "popped" /\ f'[v] \in Workers => f'[v] = Main
        BY <1>2, <2>2, <2>4, <3>1 DEF MainInv
      <4>5. wpc'[Main] \in LoopPC
        BY <1>1, <1>2, <2>2, <3>2, Names DEF MainInv, LoopPC
      <4>6. \A v \in Workers : v # Main => wpc'[v] \in LoopPC
        BY <1>2, <2>2 DEF MainInv, LoopPC
      <4>7. QED BY <1>1, <1>2, <3>2, <4>1, <4>3, <4>4, <4>5, <4>6 DEF MainInv
    <3>4. ~ShuttingDown'
      BY <1>2, <2>2, Names DEF Going, ShuttingDown
    <3>5. \A y \in FiberSet : In(ready', y) <=> In(ready, y)
      BY <2>3, <2>4, <3>1
    <3>6. \A v \in Workers, y \in FiberSet : f'[v] = y <=> f[v] = y
      BY <1>3, <2>2, <2>4, <3>1
    <3>7. \A v \in Workers : f[v] \in FiberSet => wpc'[v] = wpc[v]
      BY <1>3, <2>2
    <3>8. PlaceInv'
      BY <1>1, <2>3, <3>3, <3>5, <3>6, <3>7, PlaceFrame DEF Going
    <3>9. QED BY <1>1, <2>5, <3>4, <3>8 DEF Going
  <2>8. QED BY <2>6, <2>7
<1>6. QED BY <1>4, <1>5

\* The wait of the main thread is over.
LEMMA PopOwnKeeps ==
  ASSUME Assumed, TypeOK, Going, failed = "none", NEW w \in Workers, PopOwn(w)
  PROVE  Going' /\ failed' = "none"
<1>1. /\ wpc[w] = "popped" /\ f[w] = w /\ wpc' = [wpc EXCEPT ![w] = IF w = Main THEN "return" ELSE "exited"]
      /\ prog' = prog /\ free' = free /\ ready' = ready /\ queue' = queue /\ job' = job /\ f' = f
      /\ fpc' = fpc /\ fjob' = fjob /\ saved' = saved /\ put' = put /\ left' = left
      /\ waiter' = waiter /\ io' = io /\ ran' = ran /\ finished' = finished /\ failed' = failed
  BY DEF PopOwn, At, Goto, lists, fibers, futures, events, history
<1>2. wpc \in [Workers -> LoopPC \cup MainPC \cup {"exited"}] /\ MainInv /\ NoTwice(ready)
  BY DEF TypeOK, Going, PlaceInv
<1>3. w = Main /\ w \notin FiberSet
  BY <1>1, <1>2, Names DEF MainInv
<1>4. wpc'[Main] = "return" /\ \A v \in Workers : v # Main => wpc'[v] = wpc[v]
  BY <1>1, <1>2, <1>3
<1>5. /\ left[Main] = 0 /\ waiter[Main] = Null /\ ~In(ready, Main)
      /\ \A v \in Workers : wpc[v] = "popped" /\ f[v] = Main => v = Main
  BY <1>1, <1>2, <1>3 DEF MainInv
<1>6. MainInv'
  <2>1. \A v \in Workers : ~(wpc'[v] = "popped" /\ f[v] = Main)
    BY <1>4, <1>5
  <2>2. \A v \in Workers : wpc'[v] = "popped" => wpc[v] = "popped"
    BY <1>1, <1>3
  <2>3. QED BY <1>1, <1>2, <1>4, <1>5, <2>1, <2>2 DEF MainInv
<1>7. PlaceInv'
  BY <1>1, <1>2, <1>3, <1>4, <1>6, PlaceFrame DEF Going
<1>8. JobInv'
  BY <1>1, <1>3, <1>4, JobFrame DEF Going, Taking
<1>9. QED BY <1>1, <1>4, <1>7, <1>8 DEF Going, ShuttingDown

\* The scheduling fiber of the main thread goes back.
LEMMA PopForeignKeeps ==
  ASSUME Assumed, TypeOK, Going, failed = "none", NEW w \in Workers, PopForeign(w)
  PROVE  Going' /\ failed' = "none"
<1>1. /\ wpc[w] = "popped" /\ f[w] \in Workers \ {w} /\ wpc' = [wpc EXCEPT ![w] = "next"]
      /\ prog' = prog /\ free' = free /\ queue' = queue /\ job' = job /\ f' = f
      /\ ready' = Push(ready, f[w])
      /\ fpc' = fpc /\ fjob' = fjob /\ saved' = saved /\ put' = put /\ left' = left
      /\ waiter' = waiter /\ io' = io /\ ran' = ran /\ finished' = finished /\ failed' = failed
  BY DEF PopForeign, At, Goto, fibers, futures, events, history
<1>2. /\ wpc \in [Workers -> LoopPC \cup MainPC \cup {"exited"}] /\ MainInv /\ NoTwice(ready)
      /\ ready \in Seq(FiberSet \cup Workers)
  BY DEF TypeOK, Going, PlaceInv
<1>3. f[w] = Main /\ w # Main /\ f[w] \notin FiberSet
  BY <1>1, <1>2, Names DEF MainInv
<1>4. wpc'[w] = "next" /\ wpc'[Main] = wpc[Main] /\ \A v \in Workers : v # w => wpc'[v] = wpc[v]
  BY <1>1, <1>2, <1>3, Names
<1>5. /\ left[Main] = 0 /\ waiter[Main] = Null /\ ~In(ready, Main) /\ wpc[Main] \in LoopPC
      /\ \A v \in Workers : wpc[v] = "popped" /\ f[v] = Main => v = w
  BY <1>1, <1>2, <1>3 DEF MainInv
<1>6. NoTwice(ready') /\ \A y : In(ready', y) <=> y = Main \/ In(ready, y)
  BY <1>1, <1>2, <1>3, <1>5, PushList
<1>7. MainInv'
  <2>1. \A v \in Workers : ~(wpc'[v] = "popped" /\ f[v] = Main)
    BY <1>4, <1>5
  <2>2. \A v \in Workers : wpc'[v] = "popped" => wpc[v] = "popped"
    BY <1>4
  <2>3. \A v \in Workers : v # Main => wpc'[v] \in LoopPC
    BY <1>2, <1>4 DEF MainInv, LoopPC
  <2>4. QED BY <1>1, <1>2, <1>4, <1>5, <1>6, <2>1, <2>2, <2>3 DEF MainInv
<1>8. PlaceInv'
  <2>1. \A y \in FiberSet : In(ready', y) <=> In(ready, y)
    BY <1>3, <1>6
  <2>2. QED BY <1>1, <1>3, <1>4, <1>6, <1>7, <2>1, PlaceFrame DEF Going
<1>9. JobInv'
  BY <1>1, <1>4, JobFrame DEF Going, Taking
<1>10. QED BY <1>1, <1>4, <1>8, <1>9 DEF Going, ShuttingDown

LEMMA ResumeReadyKeeps ==
  ASSUME Assumed, TypeOK, Going, failed = "none", NEW w \in Workers, ResumeReady(w)
  PROVE  Going' /\ failed' = "none"
<1>1. PICK x \in FiberSet : x = f[w]
  BY DEF ResumeReady
<1>2. /\ wpc[w] = "popped" /\ wpc' = [wpc EXCEPT ![w] = "run"] /\ saved' = [saved EXCEPT ![x] = FALSE]
      /\ prog' = prog /\ free' = free /\ ready' = ready /\ queue' = queue /\ job' = job /\ f' = f
      /\ fpc' = fpc /\ fjob' = fjob /\ put' = put /\ left' = left
      /\ waiter' = waiter /\ io' = io /\ ran' = ran /\ finished' = finished
  BY <1>1 DEF ResumeReady, Resume, At, Goto, lists, futures, events, history
<1>3. wpc \in [Workers -> LoopPC \cup MainPC \cup {"exited"}] /\ saved \in [FiberSet -> BOOLEAN]
  BY DEF TypeOK
<1>4. wpc'[w] = "run" /\ \A v \in Workers : v # w => wpc'[v] = wpc[v]
  BY <1>2, <1>3
<1>5. HeldInv(w, x) /\ Woken(x) /\ \A v \in Workers : f[v] = x => v = w
  BY <1>1, <1>2, FiberInv DEF HeldInv, Going
<1>6. failed' = "none"
  BY <1>1, <1>5 DEF ResumeReady, Assert, Woken
<1>7. HeldInv(w, x)'
  BY <1>1, <1>2, <1>4, <1>5 DEF HeldInv, HoldPC, Woken
<1>8. WakerInv(w, x)' /\ WaiterInv(x)'
  BY <1>1, <1>2, <1>4, <1>5 DEF WakerInv, WaiterInv, Woken, Unawaited
<1>9. \A y \in FiberSet : y # x => saved'[y] = saved[y]
  BY <1>2, <1>3
<1>10. OneCarrier
  BY DEF Going, JobInv, CarriedInv, OneCarrier
<1>11. PlaceInv'
  BY <1>1, <1>2, <1>4, <1>7, <1>8, <1>9, <1>10, LocalPlace DEF Going, HoldPC
<1>12. JobInv'
  BY <1>2, <1>4, JobFrame DEF Going, Taking
<1>13. ~ShuttingDown'
  BY <1>4, Names DEF Going, ShuttingDown
<1>14. QED BY <1>6, <1>11, <1>12, <1>13 DEF Going

LEMMA NextJobGoes ==
  ASSUME Assumed, TypeOK, Going, failed = "none", NEW w \in Workers, NextJob(w)
  PROVE  Going' /\ failed' = "none"
<1>1. /\ wpc[w] = "next" /\ (\E l \in {"poll", "create"} : wpc' = [wpc EXCEPT ![w] = l])
      /\ prog' = prog /\ free' = free /\ ready' = ready /\ f' = f
      /\ fpc' = fpc /\ fjob' = fjob /\ saved' = saved /\ left' = left
      /\ waiter' = waiter /\ io' = io /\ failed' = failed
  BY DEF NextJob, At, Goto, fibers, futures, events
<1>2. wpc \in [Workers -> LoopPC \cup MainPC \cup {"exited"}] /\ MainInv /\ NoTwice(ready)
  BY DEF TypeOK, Going, PlaceInv
<1>3. wpc'[w] \in {"poll", "create"} /\ \A v \in Workers : v # w => wpc'[v] = wpc[v]
  BY <1>1, <1>2
<1>4. f[w] \notin FiberSet
  BY <1>1, EmptyHands DEF HoldPC, Going
<1>5. MainInv' /\ ~ShuttingDown'
  BY <1>1, <1>2, <1>3, MainFrame DEF Going, LoopPC
<1>6. PlaceInv'
  BY <1>1, <1>2, <1>3, <1>4, <1>5, PlaceFrame DEF Going
<1>7. JobInv'
  BY NextJobKeeps DEF Going
<1>8. QED BY <1>1, <1>5, <1>6, <1>7 DEF Going

LEMMA PolledKeeps ==
  ASSUME Assumed, TypeOK, Going, failed = "none", NEW w \in Workers, Polled(w)
  PROVE  Going' /\ failed' = "none"
<1>1. /\ wpc[w] = "poll" /\ wpc' = [wpc EXCEPT ![w] = "pop"]
      /\ prog' = prog /\ free' = free /\ ready' = ready /\ f' = f /\ queue' = queue /\ job' = job
      /\ fpc' = fpc /\ fjob' = fjob /\ saved' = saved /\ left' = left /\ put' = put
      /\ waiter' = waiter /\ io' = io /\ ran' = ran /\ finished' = finished /\ failed' = failed
  BY DEF Polled, At, Goto, lists, fibers, futures, events, history
<1>2. wpc \in [Workers -> LoopPC \cup MainPC \cup {"exited"}] /\ MainInv /\ NoTwice(ready)
  BY DEF TypeOK, Going, PlaceInv
<1>3. wpc'[w] = "pop" /\ \A v \in Workers : v # w => wpc'[v] = wpc[v]
  BY <1>1, <1>2
<1>4. f[w] \notin FiberSet
  BY <1>1, EmptyHands DEF HoldPC, Going
<1>5. MainInv' /\ ~ShuttingDown'
  BY <1>1, <1>2, <1>3, MainFrame DEF Going, LoopPC
<1>6. PlaceInv'
  BY <1>1, <1>2, <1>3, <1>4, <1>5, PlaceFrame DEF Going
<1>7. JobInv'
  BY <1>1, <1>3, JobFrame DEF Going, Taking
<1>8. QED BY <1>1, <1>5, <1>6, <1>7 DEF Going

\* A free fiber is taken for the job, if there is one.
LEMMA CreateKeeps ==
  ASSUME Assumed, TypeOK, Going, failed = "none", NEW w \in Workers, Create(w)
  PROVE  /\ Going' /\ failed' \in {"none", "159f"}
         /\ free # <<>> => failed' = "none"
<1>1. /\ wpc[w] = "create" /\ wpc' = [wpc EXCEPT ![w] = "start"]
      /\ prog' = prog /\ ready' = ready /\ queue' = queue /\ job' = job
      /\ fpc' = fpc /\ fjob' = fjob /\ saved' = saved /\ left' = left /\ put' = put
      /\ waiter' = waiter /\ io' = io /\ ran' = ran /\ finished' = finished
  BY DEF Create, At, Goto, fibers, futures, events, history
<1>2. /\ wpc \in [Workers -> LoopPC \cup MainPC \cup {"exited"}] /\ MainInv
      /\ f \in [Workers -> FiberSet \cup Workers \cup {Null}]
      /\ free \in Seq(FiberSet) /\ NoTwice(free) /\ NoTwice(ready)
      /\ \A v \in Workers : v \notin FiberSet
  BY Names DEF TypeOK, Going, PlaceInv
<1>3. wpc'[w] = "start" /\ \A v \in Workers : v # w => wpc'[v] = wpc[v]
  BY <1>1, <1>2
<1>4. f[w] \notin FiberSet
  BY <1>1, EmptyHands DEF HoldPC, Going
<1>5. JobInv'
  BY <1>1, <1>3, JobFrame DEF Going, Taking
<1>6. CASE free = <<>>
  <2>1. f' = f /\ free' = free /\ failed' = "159f"
    BY <1>6 DEF Create, Assert
  <2>2. MainInv' /\ ~ShuttingDown'
    BY <1>1, <1>2, <1>3, <2>1, MainFrame DEF Going, LoopPC
  <2>3. PlaceInv'
    BY <1>1, <1>2, <1>3, <1>4, <2>1, <2>2, PlaceFrame DEF Going
  <2>4. QED BY <1>5, <1>6, <2>1, <2>2, <2>3 DEF Going
<1>7. CASE free # <<>>
  <2>1. PICK x \in FiberSet : x = Head(free)
    BY <1>2, <1>7, PopList
  <2>2. /\ In(free, x) /\ NoTwice(free') /\ ~In(free', x)
        /\ \A y : In(free, y) <=> y = x \/ In(free', y)
        /\ f' = [f EXCEPT ![w] = x]
    <3>1. free' = Tail(free) /\ f' = [f EXCEPT ![w] = x]
      BY <1>7, <2>1 DEF Create
    <3>2. QED BY <1>2, <1>7, <2>1, <3>1, PopList
  <2>3. f'[w] = x /\ \A v \in Workers : v # w => f'[v] = f[v]
    BY <1>2, <2>2
  <2>4. /\ fpc[x] = "loop" /\ fjob[x] = Null /\ saved[x] /\ ~In(ready, x)
        /\ \A v \in Workers : f[v] # x
        /\ Unawaited(x)
    <3>1. fpc[x] = "loop" /\ fjob[x] = Null /\ saved[x] /\ ~In(ready, x)
      BY <2>2, FiberInv DEF FreeInv, Going
    <3>2. \A v \in Workers : f[v] # x
      BY <2>2, FiberInv DEF HeldInv, Going
    <3>3. Unawaited(x)
      BY <3>1, FiberInv, Names DEF WaiterInv, Unawaited, Going
    <3>4. QED BY <3>1, <3>2, <3>3
  <2>5. failed' = "none"
    BY <1>7, <2>1, <2>4 DEF Create, Assert
  <2>6. MainInv' /\ ~ShuttingDown'
    <3>1. \A v \in Workers : wpc'[v] = "popped" /\ f'[v] \in Workers
                              <=> wpc[v] = "popped" /\ f[v] \in Workers
      BY <1>1, <1>2, <1>3, <2>3
    <3>2. QED BY <1>1, <1>2, <1>3, <2>3, <3>1, MainFrame DEF Going, LoopPC
  <2>7. FreeInv(x)' /\ ReadyInv(x)' /\ WaiterInv(x)' /\ NowhereInv(x)'
    <3>1. FreeInv(x)' /\ ReadyInv(x)' /\ WaiterInv(x)'
      BY <1>1, <2>2, <2>4 DEF FreeInv, ReadyInv, WaiterInv, Unawaited
    <3>2. NowhereInv(x)'
      BY <2>3 DEF NowhereInv, Held
    <3>3. QED BY <3>1, <3>2
  <2>8. ASSUME NEW v \in Workers PROVE HeldInv(v, x)' /\ WakerInv(v, x)'
    <3>1. SUFFICES ASSUME f'[v] = x PROVE HeldInv(v, x)' /\ WakerInv(v, x)'
      BY DEF HeldInv, WakerInv
    <3>2. v = w /\ \A u \in Workers : f'[u] = x => u = v
      BY <2>3, <2>4, <3>1
    <3>3. HeldInv(v, x)'
      BY <1>1, <1>3, <2>2, <2>4, <3>2 DEF HeldInv, HoldPC
    <3>4. WakerInv(v, x)'
      BY <1>3, <3>2 DEF WakerInv
    <3>5. QED BY <3>3, <3>4
  <2>9. \A y \in FiberSet : y # x =>
          /\ In(free', y) <=> In(free, y)
          /\ \A v \in Workers : f'[v] = y <=> f[v] = y
    BY <1>4, <2>2, <2>3
  <2>10. \A v \in Workers : f[v] \in FiberSet => wpc'[v] = wpc[v]
    BY <1>3, <1>4
  <2>11. PlaceInv'
    BY <1>1, <1>2, <2>2, <2>6, <2>7, <2>8, <2>9, <2>10, MovePlace DEF Going
  <2>12. QED BY <1>5, <2>5, <2>6, <2>11 DEF Going
<1>8. QED BY <1>6, <1>7

LEMMA StartGoes ==
  ASSUME Assumed, TypeOK, Started, Going, failed = "none", NEW w \in Workers, Start(w)
  PROVE  Going' /\ failed' = "none"
<1>1. PICK x \in FiberSet : x = f[w]
  BY DEF Start, At, Started
<1>2. /\ wpc[w] = "start" /\ wpc' = [wpc EXCEPT ![w] = "run"] /\ saved' = [saved EXCEPT ![x] = FALSE]
      /\ fjob' = [fjob EXCEPT ![x] = job[w]]
      /\ prog' = prog /\ free' = free /\ ready' = ready /\ queue' = queue /\ job' = job /\ f' = f
      /\ fpc' = fpc /\ put' = put /\ left' = left
      /\ waiter' = waiter /\ io' = io /\ ran' = ran /\ finished' = finished
  BY <1>1 DEF Start, Resume, At, Goto, lists, futures, events, history
<1>3. /\ wpc \in [Workers -> LoopPC \cup MainPC \cup {"exited"}]
      /\ saved \in [FiberSet -> BOOLEAN] /\ fjob \in [FiberSet -> Jobs \cup {Null}]
  BY DEF TypeOK
<1>4. wpc'[w] = "run" /\ \A v \in Workers : v # w => wpc'[v] = wpc[v]
  BY <1>2, <1>3
<1>5. /\ fpc[x] = "loop" /\ fjob[x] = Null /\ saved[x] /\ ~In(free, x) /\ ~In(ready, x)
      /\ \A v \in Workers : f[v] = x => v = w
  BY <1>1, <1>2, FiberInv DEF HeldInv, Going
<1>6. failed' = "none"
  BY <1>1, <1>5 DEF Start, Assert
<1>7. Unawaited(x)
  BY <1>5, FiberInv, Names DEF WaiterInv, Unawaited, Going
<1>8. job[w] # Null
  BY <1>2 DEF Going, JobInv, TakenInv, Taking
<1>9. /\ fjob'[x] = job[w] /\ \A y \in FiberSet : y # x => saved'[y] = saved[y] /\ fjob'[y] = fjob[y]
  BY <1>2, <1>3
<1>10. HeldInv(w, x)'
  BY <1>1, <1>2, <1>4, <1>5, <1>8, <1>9 DEF HeldInv, HoldPC
<1>11. WakerInv(w, x)' /\ WaiterInv(x)'
  BY <1>1, <1>2, <1>4, <1>5, <1>7 DEF WakerInv, WaiterInv, Unawaited
<1>12. OneCarrier
  BY DEF Going, JobInv, CarriedInv, OneCarrier
<1>13. PlaceInv'
  BY <1>1, <1>2, <1>4, <1>9, <1>10, <1>11, <1>12, LocalPlace DEF Going, HoldPC
<1>14. JobInv'
  BY <1>1, <1>5, StartKeeps DEF Going
<1>15. ~ShuttingDown'
  BY <1>4, Names DEF Going, ShuttingDown
<1>16. QED BY <1>6, <1>13, <1>14, <1>15 DEF Going

LEMMA SaveKeeps ==
  ASSUME Assumed, TypeOK, Started, Going, failed = "none", NEW w \in Workers, Save(w)
  PROVE  Going' /\ failed' = "none"
<1>1. PICK x \in FiberSet : x = f[w]
  BY DEF Save, At, Started
<1>2. /\ wpc[w] = "save" /\ wpc' = [wpc EXCEPT ![w] = "check"] /\ saved' = [saved EXCEPT ![x] = TRUE]
      /\ prog' = prog /\ free' = free /\ ready' = ready /\ queue' = queue /\ job' = job /\ f' = f
      /\ fpc' = fpc /\ fjob' = fjob /\ put' = put /\ left' = left /\ failed' = failed
      /\ waiter' = waiter /\ io' = io /\ ran' = ran /\ finished' = finished
  BY <1>1 DEF Save, At, Goto, lists, futures, events, history
<1>3. wpc \in [Workers -> LoopPC \cup MainPC \cup {"exited"}] /\ saved \in [FiberSet -> BOOLEAN]
  BY DEF TypeOK
<1>4. /\ wpc'[w] = "check" /\ \A v \in Workers : v # w => wpc'[v] = wpc[v]
      /\ saved'[x] /\ \A y \in FiberSet : y # x => saved'[y] = saved[y]
  BY <1>2, <1>3
<1>5. HeldInv(w, x) /\ WakerInv(w, x) /\ WaiterInv(x) /\ \A v \in Workers : f[v] = x => v = w
  BY <1>1, <1>2, FiberInv DEF HeldInv, Going
<1>6. HeldInv(w, x)'
  BY <1>1, <1>2, <1>4, <1>5 DEF HeldInv, HoldPC
<1>7. WakerInv(w, x)'
  BY <1>1, <1>2, <1>4, <1>5 DEF WakerInv
<1>8. WaiterInv(x)'
  BY <1>1, <1>2, <1>4, <1>5 DEF WaiterInv, Held
<1>9. OneCarrier
  BY DEF Going, JobInv, CarriedInv, OneCarrier
<1>10. PlaceInv'
  BY <1>1, <1>2, <1>4, <1>6, <1>7, <1>8, <1>9, LocalPlace DEF Going, HoldPC
<1>11. JobInv'
  BY <1>2, <1>4, JobFrame DEF Going, Taking
<1>12. ~ShuttingDown'
  BY <1>4, Names DEF Going, ShuttingDown
<1>13. QED BY <1>2, <1>10, <1>11, <1>12 DEF Going

\* A fiber that is over with its job becomes free, one that waits is left to
\* the future.
LEMMA CheckKeeps ==
  ASSUME Assumed, TypeOK, Started, Going, failed = "none", NEW w \in Workers, Check(w)
  PROVE  Going' /\ failed' = "none"
<1>1. PICK x \in FiberSet : x = f[w]
  BY DEF Check, At, Started
<1>2. /\ wpc[w] = "check" /\ (\E l \in {"next", "poll"} : wpc' = [wpc EXCEPT ![w] = l])
      /\ f' = [f EXCEPT ![w] = Null] /\ job' = [job EXCEPT ![w] = Null]
      /\ free' = IF fjob[x] = Null THEN Push(free, x) ELSE free
      /\ prog' = prog /\ ready' = ready /\ queue' = queue /\ saved' = saved
      /\ fpc' = fpc /\ fjob' = fjob /\ put' = put /\ left' = left /\ failed' = failed
      /\ waiter' = waiter /\ io' = io /\ ran' = ran /\ finished' = finished
  BY <1>1 DEF Check, At, Goto, fibers, futures, events, history
<1>3. /\ wpc \in [Workers -> LoopPC \cup MainPC \cup {"exited"}] /\ job \in [Workers -> Jobs \cup {Null}]
      /\ f \in [Workers -> FiberSet \cup Workers \cup {Null}] /\ MainInv
      /\ NoTwice(free) /\ NoTwice(ready) /\ free \in Seq(FiberSet)
      /\ (\A v \in Workers : v \notin FiberSet) /\ Null \notin FiberSet /\ Null \notin Workers
  BY Names DEF TypeOK, Going, PlaceInv
<1>4. /\ wpc'[w] \in {"next", "poll"} /\ f'[w] = Null
      /\ \A v \in Workers : v # w => wpc'[v] = wpc[v] /\ f'[v] = f[v] /\ job'[v] = job[v]
  BY <1>2, <1>3
<1>5. /\ fpc[x] \in {"awake", "loop"} /\ (fjob[x] = Null <=> fpc[x] = "loop")
      /\ fpc[x] = "awake" => waiter[fjob[x]] = x
      /\ saved[x] /\ ~In(free, x) /\ ~In(ready, x)
      /\ \A v \in Workers : f[v] = x => v = w
  BY <1>1, <1>2, FiberInv DEF HeldInv, Going
<1>6. /\ NoTwice(free')
      /\ \A y : In(free', y) <=> In(free, y) \/ (y = x /\ fjob[x] = Null)
  BY <1>2, <1>3, <1>5, PushList
<1>7. \A v \in Workers : f'[v] # x
  BY <1>3, <1>4, <1>5
<1>8. MainInv' /\ ~ShuttingDown'
  <2>1. \A v \in Workers : wpc'[v] = "popped" /\ f'[v] \in Workers
                            <=> wpc[v] = "popped" /\ f[v] \in Workers
    BY <1>2, <1>4
  <2>2. \A v \in Workers : wpc[v] = "popped" /\ f[v] \in Workers => f'[v] = f[v]
    BY <1>2, <1>4
  <2>3. \A v \in Workers : wpc'[v] = wpc[v] \/ (wpc[v] \in LoopPC /\ wpc'[v] \in LoopPC)
    BY <1>2, <1>4 DEF LoopPC
  <2>4. QED BY <1>2, <1>3, <2>1, <2>2, <2>3, MainFrame DEF Going
<1>9. FreeInv(x)' /\ ReadyInv(x)'
  BY <1>2, <1>5, <1>6 DEF FreeInv, ReadyInv
<1>10. NowhereInv(x)'
  BY <1>2, <1>5, <1>6 DEF NowhereInv
<1>11. WaiterInv(x)'
  <2>1. SUFFICES ASSUME NEW i \in Askers, waiter[i] = x PROVE fjob[x] = i /\ fpc[x] = "awake"
    BY <1>2, <1>5, <1>7 DEF WaiterInv
  <2>2. fjob[x] = i /\ i # Null
    BY <2>1, FiberInv, Names DEF WaiterInv, Going
  <2>3. QED BY <1>5, <2>2
<1>12. \A v \in Workers : HeldInv(v, x)' /\ WakerInv(v, x)'
  BY <1>7 DEF HeldInv, WakerInv
<1>13. PlaceInv'
  <2>1. \A y \in FiberSet : y # x =>
          /\ In(free', y) <=> In(free, y)
          /\ \A v \in Workers : f'[v] = y <=> f[v] = y
    BY <1>1, <1>3, <1>4, <1>6
  <2>2. \A v \in Workers : f[v] \in FiberSet /\ f[v] # x => wpc'[v] = wpc[v]
    BY <1>1, <1>4
  <2>3. QED BY <1>2, <1>3, <1>6, <1>8, <1>9, <1>10, <1>11, <1>12, <2>1, <2>2, MovePlace DEF Going
<1>14. JobInv'
  BY <1>2, <1>4, JobFrame DEF Going, Taking
<1>15. QED BY <1>2, <1>8, <1>13, <1>14 DEF Going

\* The callback runs on the worker of the fiber, which is not in its hands then.
LEMMA CallbackGoes ==
  ASSUME Assumed, TypeOK, Going, failed = "none", NEW w \in Workers, NEW j \in Jobs, Callback(w, j)
  PROVE  Going' /\ failed' = "none"
<1>1. /\ wpc[w] = "poll" /\ io[j] = w /\ Decr(j) /\ io' = [io EXCEPT ![j] = Null]
      /\ prog' = prog /\ free' = free /\ f' = f /\ wpc' = wpc /\ fjob' = fjob /\ saved' = saved
      /\ fpc' = fpc
  BY DEF Callback, At, threads, fibers
<1>2. JobInv' /\ left[j] = 1 /\ j \in Askers
  BY CallbackKeeps DEF Going, Askers
<1>3. ASSUME NEW v \in Workers, waiter[j] \in FiberSet, f[v] = waiter[j] PROVE FALSE
  <2>0. PICK y \in FiberSet : y = waiter[j]
    BY <1>3
  <2>1. /\ fjob[y] = j /\ fpc[y] \in {"sleep", "awake"}
        /\ wpc[v] = "run" => fpc[y] = "sleep"
    BY <1>2, <1>3, <2>0, FiberInv DEF WaiterInv, Going
  <2>2. HeldInv(v, y) /\ WakerInv(v, y)
    BY FiberInv DEF Going
  <2>3. wpc[v] \in {"run", "save", "check"}
    BY <1>2, <1>3, <2>0, <2>1, <2>2 DEF HeldInv, HoldPC, Woken, Unawaited
  <2>4. CASE Workers = {Main}
    BY <1>1, <1>3, <2>3, <2>4
  <2>5. CASE Workers # {Main}
    <3>0. wpc[v] \in {"save", "check"} => fpc[y] = "awake"
      BY <1>3, <2>0, <2>1, <2>2 DEF HeldInv
    <3>1. io[j] = v
      BY <1>3, <2>0, <2>1, <2>2, <2>3, <2>5, <3>0 DEF WakerInv
    <3>2. QED BY <1>1, <2>3, <3>1
  <2>6. QED BY <2>4, <2>5
<1>4. \A k \in Jobs : k # j => io'[k] = io[k]
  BY <1>1 DEF TypeOK
<1>5. PlaceInv' /\ failed' = "none"
  BY <1>1, <1>2, <1>3, <1>4, DecrPlace DEF Going
<1>6. QED BY <1>1, <1>2, <1>5 DEF Going, ShuttingDown

LEMMA LoopKeeps ==
  ASSUME Assumed, TypeOK, Started, Going, failed = "none", NEW w \in Workers, LoopStep(w)
  PROVE  Going' /\ failed' \in {"none", "159f"} /\ (Create(w) \/ failed' = "none")
BY PopKeeps, PopOwnKeeps, PopForeignKeeps, ResumeReadyKeeps, NextJobGoes, CreateKeeps, StartGoes,
   SaveKeeps, CheckKeeps, CallbackGoes, PolledKeeps DEF LoopStep
-----------------------------------------------------------------------------
(***************************************************************************)
(* The steps of a fiber                                                    *)
(***************************************************************************)
\* The fiber that runs, and its future.
LEMMA Running ==
  ASSUME Assumed, TypeOK, Going, NEW w \in Workers, NEW x \in FiberSet, f[w] = x, wpc[w] = "run"
  PROVE  /\ fpc[x] # "end" => fjob[x] # Null /\ fjob[x] \in Jobs
         /\ fpc[x] # "sleep" => Unawaited(x)
         /\ \A i \in Askers : waiter[i] = x => i = fjob[x]
         /\ ~In(free, x) /\ ~In(ready, x)
         /\ \A v \in Workers : f[v] = x => v = w
         /\ HeldInv(w, x) /\ WakerInv(w, x)
         /\ OneCarrier
         /\ wpc \in [Workers -> LoopPC \cup MainPC \cup {"exited"}]
         /\ fjob \in [FiberSet -> Jobs \cup {Null}]
         /\ fpc \in [FiberSet -> {"loop", "submit", "register", "sleep", "awake",
                                  "finish", "clear", "end"}]
<1>1. HeldInv(w, x) /\ WakerInv(w, x) /\ WaiterInv(x)
  BY FiberInv DEF Going
<1>2. fpc[x] # "end" => fjob[x] # Null /\ fjob[x] \in Jobs
  BY <1>1 DEF HeldInv, TypeOK
<1>3. fpc[x] # "sleep" => Unawaited(x)
  BY <1>1 DEF WaiterInv, Unawaited
<1>4. \A i \in Askers : waiter[i] = x => i = fjob[x]
  BY <1>1 DEF WaiterInv
<1>5. ~In(free, x) /\ ~In(ready, x) /\ \A v \in Workers : f[v] = x => v = w
  BY <1>1 DEF HeldInv
<1>6. OneCarrier
  BY DEF Going, JobInv, CarriedInv, OneCarrier
<1>7. QED BY <1>1, <1>2, <1>3, <1>4, <1>5, <1>6 DEF TypeOK

\* A fiber that runs goes on, and its worker with it.
LEMMA LocalStep ==
  ASSUME Assumed, TypeOK, Going, failed = "none",
         NEW w \in Workers, NEW x \in FiberSet, f[w] = x, wpc[w] = "run",
         prog' = prog, free' = free, ready' = ready, f' = f, left' = left, saved' = saved,
         wpc' = wpc \/ wpc' = [wpc EXCEPT ![w] = "save"],
         \A y \in FiberSet : y # x => fpc'[y] = fpc[y] /\ fjob'[y] = fjob[y],
         \/ waiter' = waiter
         \/ fjob[x] # Null /\ waiter' = [waiter EXCEPT ![fjob[x]] = x],
         \A j \in Jobs : j # fjob[x] => io'[j] = io[j],
         HeldInv(w, x)', WakerInv(w, x)', WaiterInv(x)', JobInv', failed' = failed
  PROVE  Going' /\ failed' = "none"
<1>1. wpc \in [Workers -> LoopPC \cup MainPC \cup {"exited"}] /\ OneCarrier
  BY Running
<1>2. wpc'[w] \in {"run", "save"} /\ \A v \in Workers : v # w => wpc'[v] = wpc[v]
  BY <1>1
<1>3. PlaceInv'
  BY <1>1, <1>2, LocalPlace DEF Going, HoldPC
<1>4. ~ShuttingDown'
  BY <1>2, Names DEF Going, ShuttingDown
<1>5. QED BY <1>3, <1>4 DEF Going

\* With several workers, a job that waits for something has made a request.
LEMMA OnlyRequests ==
  ASSUME Assumed, LocalAwaits, TypeOK, JobInv, Workers # {Main}, NEW j \in Jobs, left[j] # 0
  PROVE  j \in prog.io
<1>1. SUFFICES ASSUME j \notin prog.io PROVE FALSE
  OBVIOUS
<1>2. prog.kids[j] = <<>> /\ j \in Askers
  BY DEF LocalAwaits, TypeOK, Askers
<1>3. Pending(j) = {}
  BY <1>2 DEF Pending
<1>4. left[j] = Cardinality(Pending(j))
  BY <1>1, <1>2 DEF JobInv, LeftInv
<1>5. QED BY <1>3, <1>4, FS_EmptySet

LEMMA BeginGoes ==
  ASSUME Assumed, LocalAwaits, TypeOK, Going, failed = "none", NEW w \in Workers, NEW x \in FiberSet,
         Begin(w, x)
  PROVE  Going' /\ failed' = "none"
<1>1. /\ wpc[w] = "run" /\ f[w] = x /\ fpc[x] = "loop" /\ fpc' = [fpc EXCEPT ![x] = IF left[fjob[x]] > 0 THEN "submit" ELSE "finish"]
      /\ prog' = prog /\ free' = free /\ ready' = ready /\ f' = f /\ left' = left
      /\ saved' = saved /\ failed' = failed /\ queue' = queue /\ job' = job /\ put' = put
      /\ wpc' = wpc /\ finished' = finished
      /\ fjob' = fjob /\ waiter' = waiter /\ io' = io
  BY DEF Begin, Runs, At, Next_, Goto, Yield, lists, threads, futures, events, history
<1>2. /\ fpc[x] # "end" => fjob[x] # Null /\ fjob[x] \in Jobs
      /\ fpc[x] # "sleep" => Unawaited(x)
      /\ \A i \in Askers : waiter[i] = x => i = fjob[x]
      /\ ~In(free, x) /\ ~In(ready, x)
      /\ \A v \in Workers : f[v] = x => v = w
      /\ HeldInv(w, x) /\ WakerInv(w, x)
      /\ wpc \in [Workers -> LoopPC \cup MainPC \cup {"exited"}]
      /\ fjob \in [FiberSet -> Jobs \cup {Null}]
      /\ fpc \in [FiberSet -> {"loop", "submit", "register", "sleep", "awake",
                               "finish", "clear", "end"}]
  BY <1>1, Running
<1>3. /\ fpc'[x] = (IF left[fjob[x]] > 0 THEN "submit" ELSE "finish") /\ wpc'[w] = "run"
      /\ \A y \in FiberSet : y # x => fpc'[y] = fpc[y]
  BY <1>1, <1>2
<1>4. Workers # {Main} /\ fpc'[x] = "submit" => fjob[x] \in prog.io
  BY <1>1, <1>2, <1>3, OnlyRequests, CountsAreNumbers DEF Going
<1>5. HeldInv(w, x)'
  BY <1>1, <1>2, <1>3 DEF HeldInv, HoldPC
<1>6. WakerInv(w, x)'
  BY <1>1, <1>2, <1>3, <1>4 DEF WakerInv
<1>7. WaiterInv(x)'
  BY <1>1, <1>2, <1>3 DEF WaiterInv, Unawaited, Held
<1>8. JobInv'
  BY <1>1, <1>2, BeginKeeps DEF Going
<1>9. QED BY <1>1, <1>2, <1>3, <1>5, <1>6, <1>7, <1>8, LocalStep

LEMMA RequestGoes ==
  ASSUME Assumed, TypeOK, Going, failed = "none", NEW w \in Workers, NEW x \in FiberSet,
         Request(w, x)
  PROVE  Going' /\ failed' = "none"
<1>1. /\ wpc[w] = "run" /\ f[w] = x /\ fpc[x] = "submit" /\ fpc' = [fpc EXCEPT ![x] = "register"]
      /\ prog' = prog /\ free' = free /\ ready' = ready /\ f' = f /\ left' = left
      /\ saved' = saved /\ failed' = failed /\ queue' = queue /\ job' = job /\ put' = put
      /\ wpc' = wpc /\ finished' = finished
      /\ fjob' = fjob /\ waiter' = waiter /\ ran' = ran /\ io' = [io EXCEPT ![fjob[x]] = w]
  BY DEF Request, Runs, At, Next_, Goto, Yield, lists, threads, futures, events, history
<1>2. /\ fpc[x] # "end" => fjob[x] # Null /\ fjob[x] \in Jobs
      /\ fpc[x] # "sleep" => Unawaited(x)
      /\ \A i \in Askers : waiter[i] = x => i = fjob[x]
      /\ ~In(free, x) /\ ~In(ready, x)
      /\ \A v \in Workers : f[v] = x => v = w
      /\ HeldInv(w, x) /\ WakerInv(w, x)
      /\ wpc \in [Workers -> LoopPC \cup MainPC \cup {"exited"}]
      /\ fjob \in [FiberSet -> Jobs \cup {Null}]
      /\ fpc \in [FiberSet -> {"loop", "submit", "register", "sleep", "awake",
                               "finish", "clear", "end"}]
  BY <1>1, Running
<1>3. /\ fpc'[x] = ("register") /\ wpc'[w] = "run"
      /\ \A y \in FiberSet : y # x => fpc'[y] = fpc[y]
  BY <1>1, <1>2
<1>4. io'[fjob[x]] = w /\ \A j \in Jobs : j # fjob[x] => io'[j] = io[j]
  BY <1>1, <1>2 DEF TypeOK
<1>5. HeldInv(w, x)'
  BY <1>1, <1>2, <1>3 DEF HeldInv, HoldPC
<1>6. WakerInv(w, x)'
  BY <1>1, <1>2, <1>3, <1>4 DEF WakerInv
<1>7. WaiterInv(x)'
  BY <1>1, <1>2, <1>3 DEF WaiterInv, Unawaited, Held
<1>8. JobInv'
  BY <1>1, <1>2, RequestKeeps DEF Going
<1>9. QED BY <1>1, <1>2, <1>3, <1>5, <1>6, <1>7, <1>8, <1>4, LocalStep

LEMMA SubmittedGoes ==
  ASSUME Assumed, TypeOK, Going, failed = "none", NEW w \in Workers, NEW x \in FiberSet,
         Submitted(w, x)
  PROVE  Going' /\ failed' = "none"
<1>1. /\ wpc[w] = "run" /\ f[w] = x /\ fpc[x] = "submit" /\ fpc' = [fpc EXCEPT ![x] = "register"]
      /\ prog' = prog /\ free' = free /\ ready' = ready /\ f' = f /\ left' = left
      /\ saved' = saved /\ failed' = failed /\ queue' = queue /\ job' = job /\ put' = put
      /\ wpc' = wpc /\ finished' = finished
      /\ fjob' = fjob /\ waiter' = waiter /\ io' = io /\ ran' = ran /\ fjob[x] \notin prog.io
  BY DEF Submitted, Runs, At, Next_, Goto, Yield, lists, threads, futures, events, history
<1>2. /\ fpc[x] # "end" => fjob[x] # Null /\ fjob[x] \in Jobs
      /\ fpc[x] # "sleep" => Unawaited(x)
      /\ \A i \in Askers : waiter[i] = x => i = fjob[x]
      /\ ~In(free, x) /\ ~In(ready, x)
      /\ \A v \in Workers : f[v] = x => v = w
      /\ HeldInv(w, x) /\ WakerInv(w, x)
      /\ wpc \in [Workers -> LoopPC \cup MainPC \cup {"exited"}]
      /\ fjob \in [FiberSet -> Jobs \cup {Null}]
      /\ fpc \in [FiberSet -> {"loop", "submit", "register", "sleep", "awake",
                               "finish", "clear", "end"}]
  BY <1>1, Running
<1>3. /\ fpc'[x] = ("register") /\ wpc'[w] = "run"
      /\ \A y \in FiberSet : y # x => fpc'[y] = fpc[y]
  BY <1>1, <1>2
<1>4. HeldInv(w, x)'
  BY <1>1, <1>2, <1>3 DEF HeldInv, HoldPC
<1>5. WakerInv(w, x)'
  BY <1>1, <1>2, <1>3 DEF WakerInv
<1>6. WaiterInv(x)'
  BY <1>1, <1>2, <1>3 DEF WaiterInv, Unawaited, Held
<1>7. JobInv'
  BY <1>1, <1>2, <1>3, JobFrame DEF Going, Taking
<1>8. QED BY <1>1, <1>2, <1>3, <1>4, <1>5, <1>6, <1>7, LocalStep

\* The fiber waits, unless there is nothing to wait for.
LEMMA RegisterGoes ==
  ASSUME Assumed, TypeOK, Going, failed = "none", NEW w \in Workers, NEW x \in FiberSet,
         Register(w, x)
  PROVE  Going' /\ failed' = "none"
<1>1. /\ wpc[w] = "run" /\ f[w] = x /\ fpc[x] = "register" /\ fpc' = [fpc EXCEPT ![x] = IF left[fjob[x]] = 0 THEN "awake" ELSE "sleep"]
      /\ prog' = prog /\ free' = free /\ ready' = ready /\ f' = f /\ left' = left
      /\ saved' = saved /\ failed' = failed /\ queue' = queue /\ job' = job /\ put' = put
      /\ wpc' = wpc /\ finished' = finished
      /\ fjob' = fjob /\ io' = io /\ ran' = ran
      /\ waiter' = IF left[fjob[x]] = 0 THEN waiter ELSE [waiter EXCEPT ![fjob[x]] = x]
  BY DEF Register, Runs, At, Next_, Goto, Yield, lists, threads, futures, events, history
<1>2. /\ fpc[x] # "end" => fjob[x] # Null /\ fjob[x] \in Jobs
      /\ fpc[x] # "sleep" => Unawaited(x)
      /\ \A i \in Askers : waiter[i] = x => i = fjob[x]
      /\ ~In(free, x) /\ ~In(ready, x)
      /\ \A v \in Workers : f[v] = x => v = w
      /\ HeldInv(w, x) /\ WakerInv(w, x)
      /\ wpc \in [Workers -> LoopPC \cup MainPC \cup {"exited"}]
      /\ fjob \in [FiberSet -> Jobs \cup {Null}]
      /\ fpc \in [FiberSet -> {"loop", "submit", "register", "sleep", "awake",
                               "finish", "clear", "end"}]
  BY <1>1, Running
<1>3. /\ fpc'[x] = (IF left[fjob[x]] = 0 THEN "awake" ELSE "sleep") /\ wpc'[w] = "run"
      /\ \A y \in FiberSet : y # x => fpc'[y] = fpc[y]
  BY <1>1, <1>2
<1>4. /\ left[fjob[x]] # 0 => waiter'[fjob[x]] = x
      /\ \A i \in Askers : waiter'[i] = x => i = fjob[x] /\ left[fjob[x]] # 0
  BY <1>1, <1>2 DEF TypeOK, Unawaited, Askers
<1>5. HeldInv(w, x)'
  BY <1>1, <1>2, <1>3, <1>4 DEF HeldInv, HoldPC
<1>6. WakerInv(w, x)'
  BY <1>1, <1>2, <1>3 DEF WakerInv
<1>7. WaiterInv(x)'
  BY <1>1, <1>2, <1>3, <1>4 DEF WaiterInv, Unawaited, Held
<1>8. JobInv'
  BY <1>1, <1>2, <1>3, JobFrame DEF Going, Taking
<1>9. QED BY <1>1, <1>2, <1>3, <1>5, <1>6, <1>7, <1>8, LocalStep

LEMMA SleepGoes ==
  ASSUME Assumed, TypeOK, Going, failed = "none", NEW w \in Workers, NEW x \in FiberSet,
         Sleep(w, x)
  PROVE  Going' /\ failed' = "none"
<1>1. /\ wpc[w] = "run" /\ f[w] = x /\ fpc[x] = "sleep" /\ fpc' = [fpc EXCEPT ![x] = "awake"]
      /\ prog' = prog /\ free' = free /\ ready' = ready /\ f' = f /\ left' = left
      /\ saved' = saved /\ failed' = failed /\ queue' = queue /\ job' = job /\ put' = put
      /\ wpc' = [wpc EXCEPT ![w] = "save"] /\ finished' = finished
      /\ fjob' = fjob /\ waiter' = waiter /\ io' = io /\ ran' = ran
  BY DEF Sleep, Runs, At, Next_, Goto, Yield, lists, threads, futures, events, history
<1>2. /\ fpc[x] # "end" => fjob[x] # Null /\ fjob[x] \in Jobs
      /\ fpc[x] # "sleep" => Unawaited(x)
      /\ \A i \in Askers : waiter[i] = x => i = fjob[x]
      /\ ~In(free, x) /\ ~In(ready, x)
      /\ \A v \in Workers : f[v] = x => v = w
      /\ HeldInv(w, x) /\ WakerInv(w, x)
      /\ wpc \in [Workers -> LoopPC \cup MainPC \cup {"exited"}]
      /\ fjob \in [FiberSet -> Jobs \cup {Null}]
      /\ fpc \in [FiberSet -> {"loop", "submit", "register", "sleep", "awake",
                               "finish", "clear", "end"}]
  BY <1>1, Running
<1>3. /\ fpc'[x] = ("awake") /\ wpc'[w] = "save"
      /\ \A y \in FiberSet : y # x => fpc'[y] = fpc[y]
  BY <1>1, <1>2
<1>4. HeldInv(w, x)'
  BY <1>1, <1>2, <1>3 DEF HeldInv, HoldPC
<1>5. WakerInv(w, x)'
  BY <1>1, <1>2, <1>3 DEF WakerInv
<1>6. WaiterInv(x)'
  BY <1>1, <1>2, <1>3 DEF WaiterInv, Unawaited, Held
<1>7. JobInv'
  BY <1>1, <1>2, <1>3, JobFrame DEF Going, Taking
<1>8. QED BY <1>1, <1>2, <1>3, <1>4, <1>5, <1>6, <1>7, LocalStep

LEMMA AwakeGoes ==
  ASSUME Assumed, TypeOK, Going, failed = "none", NEW w \in Workers, NEW x \in FiberSet,
         Awake(w, x)
  PROVE  Going' /\ failed' = "none"
<1>1. /\ wpc[w] = "run" /\ f[w] = x /\ fpc[x] = "awake" /\ fpc' = [fpc EXCEPT ![x] = "finish"]
      /\ prog' = prog /\ free' = free /\ ready' = ready /\ f' = f /\ left' = left
      /\ saved' = saved /\ failed' = failed /\ queue' = queue /\ job' = job /\ put' = put
      /\ wpc' = wpc /\ finished' = finished
      /\ fjob' = fjob /\ waiter' = waiter /\ io' = io /\ ran' = ran
  BY DEF Awake, Runs, At, Next_, Goto, Yield, lists, threads, futures, events, history
<1>2. /\ fpc[x] # "end" => fjob[x] # Null /\ fjob[x] \in Jobs
      /\ fpc[x] # "sleep" => Unawaited(x)
      /\ \A i \in Askers : waiter[i] = x => i = fjob[x]
      /\ ~In(free, x) /\ ~In(ready, x)
      /\ \A v \in Workers : f[v] = x => v = w
      /\ HeldInv(w, x) /\ WakerInv(w, x)
      /\ wpc \in [Workers -> LoopPC \cup MainPC \cup {"exited"}]
      /\ fjob \in [FiberSet -> Jobs \cup {Null}]
      /\ fpc \in [FiberSet -> {"loop", "submit", "register", "sleep", "awake",
                               "finish", "clear", "end"}]
  BY <1>1, Running
<1>3. /\ fpc'[x] = ("finish") /\ wpc'[w] = "run"
      /\ \A y \in FiberSet : y # x => fpc'[y] = fpc[y]
  BY <1>1, <1>2
<1>4. left[fjob[x]] = 0
  BY <1>1, <1>2 DEF HeldInv
<1>5. HeldInv(w, x)'
  BY <1>1, <1>2, <1>3 DEF HeldInv, HoldPC
<1>6. WakerInv(w, x)'
  BY <1>1, <1>2, <1>3 DEF WakerInv
<1>7. WaiterInv(x)'
  BY <1>1, <1>2, <1>3 DEF WaiterInv, Unawaited, Held
<1>8. JobInv'
  BY <1>1, <1>2, <1>3, <1>4, JobFrame DEF Going, Taking
<1>9. QED BY <1>1, <1>2, <1>3, <1>5, <1>6, <1>7, <1>8, LocalStep

LEMMA ClearGoes ==
  ASSUME Assumed, TypeOK, Going, failed = "none", NEW w \in Workers, NEW x \in FiberSet,
         Clear(w, x)
  PROVE  Going' /\ failed' = "none"
<1>1. /\ wpc[w] = "run" /\ f[w] = x /\ fpc[x] = "clear" /\ fpc' = [fpc EXCEPT ![x] = "end"]
      /\ prog' = prog /\ free' = free /\ ready' = ready /\ f' = f /\ left' = left
      /\ saved' = saved /\ failed' = failed /\ queue' = queue /\ job' = job /\ put' = put
      /\ wpc' = wpc /\ finished' = finished
      /\ fjob' = [fjob EXCEPT ![x] = Null] /\ waiter' = waiter /\ io' = io /\ ran' = ran
  BY DEF Clear, Runs, At, Next_, Goto, Yield, lists, threads, futures, events, history
<1>2. /\ fpc[x] # "end" => fjob[x] # Null /\ fjob[x] \in Jobs
      /\ fpc[x] # "sleep" => Unawaited(x)
      /\ \A i \in Askers : waiter[i] = x => i = fjob[x]
      /\ ~In(free, x) /\ ~In(ready, x)
      /\ \A v \in Workers : f[v] = x => v = w
      /\ HeldInv(w, x) /\ WakerInv(w, x)
      /\ wpc \in [Workers -> LoopPC \cup MainPC \cup {"exited"}]
      /\ fjob \in [FiberSet -> Jobs \cup {Null}]
      /\ fpc \in [FiberSet -> {"loop", "submit", "register", "sleep", "awake",
                               "finish", "clear", "end"}]
  BY <1>1, Running
<1>3. /\ fpc'[x] = ("end") /\ wpc'[w] = "run"
      /\ \A y \in FiberSet : y # x => fpc'[y] = fpc[y]
  BY <1>1, <1>2
<1>4. fjob'[x] = Null /\ \A y \in FiberSet : y # x => fjob'[y] = fjob[y]
  BY <1>1, <1>2
<1>5. HeldInv(w, x)'
  BY <1>1, <1>2, <1>3, <1>4 DEF HeldInv, HoldPC
<1>6. WakerInv(w, x)'
  BY <1>1, <1>2, <1>3 DEF WakerInv
<1>7. WaiterInv(x)'
  BY <1>1, <1>2, <1>3 DEF WaiterInv, Unawaited, Held
<1>8. JobInv'
  BY <1>1, <1>2, ClearKeeps DEF Going
<1>9. QED BY <1>1, <1>2, <1>3, <1>5, <1>6, <1>7, <1>8, <1>4, LocalStep

LEMMA EndGoes ==
  ASSUME Assumed, TypeOK, Going, failed = "none", NEW w \in Workers, NEW x \in FiberSet,
         End(w, x)
  PROVE  Going' /\ failed' = "none"
<1>1. /\ wpc[w] = "run" /\ f[w] = x /\ fpc[x] = "end" /\ fpc' = [fpc EXCEPT ![x] = "loop"]
      /\ prog' = prog /\ free' = free /\ ready' = ready /\ f' = f /\ left' = left
      /\ saved' = saved /\ failed' = failed /\ queue' = queue /\ job' = job /\ put' = put
      /\ wpc' = [wpc EXCEPT ![w] = "save"] /\ finished' = finished
      /\ fjob' = fjob /\ waiter' = waiter /\ io' = io /\ ran' = ran
  BY DEF End, Runs, At, Next_, Goto, Yield, lists, threads, futures, events, history
<1>2. /\ fpc[x] # "end" => fjob[x] # Null /\ fjob[x] \in Jobs
      /\ fpc[x] # "sleep" => Unawaited(x)
      /\ \A i \in Askers : waiter[i] = x => i = fjob[x]
      /\ ~In(free, x) /\ ~In(ready, x)
      /\ \A v \in Workers : f[v] = x => v = w
      /\ HeldInv(w, x) /\ WakerInv(w, x)
      /\ wpc \in [Workers -> LoopPC \cup MainPC \cup {"exited"}]
      /\ fjob \in [FiberSet -> Jobs \cup {Null}]
      /\ fpc \in [FiberSet -> {"loop", "submit", "register", "sleep", "awake",
                               "finish", "clear", "end"}]
  BY <1>1, Running
<1>3. /\ fpc'[x] = ("loop") /\ wpc'[w] = "save"
      /\ \A y \in FiberSet : y # x => fpc'[y] = fpc[y]
  BY <1>1, <1>2
<1>4. fjob[x] = Null
  BY <1>1, <1>2 DEF HeldInv
<1>5. HeldInv(w, x)'
  BY <1>1, <1>2, <1>3, <1>4 DEF HeldInv, HoldPC
<1>6. WakerInv(w, x)'
  BY <1>1, <1>2, <1>3 DEF WakerInv
<1>7. WaiterInv(x)'
  BY <1>1, <1>2, <1>3 DEF WaiterInv, Unawaited, Held
<1>8. JobInv'
  BY <1>1, <1>2, <1>3, <1>4, JobFrame DEF Going, Taking
<1>9. QED BY <1>1, <1>2, <1>3, <1>5, <1>6, <1>7, <1>8, LocalStep

LEMMA SubmitGoes ==
  ASSUME Assumed, TypeOK, Going, failed = "none", NEW w \in Workers, NEW x \in FiberSet,
         Submit(w, x)
  PROVE  Going' /\ failed' = "none"
<1>1. /\ wpc[w] = "run" /\ f[w] = x /\ fpc[x] = "submit" /\ Enqueue(fjob[x])
      /\ prog' = prog /\ free' = free /\ ready' = ready /\ f' = f /\ wpc' = wpc /\ job' = job
      /\ fpc' = fpc /\ fjob' = fjob /\ saved' = saved /\ left' = left /\ waiter' = waiter
      /\ io' = io /\ ran' = ran /\ finished' = finished /\ failed' = failed
  BY DEF Submit, Runs, At, threads, fibers, events, history
<1>2. fjob[x] \in Jobs /\ fjob[x] \in Askers /\ fjob[x] # Null
  BY <1>1, Running DEF Askers
<1>3. ran[fjob[x]] # 0
  BY <1>1, <1>2 DEF Going, JobInv, CarriedInv
<1>4. JobInv'
  BY <1>1, <1>2, <1>3, EnqueueKeeps DEF Going
<1>5. MainInv' /\ NoTwice(ready') /\ ~ShuttingDown'
  <2>1. MainInv /\ NoTwice(ready)
    BY DEF Going, PlaceInv
  <2>2. QED BY <1>1, <2>1, MainFrame DEF Going
<1>6. PlaceInv'
  BY <1>1, <1>5, PlaceFrame DEF Going
<1>7. QED BY <1>1, <1>4, <1>5, <1>6 DEF Going

\* Who waits for the job is not in the hands of a worker.
LEMMA FinishGoes ==
  ASSUME Assumed, LocalAwaits, TypeOK, Going, failed = "none", NEW w \in Workers,
         NEW x \in FiberSet, Finish(w, x)
  PROVE  Going' /\ failed' = "none"
<1>1. /\ wpc[w] = "run" /\ f[w] = x /\ fpc[x] = "finish" /\ Decr(Owner(fjob[x]))
      /\ fpc' = [fpc EXCEPT ![x] = "clear"]
      /\ prog' = prog /\ free' = free /\ f' = f /\ wpc' = wpc /\ fjob' = fjob /\ saved' = saved
      /\ io' = io
  BY DEF Finish, Runs, At, Next_, threads, events
<1>2. fjob[x] # Null /\ fpc \in [FiberSet -> {"loop", "submit", "register", "sleep", "awake",
                                                "finish", "clear", "end"}]
  BY <1>1, Running
<1>3. PICK i \in Askers :
        /\ i = Owner(fjob[x]) /\ left[i] \in Nat \ {0} /\ prog.kids[i] # <<>>
  BY <1>1, <1>2, OwnerWaits DEF Going
<1>4. JobInv'
  BY <1>2, FinishKeeps DEF Going
<1>5. ASSUME NEW v \in Workers, waiter[i] \in FiberSet, f[v] = waiter[i] PROVE FALSE
  <2>1. CASE Workers = {Main}
    <3>1. v = w /\ x = waiter[i]
      BY <1>1, <1>5, <2>1
    <3>2. fpc[x] \in {"sleep", "awake"}
      BY <3>1, FiberInv DEF WaiterInv, Going
    <3>3. QED BY <1>1, <3>2
  <2>2. CASE Workers # {Main}
    <3>1. i = Main
      BY <1>3, <2>2 DEF LocalAwaits, TypeOK, Askers
    <3>2. waiter[Main] \in {Main, Null}
      BY DEF Going, PlaceInv, MainInv
    <3>3. QED BY <1>5, <3>1, <3>2, Names
  <2>3. QED BY <2>1, <2>2
<1>6. \A y \in FiberSet : \/ fpc'[y] = fpc[y]
                          \/ /\ fpc[y] = "finish" /\ fpc'[y] = "clear"
                             /\ \E v \in Workers : f[v] = y /\ wpc[v] = "run"
  BY <1>1, <1>2
<1>7. PlaceInv' /\ failed' = "none"
  BY <1>1, <1>3, <1>5, <1>6, DecrPlace DEF Going
<1>8. QED BY <1>1, <1>4, <1>7 DEF Going, ShuttingDown

LEMMA FiberKeeps ==
  ASSUME Assumed, LocalAwaits, TypeOK, Going, failed = "none", NEW w \in Workers,
         NEW x \in FiberSet, FiberStep(w, x)
  PROVE  Going' /\ failed' = "none"
BY BeginGoes, SubmitGoes, RequestGoes, SubmittedGoes, RegisterGoes, SleepGoes, AwakeGoes,
   FinishGoes, ClearGoes, EndGoes DEF FiberStep
-----------------------------------------------------------------------------
(***************************************************************************)
(* The steps of the main thread                                            *)
(***************************************************************************)
LEMMA MainSubmitKeeps ==
  ASSUME Assumed, TypeOK, Going, failed = "none", MainSubmit
  PROVE  Going' /\ failed' = "none"
<1>1. /\ Enqueue(Main)
      /\ prog' = prog /\ free' = free /\ ready' = ready /\ f' = f /\ wpc' = wpc /\ job' = job
      /\ fpc' = fpc /\ fjob' = fjob /\ saved' = saved /\ left' = left /\ waiter' = waiter
      /\ io' = io /\ ran' = ran /\ finished' = finished /\ failed' = failed
  BY DEF MainSubmit, At, Goto, lists, threads, fibers, futures, events, history
<1>2. JobInv'
  BY <1>1, Names, EnqueueKeeps DEF Going
<1>3. MainInv' /\ NoTwice(ready') /\ ~ShuttingDown'
  <2>1. MainInv /\ NoTwice(ready)
    BY DEF Going, PlaceInv
  <2>2. QED BY <1>1, <2>1, MainFrame DEF Going
<1>4. PlaceInv'
  BY <1>1, <1>3, PlaceFrame DEF Going
<1>5. QED BY <1>1, <1>2, <1>3, <1>4 DEF Going

\* The main thread goes on outside of worker_loop.
LEMMA MainGoes ==
  ASSUME Assumed, TypeOK, Going, failed = "none", wpc[Main] \notin LoopPC,
         NEW l, wpc' = [wpc EXCEPT ![Main] = l], l \in {"register", "return", "pop", "destroy"},
         prog' = prog, free' = free, ready' = ready, queue' = queue, f' = f, job' = job,
         fpc' = fpc, fjob' = fjob, saved' = saved, put' = put, left' = left,
         io' = io, ran' = ran, finished' = finished,
         l \in {"return", "destroy"} => left[Main] = 0,
         IF l = "pop" THEN waiter' = [waiter EXCEPT ![Main] = Main] ELSE waiter' = waiter
  PROVE  Going'
<1>1. /\ wpc \in [Workers -> LoopPC \cup MainPC \cup {"exited"}] /\ Main \in Workers
      /\ waiter \in [Askers -> FiberSet \cup {Main, Null}] /\ MainInv /\ NoTwice(ready)
      /\ Main \in Askers /\ Main \notin FiberSet /\ Main \notin Jobs
  BY Names DEF TypeOK, Going, PlaceInv
<1>2. wpc'[Main] = l /\ \A v \in Workers : v # Main => wpc'[v] = wpc[v]
  BY <1>1
<1>3. /\ \A i \in Askers : i # Main => waiter'[i] = waiter[i]
      /\ waiter'[Main] = IF l = "pop" THEN Main ELSE waiter[Main]
  BY <1>1
<1>4. f[Main] \notin FiberSet
  BY <1>1, EmptyHands DEF Going, HoldPC, LoopPC
<1>5. /\ waiter[Main] = Null /\ ~In(ready, Main)
      /\ \A w \in Workers : ~(wpc[w] = "popped" /\ f[w] = Main)
  BY <1>1 DEF MainInv
<1>6. MainInv'
  <2>1. \A w \in Workers : wpc'[w] = "popped" => wpc[w] = "popped"
    BY <1>2
  <2>2. waiter'[Main] \in {Main, Null} /\ \A j \in Jobs : waiter'[j] # Main
    BY <1>1, <1>3, <1>5 DEF MainInv, Askers
  <2>3. l \notin LoopPC => waiter'[Main] = Null
    BY <1>3, <1>5 DEF LoopPC
  <2>4. Returned' => left[Main] = 0
    BY <1>2 DEF Returned
  <2>5. \A w \in Workers : w # Main => wpc'[w] \in LoopPC
    BY <1>1, <1>2 DEF MainInv
  <2>6. QED BY <1>1, <1>2, <1>5, <2>1, <2>2, <2>3, <2>4, <2>5 DEF MainInv
<1>7. \A i \in Askers, y \in FiberSet : waiter'[i] = y <=> waiter[i] = y
  BY <1>1, <1>3, <1>5, Names
<1>8. PlaceInv'
  BY <1>1, <1>2, <1>4, <1>6, <1>7, PlaceFrame DEF Going
<1>9. JobInv'
  <2>1. \A v \in Workers : Taking(v)' => Taking(v)
    BY <1>2 DEF Taking
  <2>2. QED BY <2>1, JobFrame DEF Going
<1>10. QED BY <1>2, <1>8, <1>9 DEF Going, ShuttingDown

LEMMA MainKeeps ==
  ASSUME Assumed, TypeOK, Started, Going, failed = "none", MainStep
  PROVE  /\ failed' = "none"
         /\ Going' \/ (Quiet' /\ ShuttingDown')
<1>0. Main \in Workers /\ wpc \in [Workers -> LoopPC \cup MainPC \cup {"exited"}]
  BY Names DEF TypeOK
<1>1. CASE MainSubmit
  BY <1>1, MainSubmitKeeps
<1>2. CASE MainSubmitted
  <2>1. wpc[Main] \notin LoopPC
    BY <1>2 DEF MainSubmitted, At, LoopPC
  <2>2. Going'
    BY <1>2, <2>1, MainGoes DEF MainSubmitted, At, Goto, lists, threads, fibers, futures, events, history
  <2>3. QED BY <1>2, <2>2 DEF MainSubmitted
<1>3. CASE MainRegister
  <2>1. wpc[Main] \notin LoopPC
    BY <1>3 DEF MainRegister, At, LoopPC
  <2>2. CASE left[Main] = 0
    <3>1. wpc' = [wpc EXCEPT ![Main] = "return"] /\ waiter' = waiter
      BY <1>3, <2>2 DEF MainRegister, Goto
    <3>2. Going'
      BY <1>3, <2>1, <2>2, <3>1, MainGoes DEF MainRegister, lists, fibers, events, history
    <3>3. QED BY <1>3, <3>2 DEF MainRegister
  <2>3. CASE left[Main] # 0
    <3>1. wpc' = [wpc EXCEPT ![Main] = "pop"] /\ waiter' = [waiter EXCEPT ![Main] = Main]
      BY <1>3, <2>3 DEF MainRegister, Goto
    <3>2. Going'
      BY <1>3, <2>1, <3>1, MainGoes DEF MainRegister, lists, fibers, events, history
    <3>3. QED BY <1>3, <3>2 DEF MainRegister
  <2>4. QED BY <2>2, <2>3
<1>4. CASE MainReturn
  <2>1. wpc[Main] = "return" /\ wpc[Main] \notin LoopPC /\ Returned
    BY <1>4 DEF MainReturn, At, LoopPC, Returned
  <2>2. left[Main] = 0 /\ ~In(ready, Main) /\ \A w \in Workers : In(ready, w) => w = Main
    BY <2>1 DEF Going, PlaceInv, MainInv
  <2>3. Quiet
    BY <2>1, NothingLeft DEF Going
  <2>4. ready = <<>>
    <3>1. SUFFICES ASSUME ready # <<>> PROVE FALSE
      OBVIOUS
    <3>2. Head(ready) \in FiberSet \cup Workers /\ In(ready, Head(ready))
      BY <3>1, PopList DEF TypeOK
    <3>3. QED BY <2>2, <2>3, <3>2 DEF Quiet
  <2>5. failed' = "none"
    BY <1>4, <2>4 DEF MainReturn, Assert
  <2>6. Going'
    BY <1>4, <2>1, <2>2, MainGoes DEF MainReturn, At, Goto, lists, threads, fibers, futures, events, history
  <2>7. QED BY <2>5, <2>6
<1>5. CASE DestroyFibers
  <2>1. wpc[Main] = "destroy" /\ Returned
    BY <1>5 DEF DestroyFibers, At, Returned
  <2>2. Quiet
    BY <2>1, NothingLeft DEF Going
  <2>3. /\ wpc' = [wpc EXCEPT ![Main] = "stop"] /\ ready' = ready /\ queue' = queue /\ f' = f
        /\ fpc' = fpc /\ io' = io /\ failed' = failed
    BY <1>5 DEF DestroyFibers, At, Goto, lists, threads, fibers, futures, events, history
  <2>4. wpc'[Main] = "stop" /\ \A v \in Workers : v # Main => wpc'[v] = wpc[v]
    BY <1>0, <2>3
  <2>5. Quiet'
    BY <2>2, <2>3, <2>4 DEF Quiet
  <2>6. QED BY <2>3, <2>4, <2>5 DEF ShuttingDown
<1>6. ~Stopped /\ ~FreeContext /\ \A w \in Workers : ~StopOne(w)
  BY DEF Stopped, FreeContext, StopOne, At, Going, ShuttingDown
<1>7. QED BY <1>1, <1>2, <1>3, <1>4, <1>5, <1>6 DEF MainStep

LEMMA CompleteKeeps ==
  ASSUME Assumed, TypeOK, Going, failed = "none", NEW j \in Jobs, Complete(j)
  PROVE  Going' /\ failed' = "none" /\ TypeOK' /\ (Started => Started')
<1>1. /\ prog' = prog /\ free' = free /\ ready' = ready /\ f' = f /\ wpc' = wpc /\ job' = job
      /\ fpc' = fpc /\ fjob' = fjob /\ saved' = saved /\ left' = left /\ waiter' = waiter
      /\ io' = io /\ ran' = ran /\ finished' = finished /\ failed' = failed /\ queue' = queue
      /\ put' = put /\ fired' = fired \cup {j}
  BY DEF Complete, At, Goto, lists, threads, fibers, futures, events, history
<1>2. MainInv' /\ NoTwice(ready') /\ ~ShuttingDown'
  <2>1. MainInv /\ NoTwice(ready)
    BY DEF Going, PlaceInv
  <2>2. QED BY <1>1, <2>1, MainFrame DEF Going
<1>3. PlaceInv'
  BY <1>1, <1>2, PlaceFrame DEF Going
<1>4. JobInv'
  BY <1>1, JobFrame DEF Going, Taking
<1>5. TypeOK' /\ (Started => Started')
  BY <1>1 DEF TypeOK, Started
<1>6. QED BY <1>1, <1>2, <1>3, <1>4, <1>5 DEF Going
-----------------------------------------------------------------------------
(***************************************************************************)
(* The invariant                                                           *)
(***************************************************************************)
LEMMA StartsWell ==
  ASSUME Assumed, Init
  PROVE  IInv
<1>1. /\ prog \in Programs /\ ready = <<>> /\ free = Fibers /\ queue = <<>>
      /\ wpc = [w \in Workers |-> IF w = Main THEN "submit" ELSE "pop"]
      /\ f = [w \in Workers |-> Null] /\ job = [w \in Workers |-> Null]
      /\ fpc = [x \in FiberSet |-> "loop"] /\ fjob = [x \in FiberSet |-> Null]
      /\ saved = [x \in FiberSet |-> TRUE] /\ put = [i \in Askers |-> 0]
      /\ left = [i \in Askers |-> Len(prog.kids[i]) + (IF i \in prog.io THEN 1 ELSE 0)]
      /\ waiter = [i \in Askers |-> Null] /\ io = [j \in Jobs |-> Null] /\ fired = {}
      /\ ran = [j \in Jobs |-> 0] /\ finished = {} /\ failed = "none"
  BY DEF Init
<1>2. /\ \A y : ~In(ready, y) /\ ~In(queue, y)
      /\ NoTwice(ready) /\ NoTwice(queue)
  BY <1>1 DEF In, NoTwice
<1>3. Fibers \in Seq(FiberSet) /\ NoTwice(Fibers) /\ \A x \in FiberSet : In(Fibers, x)
  BY DEF Assumed, NodeAssumption, NoTwice, In, FiberSet
<1>4. HandedIn = {}
  <2>1. \A i \in Askers : put[i] = 0
    BY <1>1
  <2>2. \A i \in Askers : \A n : n \notin 1 .. put[i]
    BY <2>1
  <2>3. QED BY <2>2 DEF HandedIn
<1>5. ASSUME NEW i \in Askers
      PROVE  /\ left[i] = Cardinality(Pending(i)) + (IF i \in prog.io THEN 1 ELSE 0)
             /\ i \in prog.io => left[i] = 1
             /\ left[i] \in 0 .. Cardinality(Jobs)
  <2>1. /\ DOMAIN prog.kids[i] = 1 .. Len(prog.kids[i]) /\ Len(prog.kids[i]) \in Nat
        /\ (i \in prog.io => prog.kids[i] = <<>>) /\ prog.io \subseteq Jobs
    BY <1>1, Program
  <2>2. Pending(i) = 1 .. Len(prog.kids[i])
    BY <1>1, <2>1 DEF Pending
  <2>3. Cardinality(Pending(i)) = Len(prog.kids[i])
    <3>1. PICK N \in Nat : N = Len(prog.kids[i])
      BY <2>1
    <3>2. Cardinality(1 .. N) = N
      BY FS_Interval
    <3>3. QED BY <2>2, <3>1, <3>2
  <2>4. /\ Cardinality(Jobs) \in Nat /\ Len(prog.kids[i]) <= Cardinality(Jobs)
        /\ i \in Jobs => 1 <= Cardinality(Jobs)
    BY <1>1, PendingFinite
  <2>5. left[i] = Len(prog.kids[i]) + (IF i \in prog.io THEN 1 ELSE 0)
    BY <1>1
  <2>6. CASE i \in prog.io
    <3>1. Len(prog.kids[i]) = 0
      BY <2>1, <2>6
    <3>2. QED BY <2>1, <2>3, <2>4, <2>5, <2>6, <3>1
  <2>7. CASE i \notin prog.io
    BY <2>1, <2>3, <2>4, <2>5, <2>7
  <2>8. QED BY <2>6, <2>7
<1>6. TypeOK
  <2>1. left \in [Askers -> 0 .. Cardinality(Jobs)]
    BY <1>1, <1>5
  <2>2. \A i \in Askers : put[i] <= Len(prog.kids[i])
    BY <1>1, Program
  <2>3. queue \in Seq(Jobs) /\ Len(queue) <= QueueSize
    BY <1>1 DEF Assumed, ProgramAssumption
  <2>4. wpc \in [Workers -> LoopPC \cup MainPC \cup {"exited"}]
    BY <1>1 DEF LoopPC, MainPC
  <2>5. /\ ready \in Seq(FiberSet \cup Workers) /\ free \in Seq(FiberSet)
        /\ put \in [Askers -> Nat] /\ fired \subseteq Jobs /\ finished \subseteq Jobs
        /\ failed \in {"none", "159f", "159job", "216", "304", "350", "352"}
    BY <1>1, <1>3
  <2>6. /\ f \in [Workers -> FiberSet \cup Workers \cup {Null}]
        /\ job \in [Workers -> Jobs \cup {Null}]
        /\ waiter \in [Askers -> FiberSet \cup {Main, Null}]
    BY <1>1
  <2>7. /\ fpc \in [FiberSet -> {"loop", "submit", "register", "sleep", "awake",
                                 "finish", "clear", "end"}]
        /\ fjob \in [FiberSet -> Jobs \cup {Null}]
        /\ saved \in [FiberSet -> BOOLEAN]
    BY <1>1
  <2>8. io \in [Jobs -> Workers \cup {Null}] /\ ran \in [Jobs -> Nat]
    BY <1>1
  <2>9. QED BY <1>1, <2>1, <2>2, <2>3, <2>4, <2>5, <2>6, <2>7, <2>8 DEF TypeOK
<1>7. Started /\ ~ShuttingDown
  BY <1>1, Names DEF Started, ShuttingDown
<1>8. MainInv
  BY <1>1, <1>2, Names DEF MainInv, Returned, LoopPC, Askers
<1>9. ASSUME NEW x \in FiberSet
      PROVE  /\ FreeInv(x) /\ ReadyInv(x) /\ WaiterInv(x) /\ NowhereInv(x)
             /\ \A w \in Workers : HeldInv(w, x) /\ WakerInv(w, x)
  BY <1>1, <1>2, <1>3, Names DEF FreeInv, ReadyInv, WaiterInv, NowhereInv, HeldInv, WakerInv
<1>10. PlaceInv
  BY <1>1, <1>2, <1>3, <1>8, <1>9 DEF PlaceInv
<1>11. QueueInv /\ \A w \in Workers : TakenInv(w)
  BY <1>1, <1>2 DEF QueueInv, TakenInv, Taking
<1>12. \A x \in FiberSet : CarriedInv(x)
  BY <1>1 DEF CarriedInv
<1>13. \A i \in Askers : LeftInv(i)
  <2>1. \A i \in Askers : Cardinality(Pending(i)) \in Nat
    BY <1>1, PendingFinite
  <2>2. QED BY <1>5, <2>1 DEF LeftInv
<1>14. ASSUME NEW j \in Jobs PROVE HistoryInv(j)
  <2>1. j \in Askers
    BY DEF Askers
  <2>2. io[j] = Null /\ ran[j] = 0 /\ put[j] = 0 /\ j \notin finished
    BY <1>1, <2>1
  <2>3. j \in prog.io => left[j] = 1
    BY <1>5, <2>1
  <2>4. QED BY <2>2, <2>3 DEF HistoryInv
<1>15. JobInv
  BY <1>11, <1>12, <1>13, <1>14 DEF JobInv
<1>16. QED BY <1>1, <1>6, <1>7, <1>10, <1>15 DEF IInv

\* Every step keeps the invariant, before and during the shutdown.
LEMMA Steps ==
  ASSUME Assumed, LocalAwaits, IInv, [Next]_vars
  PROVE  IInv'
<1>1. CASE UNCHANGED vars
  <2>1. /\ prog' = prog /\ free' = free /\ ready' = ready /\ f' = f /\ wpc' = wpc /\ job' = job
        /\ fpc' = fpc /\ fjob' = fjob /\ saved' = saved /\ left' = left /\ waiter' = waiter
        /\ io' = io /\ ran' = ran /\ finished' = finished /\ failed' = failed /\ queue' = queue
        /\ put' = put /\ fired' = fired
    BY <1>1 DEF vars
  <2>2. TypeOK' /\ Started' /\ (ShuttingDown' <=> ShuttingDown)
    BY <2>1 DEF IInv, TypeOK, Started, ShuttingDown
  <2>3. CASE ShuttingDown
    BY <2>1, <2>2, <2>3 DEF IInv, Quiet
  <2>4. CASE ~ShuttingDown
    <3>1. MainInv' /\ NoTwice(ready')
      <4>1. MainInv /\ NoTwice(ready)
        BY <2>4 DEF IInv, PlaceInv
      <4>2. QED BY <2>1, <4>1, MainFrame
    <3>2. PlaceInv'
      BY <2>1, <2>4, <3>1, PlaceFrame DEF IInv
    <3>3. JobInv'
      BY <2>1, <2>4, JobFrame DEF IInv, Taking
    <3>4. QED BY <2>1, <2>2, <2>4, <3>2, <3>3 DEF IInv
  <2>5. QED BY <2>3, <2>4
<1>2. CASE Next /\ ShuttingDown
  <2>1. TypeOK /\ Started /\ Quiet /\ failed = "none"
    BY <1>2 DEF IInv, Next, WorkerStep, Answer
  <2>2. Quiet' /\ ShuttingDown' /\ failed' = "none"
    BY <1>2, <2>1, QuietSteps
  <2>3. TypeOK' /\ Started'
    <3>1. ASSUME NEW w \in Workers, LoopStep(w) PROVE TypeOK' /\ Started'
      <4>1. \A j \in Jobs : ~Callback(w, j)
        BY <2>1, Names DEF Quiet, Callback
      <4>2. QED BY <2>1, <3>1, <4>1, LoopType
    <3>2. ASSUME NEW w \in Workers, NEW x \in FiberSet, FiberStep(w, x) PROVE TypeOK' /\ Started'
      <4>1. wpc[w] = "run" /\ f[w] = x
        BY <3>2 DEF FiberStep, Begin, Submit, Request, Submitted, Register, Sleep, Awake,
                      Finish, Clear, End, Yield, Runs, At
      <4>2. fpc[x] \in {"clear", "end"}
        BY <2>1, <4>1 DEF Quiet
      <4>3. CASE Clear(w, x)
        BY <2>1, <4>1, <4>3 DEF Clear, Next_, TypeOK, Started, lists, threads, futures, events, history
      <4>4. CASE End(w, x)
        BY <2>1, <4>1, <4>4 DEF End, Yield, Next_, Goto, LoopPC, TypeOK, Started, lists, futures,
                                events, history
      <4>5. QED
        BY <3>2, <4>2, <4>3, <4>4 DEF FiberStep, Begin, Submit, Request, Submitted, Register, Sleep,
                      Awake, Finish, Yield, Runs
    <3>3. ASSUME MainStep PROVE TypeOK' /\ Started'
      BY <2>1, <3>3, MainType
    <3>4. ASSUME NEW j \in Jobs, Answer(j) PROVE FALSE
      BY <2>1, <3>4 DEF Quiet, Answer, Complete
    <3>5. QED BY <1>2, <3>1, <3>2, <3>3, <3>4 DEF Next, WorkerStep
  <2>4. QED BY <2>2, <2>3 DEF IInv
<1>3. CASE Next /\ ~ShuttingDown
  <2>1. TypeOK /\ Started /\ Going /\ failed = "none"
    BY <1>3 DEF IInv, Next, WorkerStep, Answer, Going
  <2>2. ASSUME NEW w \in Workers, LoopStep(w) PROVE IInv'
    <3>1. \A j \in Jobs : Callback(w, j) => left[j] # 0
      BY <2>1, CallbackKeeps DEF Going
    <3>2. TypeOK' /\ Started'
      BY <2>1, <2>2, <3>1, LoopType
    <3>3. QED BY <2>1, <2>2, <3>2, LoopKeeps DEF IInv, Going
  <2>3. ASSUME NEW w \in Workers, NEW x \in FiberSet, FiberStep(w, x) PROVE IInv'
    <3>1. wpc[w] = "run" /\ f[w] = x
      BY <2>3 DEF FiberStep, Begin, Submit, Request, Submitted, Register, Sleep, Awake,
                    Finish, Clear, End, Yield, Runs, At
    <3>2. fpc[x] # "end" => fjob[x] # Null
      BY <2>1, <3>1, Running
    <3>3. fpc[x] = "finish" => Owner(fjob[x]) \in Askers /\ left[Owner(fjob[x])] # 0
      BY <2>1, <3>2, OwnerWaits DEF Going
    <3>4. TypeOK' /\ Started'
      BY <2>1, <2>3, <3>2, <3>3, FiberType
    <3>5. QED BY <2>1, <2>3, <3>4, FiberKeeps DEF IInv, Going
  <2>4. ASSUME MainStep PROVE IInv'
    BY <2>1, <2>4, MainType, MainKeeps DEF IInv, Going
  <2>5. ASSUME NEW j \in Jobs, Answer(j) PROVE IInv'
    BY <2>1, <2>5, CompleteKeeps DEF IInv, Going, Answer
  <2>6. QED BY <1>3, <2>2, <2>3, <2>4, <2>5 DEF Next, WorkerStep
<1>4. QED BY <1>1, <1>2, <1>3
-----------------------------------------------------------------------------
(***************************************************************************)
(* Where fibers are                                                        *)
(***************************************************************************)
\* What is in a list without repetition is in it once.
LEMMA CountOnce ==
  ASSUME NEW S, NEW list \in Seq(S), NoTwice(list), NEW x
  PROVE  Count(list, x) = IF In(list, x) THEN 1 ELSE 0
<1> DEFINE C == {i \in DOMAIN list : list[i] = x}
<1>1. CASE In(list, x)
  <2>1. PICK i \in DOMAIN list : list[i] = x
    BY <1>1 DEF In
  <2>2. C = {i}
    BY <2>1 DEF NoTwice
  <2>3. Cardinality(C) = 1
    BY <2>2, FS_Singleton
  <2>4. QED BY <1>1, <2>3 DEF Count
<1>2. CASE ~In(list, x)
  <2>1. C = {}
    BY <1>2 DEF In
  <2>2. Cardinality(C) = 0
    BY <2>1, FS_EmptySet
  <2>3. QED BY <1>2, <2>2 DEF Count
<1>3. QED BY <1>1, <1>2

\* A fiber is in the hands of one worker.
LEMMA HeldOnce ==
  ASSUME PlaceInv, NEW x \in FiberSet
  PROVE  Cardinality(Holding(x)) = IF Held(x) THEN 1 ELSE 0
<1>1. \A w \in Workers : f[w] = x => wpc[w] \in HoldPC /\ \A v \in Workers : f[v] = x => v = w
  BY DEF PlaceInv, HeldInv
<1>2. CASE Held(x)
  <2>1. PICK w \in Workers : f[w] = x
    BY <1>2 DEF Held
  <2>2. Holding(x) = {w}
    BY <1>1, <2>1 DEF Holding, HoldPC
  <2>3. Cardinality(Holding(x)) = 1
    BY <2>2, FS_Singleton
  <2>4. QED BY <1>2, <2>3
<1>3. CASE ~Held(x)
  <2>1. Holding(x) = {}
    BY <1>3 DEF Holding, Held
  <2>2. QED BY <1>3, <2>1, FS_EmptySet
<1>4. QED BY <1>2, <1>3

\* The three counts add up to one, or else a future has the fiber.
LEMMA OnePlace ==
  ASSUME Assumed, IInv
  PROVE  FiberInOnePlace
<1>1. SUFFICES ASSUME ~ShuttingDown, NEW x \in FiberSet
               PROVE  LET places == Count(free, x) + Count(ready, x) + Cardinality(Holding(x))
                      IN  /\ places <= 1
                          /\ places = 0 => \E i \in Askers : waiter[i] = x
  BY DEF FiberInOnePlace
<1>2. PlaceInv /\ free \in Seq(FiberSet) /\ ready \in Seq(FiberSet \cup Workers)
  BY <1>1 DEF IInv, TypeOK
<1>3. Count(free, x) = IF In(free, x) THEN 1 ELSE 0
  BY <1>2, CountOnce DEF PlaceInv
<1>4. Count(ready, x) = IF In(ready, x) THEN 1 ELSE 0
  BY <1>2, CountOnce DEF PlaceInv
<1>5. Cardinality(Holding(x)) = IF Held(x) THEN 1 ELSE 0
  BY <1>2, HeldOnce
<1>6. /\ In(free, x) => ~In(ready, x)
      /\ Held(x) => ~In(free, x) /\ ~In(ready, x)
  BY <1>2 DEF PlaceInv, FreeInv, HeldInv, Held
<1>7. In(free, x) \/ In(ready, x) \/ Held(x) \/ \E i \in Askers : waiter[i] = x
  <2>1. fjob[x] # Null => fjob[x] \in Askers
    BY <1>1 DEF IInv, TypeOK, Askers
  <2>2. QED BY <1>2, <2>1 DEF PlaceInv, NowhereInv
<1>8. QED BY <1>3, <1>4, <1>5, <1>6, <1>7

\* With local awaits, the invariant holds of every state that is reached.
THEOREM SchedulerInvariant ==
  ASSUME Assumed, LocalAwaits
  PROVE  Spec => []IInv
<1>1. Init => IInv
  BY StartsWell
<1>2. IInv /\ [Next]_vars => IInv'
  BY Steps
<1>3. QED BY <1>1, <1>2, PTL DEF Spec

\* Wherever a job may await others, on one worker, or the main thread alone, on
\* any number of them, a fiber of fiber.c is on the free list, on the ready list or
\* with one worker, or else a future brings it back, and no assertion fails but the
\* one in fiber_create for a pool that is exhausted.
THEOREM FibersHaveOnePlace ==
  ASSUME NodeAssumption, ProgramAssumption, LocalAwaits
  PROVE  Spec => [](TypeOK /\ FiberInOnePlace /\ failed \in {"none", "159f"})
<1>1. Assumed
  BY DEF Assumed
<1>2. IInv => TypeOK /\ FiberInOnePlace /\ failed \in {"none", "159f"}
  BY <1>1, OnePlace DEF IInv
<1>3. Spec => []IInv
  BY <1>1, SchedulerInvariant
<1>4. QED BY <1>2, <1>3, PTL
-----------------------------------------------------------------------------
(***************************************************************************)
(* The pool is not exhausted                                               *)
(***************************************************************************)
\* Fibers that are over with their job, but not free yet, are at most as many as
\* the jobs that have finished.
Ended(x) == fjob[x] = Null \/ fpc[x] = "clear"
Over(x) == Ended(x) /\ ~In(free, x) /\ \A w \in Workers : f[w] = x => wpc[w] # "start"
Ending == {x \in FiberSet : Over(x)}
EndInv == ShuttingDown \/ Cardinality(Ending) <= Cardinality(finished)

\* The pool is a sequence without repetition.
LEMMA FibersCounted ==
  ASSUME Assumed
  PROVE  /\ IsFiniteSet(FiberSet) /\ Cardinality(FiberSet) = Len(Fibers)
         /\ IsFiniteSet(Jobs) /\ Cardinality(Jobs) \in Nat /\ Len(Fibers) \in Nat
<1>1. PICK N \in Nat : N = Len(Fibers)
  BY LenProperties DEF Assumed, NodeAssumption
<1>2. Fibers \in [1 .. N -> FiberSet] /\ DOMAIN Fibers = 1 .. N
  BY <1>1, LenProperties DEF Assumed, NodeAssumption
<1>3. IsFiniteSet(1 .. N) /\ Cardinality(1 .. N) = N
  BY FS_Interval
<1>4. Fibers \in Bijection(1 .. N, FiberSet)
  <2>1. Fibers \in Injection(1 .. N, FiberSet)
    BY <1>2 DEF Assumed, NodeAssumption, Injection, IsInjective
  <2>2. Fibers \in Surjection(1 .. N, FiberSet)
    BY <1>2 DEF FiberSet, Surjection
  <2>3. QED BY <2>1, <2>2 DEF Bijection
<1>5. ExistsBijection(1 .. N, FiberSet)
  BY <1>4 DEF ExistsBijection
<1>6. IsFiniteSet(FiberSet) /\ Cardinality(FiberSet) = N
  BY <1>3, <1>5, FS_Bijection
<1>7. IsFiniteSet(Jobs) /\ Cardinality(Jobs) \in Nat
  BY FS_CardinalityType DEF Assumed, ProgramAssumption
<1>8. QED BY <1>1, <1>6, <1>7

\* When a job was taken and no fiber is free, every fiber is over with a job or has
\* one of the others.
LEMMA ManyEnded ==
  ASSUME Assumed, TypeOK, Started, Going, NEW w \in Workers, wpc[w] = "create", free = <<>>
  PROVE  Cardinality(FiberSet) + Cardinality(finished) + 1
           <= Cardinality(Jobs) + Cardinality(Ending)
<1> DEFINE U == FiberSet \ Ending
           D == (Jobs \ finished) \ {job[w]}
           Taker(x) == CHOOSE v \in Workers : f[v] = x /\ wpc[v] = "start"
           Mine(x) == IF fjob[x] # Null THEN fjob[x] ELSE job[Taker(x)]
           g == [x \in U |-> Mine(x)]
<1>1. ASSUME NEW x \in U PROVE ~Ended(x) \/ \E v \in Workers : f[v] = x /\ wpc[v] = "start"
  BY DEF Ending, Over, In
<1>2. Taking(w) /\ job[w] \in Jobs /\ job[w] \notin finished /\ \A x \in FiberSet : fjob[x] # job[w]
  <2>1. Taking(w) /\ TakenInv(w)
    BY DEF Taking, Going, JobInv
  <2>2. job[w] \in Jobs /\ ran[job[w]] = 0
    BY <2>1 DEF TakenInv, Waits, TypeOK
  <2>3. HistoryInv(job[w])
    BY <2>2 DEF Going, JobInv
  <2>4. QED BY <2>1, <2>2, <2>3 DEF TakenInv, HistoryInv
<1>3. ASSUME NEW x \in U, fjob[x] # Null
      PROVE  Mine(x) = fjob[x] /\ Mine(x) \in D
  <2>1. x \in FiberSet /\ fjob[x] \in Jobs
    BY <1>3 DEF TypeOK
  <2>2. \A v \in Workers : f[v] = x => wpc[v] # "start"
    BY <1>3, <2>1 DEF Going, PlaceInv, HeldInv
  <2>3. fpc[x] # "clear"
    BY <1>1, <2>2 DEF Ended
  <2>4. fjob[x] \notin finished
    BY <1>3, <2>1, <2>3 DEF Going, JobInv, CarriedInv
  <2>5. QED BY <1>2, <1>3, <2>1, <2>4
<1>4. ASSUME NEW x \in U, fjob[x] = Null
      PROVE  /\ Taker(x) \in Workers /\ f[Taker(x)] = x /\ wpc[Taker(x)] = "start"
             /\ Mine(x) = job[Taker(x)] /\ Mine(x) \in D
             /\ \A y \in FiberSet : fjob[y] # Mine(x)
  <2>1. PICK v \in Workers : f[v] = x /\ wpc[v] = "start"
    <3>1. Ended(x)
      BY <1>4 DEF Ended
    <3>2. QED BY <1>1, <3>1
  <2>2. Taker(x) \in Workers /\ f[Taker(x)] = x /\ wpc[Taker(x)] = "start"
    BY <2>1
  <2>3. PICK u \in Workers : u = Taker(x)
    BY <2>2
  <2>4. Taking(u) /\ TakenInv(u) /\ u # w
    BY <2>2, <2>3 DEF Taking, Going, JobInv
  <2>5. /\ job[u] \in Jobs /\ ran[job[u]] = 0 /\ \A y \in FiberSet : fjob[y] # job[u]
        /\ job[u] # job[w]
    BY <1>2, <2>4 DEF TakenInv, Waits, TypeOK
  <2>6. HistoryInv(job[u])
    BY <2>5 DEF Going, JobInv
  <2>7. job[u] \notin finished
    BY <2>5, <2>6 DEF HistoryInv
  <2>8. QED BY <1>4, <2>2, <2>3, <2>5, <2>7
<1>5. ASSUME NEW x \in U, NEW y \in U, Mine(x) = Mine(y) PROVE x = y
  <2>1. CASE fjob[x] # Null /\ fjob[y] # Null
    <3>1. fjob[x] = fjob[y]
      BY <1>3, <1>5, <2>1
    <3>2. QED BY <2>1, <3>1 DEF Going, JobInv, CarriedInv
  <2>2. CASE fjob[x] # Null /\ fjob[y] = Null
    BY <1>3, <1>4, <1>5, <2>2
  <2>3. CASE fjob[x] = Null /\ fjob[y] # Null
    BY <1>3, <1>4, <1>5, <2>3
  <2>4. CASE fjob[x] = Null /\ fjob[y] = Null
    <3>1. PICK u \in Workers : u = Taker(x) /\ f[u] = x /\ wpc[u] = "start" /\ Mine(x) = job[u]
      BY <1>4, <2>4
    <3>2. PICK v \in Workers : v = Taker(y) /\ f[v] = y /\ wpc[v] = "start" /\ Mine(y) = job[v]
      BY <1>4, <2>4
    <3>3. u = v
      BY <1>5, <3>1, <3>2 DEF Going, JobInv, TakenInv, Taking
    <3>4. QED BY <3>1, <3>2, <3>3
  <2>5. QED BY <2>1, <2>2, <2>3, <2>4
<1>6. \A x \in U : Mine(x) \in D
  BY <1>3, <1>4
<1>7. g \in Injection(U, D)
  <2> HIDE DEF Mine
  <2>1. g \in [U -> D]
    BY <1>6
  <2>2. QED BY <1>5, <2>1 DEF Injection, IsInjective
<1> HIDE DEF g, D, U
<1>8. IsFiniteSet(Jobs \ finished) /\ Cardinality(Jobs \ finished) = Cardinality(Jobs) - Cardinality(finished)
  <2>1. Jobs \cap finished = finished
    BY DEF TypeOK
  <2>2. IsFiniteSet(Jobs)
    BY FibersCounted
  <2>3. /\ IsFiniteSet(Jobs \ finished)
        /\ Cardinality(Jobs \ finished) = Cardinality(Jobs) - Cardinality(Jobs \cap finished)
    BY <2>2, FS_Difference
  <2>4. QED BY <2>1, <2>3
<1>9. IsFiniteSet(D) /\ Cardinality(D) = Cardinality(Jobs) - Cardinality(finished) - 1
  BY <1>2, <1>8, FS_RemoveElement DEF D
<1>10. Cardinality(U) = Cardinality(FiberSet) - Cardinality(Ending)
  <2>1. FiberSet \cap Ending = Ending
    BY DEF Ending
  <2>2. IsFiniteSet(FiberSet)
    BY FibersCounted
  <2>3. Cardinality(FiberSet \ Ending) = Cardinality(FiberSet) - Cardinality(FiberSet \cap Ending)
    BY <2>2, FS_Difference
  <2>4. QED BY <2>1, <2>3 DEF U
<1>11. Cardinality(U) <= Cardinality(D)
  BY <1>7, <1>9, FS_Injection
<1>12. /\ Cardinality(finished) \in Nat /\ Cardinality(Ending) \in Nat
       /\ Cardinality(FiberSet) \in Nat /\ Cardinality(Jobs) \in Nat
  <2>1. finished \in SUBSET Jobs /\ Ending \in SUBSET FiberSet
    BY DEF TypeOK, Ending
  <2>2. QED BY <2>1, FibersCounted, FS_Subset, FS_CardinalityType
<1>13. QED BY <1>9, <1>10, <1>11, <1>12

\* A fiber is over later only if it is over now, as long as it was not done with.
LEMMA OverFrame ==
  ASSUME NEW x \in FiberSet, Ended(x)' => Ended(x), In(free, x) => In(free', x),
         \A v \in Workers : f[v] = x /\ wpc[v] = "start" => f'[v] = x /\ wpc'[v] = "start",
         Over(x)'
  PROVE  Over(x)
BY DEF Over

\* Jobs finish one by one, each with the fiber that had it.
NewlyOver ==
  \/ finished' = finished /\ \A x \in FiberSet : Over(x)' => Over(x)
  \/ \E x \in FiberSet, j \in Jobs :
       /\ j \notin finished /\ finished' = finished \cup {j}
       /\ \A y \in FiberSet : y # x => (Over(y)' => Over(y))

\* No step of the loop ends a job.
LEMMA LoopEnds ==
  ASSUME Assumed, TypeOK, Started, Going, failed = "none", NEW w \in Workers, LoopStep(w)
  PROVE  NewlyOver
<1>1. finished' = finished
  BY DEF LoopStep, Pop, PopOwn, PopForeign, ResumeReady, NextJob, Create, Start, Save, Check,
         Callback, Polled, history
<1>2. /\ wpc \in [Workers -> LoopPC \cup MainPC \cup {"exited"}]
      /\ f \in [Workers -> FiberSet \cup Workers \cup {Null}]
      /\ free \in Seq(FiberSet) /\ fjob \in [FiberSet -> Jobs \cup {Null}]
      /\ fpc \in [FiberSet -> {"loop", "submit", "register", "sleep", "awake",
                           "finish", "clear", "end"}]
  BY DEF TypeOK
<1>3. ASSUME NEW x \in FiberSet, Over(x)',
             fpc' = fpc, fjob' = fjob, free' = free, wpc[w] # "start",
             \A v \in Workers : v # w => f'[v] = f[v] /\ wpc'[v] = wpc[v]
      PROVE  Over(x)
  BY <1>3, OverFrame DEF Ended
<1>4. ASSUME NEW x \in FiberSet, Over(x)' PROVE Over(x)
  <2>1. CASE Pop(w) \/ PopOwn(w) \/ PopForeign(w) \/ ResumeReady(w) \/ NextJob(w) \/ Save(w)
             \/ (\E j \in Jobs : Callback(w, j)) \/ Polled(w)
    <3>1. /\ wpc[w] # "start" /\ fpc' = fpc /\ fjob' = fjob /\ free' = free
          /\ \A v \in Workers : v # w => f'[v] = f[v] /\ wpc'[v] = wpc[v]
      BY <1>2, <2>1 DEF Pop, PopOwn, PopForeign, ResumeReady, NextJob, Save, Callback, Polled,
                        At, Goto, Resume, lists, threads, fibers
    <3>2. QED BY <1>3, <1>4, <3>1
  <2>2. CASE Create(w)
    <3>1. /\ fpc' = fpc /\ fjob' = fjob /\ wpc[w] = "create" /\ wpc'[w] = "start"
          /\ \A v \in Workers : v # w => f'[v] = f[v] /\ wpc'[v] = wpc[v]
      BY <1>2, <2>2 DEF Create, At, Goto, fibers
    <3>2. CASE free = <<>>
      <4>1. free' = free
        BY <2>2, <3>2 DEF Create
      <4>2. QED BY <1>4, <3>1, <4>1, <1>3
    <3>3. CASE free # <<>>
      <4>1. free' = Tail(free) /\ f'[w] = Head(free)
        BY <1>2, <2>2, <3>3 DEF Create
      <4>2. x # Head(free)
        BY <1>4, <3>1, <4>1 DEF Over
      <4>3. In(free, x) => In(free', x)
        BY <1>2, <3>3, <4>1, <4>2, PopList
      <4>4. QED BY <1>4, <3>1, <4>3, OverFrame DEF Ended
    <3>4. QED BY <3>2, <3>3
  <2>3. CASE Start(w)
    <3>1. PICK y \in FiberSet : y = f[w]
      BY <2>3 DEF Start, At, Started
    <3>2. /\ wpc[w] = "start" /\ wpc' = [wpc EXCEPT ![w] = "run"]
          /\ fjob' = [fjob EXCEPT ![y] = job[w]] /\ fpc' = fpc /\ f' = f /\ free' = free
      BY <2>3, <3>1 DEF Start, At, Goto, Resume, lists
    <3>3. job[w] # Null /\ fpc[y] = "loop"
      BY <3>1, <3>2 DEF Going, JobInv, TakenInv, Taking, PlaceInv, HeldInv
    <3>4. x # y
      BY <1>2, <1>4, <3>2, <3>3 DEF Over, Ended
    <3>5. \A v \in Workers : f[v] = x => wpc'[v] = wpc[v]
      BY <1>2, <3>1, <3>2, <3>4
    <3>6. Ended(x)' => Ended(x)
      BY <1>2, <3>2, <3>4 DEF Ended
    <3>7. QED BY <1>4, <3>2, <3>5, <3>6, OverFrame
  <2>4. CASE Check(w)
    <3>1. PICK y \in FiberSet : y = f[w]
      BY <2>4 DEF Check, At, Started
    <3>2. /\ wpc[w] = "check" /\ f'[w] = Null /\ wpc'[w] # "start"
          /\ \A v \in Workers : v # w => f'[v] = f[v] /\ wpc'[v] = wpc[v]
          /\ fjob' = fjob /\ fpc' = fpc
          /\ free' = IF fjob[y] = Null THEN Push(free, y) ELSE free
      BY <1>2, <2>4, <3>1 DEF Check, At, Goto, fibers
    <3>3. In(free, x) => In(free', x)
      BY <1>2, <3>2, PushList
    <3>4. QED BY <1>4, <3>2, <3>3, OverFrame DEF Ended
  <2>5. QED BY <2>1, <2>2, <2>3, <2>4 DEF LoopStep
<1>5. QED BY <1>1, <1>4 DEF NewlyOver

\* Finish ends one; the fiber that lets go of its job had ended before.
LEMMA FiberEnds ==
  ASSUME Assumed, TypeOK, Started, Going, failed = "none", NEW w \in Workers, NEW x \in FiberSet,
         FiberStep(w, x)
  PROVE  NewlyOver
<1>1. /\ wpc[w] = "run" /\ f[w] = x /\ f' = f /\ free' = free
      /\ wpc' = wpc \/ wpc' = [wpc EXCEPT ![w] = "save"]
  BY DEF FiberStep, Begin, Submit, Request, Submitted, Register, Sleep, Awake, Finish, Clear, End,
         Yield, Runs, At, Goto, lists, threads
<1>2. /\ wpc \in [Workers -> LoopPC \cup MainPC \cup {"exited"}]
      /\ fjob \in [FiberSet -> Jobs \cup {Null}]
      /\ fpc \in [FiberSet -> {"loop", "submit", "register", "sleep", "awake",
                           "finish", "clear", "end"}]
  BY DEF TypeOK
<1>3. \A v \in Workers : wpc[v] = "start" => wpc'[v] = "start"
  BY <1>1, <1>2
<1>4. \A y \in FiberSet : y # x => fpc'[y] = fpc[y] /\ fjob'[y] = fjob[y]
  BY <1>2 DEF FiberStep, Begin, Submit, Request, Submitted, Register, Sleep, Awake, Finish, Clear,
         End, Yield, Next_, fibers
<1>5. ASSUME NEW y \in FiberSet, Ended(y)' => Ended(y), Over(y)' PROVE Over(y)
  BY <1>1, <1>3, <1>5, OverFrame
<1>6. CASE Finish(w, x)
  <2>1. fpc[x] = "finish" /\ finished' = finished \cup {fjob[x]}
    BY <1>6 DEF Finish, Runs
  <2>2. fjob[x] \in Jobs
    BY <1>1, <2>1, Running
  <2>3. fjob[x] \notin finished
    BY <2>1, <2>2, Names DEF Going, JobInv, CarriedInv
  <2>4. \A y \in FiberSet : y # x => (Over(y)' => Over(y))
    BY <1>4, <1>5 DEF Ended
  <2>5. QED BY <2>1, <2>2, <2>3, <2>4 DEF NewlyOver
<1>7. CASE ~Finish(w, x)
  <2>1. finished' = finished
    BY <1>7 DEF FiberStep, Begin, Submit, Request, Submitted, Register, Sleep, Awake, Clear, End,
         Yield, history
  <2>2. Ended(x)' => Ended(x)
    <3>1. CASE Clear(w, x)
      BY <3>1 DEF Clear, Runs, Ended
    <3>2. CASE ~Clear(w, x)
      <4>1. fjob' = fjob
        BY <1>7, <3>2 DEF FiberStep, Begin, Submit, Request, Submitted, Register, Sleep, Awake,
             End, Yield, fibers
      <4>2. fpc' = fpc \/ \E l : l # "clear" /\ fpc' = [fpc EXCEPT ![x] = l]
        BY <1>7, <3>2 DEF FiberStep, Begin, Submit, Request, Submitted, Register, Sleep, Awake,
             End, Yield, Next_, fibers
      <4>3. QED BY <1>2, <4>1, <4>2 DEF Ended
    <3>3. QED BY <3>1, <3>2
  <2>3. \A y \in FiberSet : Over(y)' => Over(y)
    BY <1>4, <1>5, <2>2 DEF Ended
  <2>4. QED BY <2>1, <2>3 DEF NewlyOver
<1>8. QED BY <1>6, <1>7

LEMMA MainEnds ==
  ASSUME Assumed, TypeOK, Started, Going, failed = "none", MainStep
  PROVE  NewlyOver \/ ShuttingDown'
<1>1. /\ fjob' = fjob /\ fpc' = fpc /\ finished' = finished
  BY DEF MainStep, MainSubmit, MainSubmitted, MainRegister, MainReturn, DestroyFibers, StopOne,
         Stopped, FreeContext, fibers, history
<1>2. CASE DestroyFibers
  BY <1>2, Names DEF DestroyFibers, Goto, ShuttingDown, TypeOK
<1>3. CASE ~DestroyFibers
  <2>1. /\ f' = f /\ free' = free /\ wpc[Main] # "start"
        /\ \A v \in Workers : v # Main => wpc'[v] = wpc[v]
    BY <1>3 DEF MainStep, MainSubmit, MainSubmitted, MainRegister, MainReturn, StopOne,
         Stopped, FreeContext, At, Goto, lists, threads, TypeOK, Going, ShuttingDown
  <2>2. ASSUME NEW x \in FiberSet, Over(x)' PROVE Over(x)
    BY <1>1, <2>1, <2>2, OverFrame DEF Ended
  <2>3. QED BY <1>1, <2>2 DEF NewlyOver
<1>4. QED BY <1>2, <1>3

\* A fiber that ends adds one to both sides of EndInv.
LEMMA EndedCounted ==
  ASSUME Assumed, TypeOK, TypeOK', EndInv, ~ShuttingDown, NewlyOver
  PROVE  EndInv'
<1>1. /\ IsFiniteSet(Ending) /\ IsFiniteSet(finished)
      /\ Cardinality(Ending) \in Nat /\ Cardinality(finished) \in Nat
      /\ Cardinality(Ending) <= Cardinality(finished)
  <2>1. finished \in SUBSET Jobs /\ Ending \in SUBSET FiberSet
    BY DEF TypeOK, Ending
  <2>2. QED BY <2>1, FibersCounted, FS_Subset, FS_CardinalityType DEF EndInv
<1>2. Ending' \subseteq FiberSet
  BY DEF Ending
<1>3. CASE finished' = finished /\ \A x \in FiberSet : Over(x)' => Over(x)
  <2>1. Ending' \in SUBSET Ending
    BY <1>3 DEF Ending
  <2>2. Cardinality(Ending') <= Cardinality(Ending) /\ Cardinality(Ending') \in Nat
    BY <1>1, <2>1, FS_Subset, FS_CardinalityType
  <2>3. QED BY <1>1, <1>3, <2>2 DEF EndInv
<1>4. ASSUME NEW x \in FiberSet, NEW j \in Jobs,
             j \notin finished, finished' = finished \cup {j},
             \A y \in FiberSet : y # x => (Over(y)' => Over(y))
      PROVE  EndInv'
  <2>1. Ending' \in SUBSET (Ending \cup {x})
    BY <1>4 DEF Ending
  <2>2. /\ IsFiniteSet(Ending \cup {x}) /\ Cardinality(Ending \cup {x}) <= Cardinality(Ending) + 1
        /\ Cardinality(Ending \cup {x}) \in Nat
    <3>1. /\ IsFiniteSet(Ending \cup {x})
          /\ Cardinality(Ending \cup {x})
               = IF x \in Ending THEN Cardinality(Ending) ELSE Cardinality(Ending) + 1
      BY <1>1, FS_AddElement
    <3>2. QED BY <1>1, <3>1
  <2>3. Cardinality(Ending') <= Cardinality(Ending \cup {x}) /\ Cardinality(Ending') \in Nat
    BY <2>1, <2>2, FS_Subset, FS_CardinalityType
  <2>4. Cardinality(finished') = Cardinality(finished) + 1
    BY <1>1, <1>4, FS_AddElement
  <2>5. QED BY <1>1, <2>2, <2>3, <2>4 DEF EndInv
<1>5. QED BY <1>3, <1>4 DEF NewlyOver

NInv == IInv /\ EndInv /\ failed = "none"

LEMMA StartsFree ==
  ASSUME Assumed, Init
  PROVE  NInv
<1>1. IInv
  BY StartsWell
<1>2. free = Fibers /\ failed = "none" /\ finished = {}
  BY DEF Init
<1>3. \A x \in FiberSet : In(free, x)
  BY <1>2 DEF In, FiberSet
<1>4. Ending = {}
  BY <1>3 DEF Ending, Over
<1>5. Cardinality(Ending) <= Cardinality(finished)
  BY <1>2, <1>4, FS_EmptySet
<1>6. QED BY <1>1, <1>2, <1>5 DEF NInv, EndInv

LEMMA StaysFree ==
  ASSUME Assumed, LocalAwaits, EnoughFibers, NInv, [Next]_vars
  PROVE  NInv'
<1>1. IInv'
  BY Steps DEF NInv
<1>2. TypeOK /\ Started /\ TypeOK' /\ failed = "none"
  BY <1>1 DEF NInv, IInv
<1>3. CASE UNCHANGED vars
  <2>1. /\ f' = f /\ wpc' = wpc /\ free' = free /\ fpc' = fpc /\ fjob' = fjob
        /\ finished' = finished /\ failed' = failed
    BY <1>3 DEF vars
  <2>2. Ending' = Ending /\ (ShuttingDown' <=> ShuttingDown)
    BY <2>1 DEF Ending, Over, Ended, ShuttingDown
  <2>3. QED BY <1>1, <1>2, <2>1, <2>2 DEF NInv, EndInv
<1>4. CASE Next /\ ShuttingDown
  <2>1. Quiet
    BY <1>4 DEF NInv, IInv
  <2>2. ShuttingDown' /\ failed' = "none"
    BY <1>2, <1>4, <2>1, QuietSteps
  <2>3. QED BY <1>1, <2>2 DEF NInv, EndInv
<1>5. CASE Next /\ ~ShuttingDown
  <2>1. Going /\ EndInv
    BY <1>5 DEF NInv, IInv, Going
  <2>2. ASSUME NEW w \in Workers, LoopStep(w) PROVE NewlyOver /\ failed' = "none"
    <3>1. CASE Create(w) /\ free = <<>>
      <4>1. wpc[w] = "create"
        BY <3>1 DEF Create, At
      <4>2. Cardinality(FiberSet) + Cardinality(finished) + 1
              <= Cardinality(Jobs) + Cardinality(Ending)
        BY <1>2, <2>1, <3>1, <4>1, ManyEnded
      <4>3. Cardinality(Ending) <= Cardinality(finished)
        BY <1>5, <2>1 DEF EndInv
      <4>4. Cardinality(finished) \in Nat /\ Cardinality(Ending) \in Nat
        <5>1. finished \in SUBSET Jobs /\ Ending \in SUBSET FiberSet
          BY <1>2 DEF TypeOK, Ending
        <5>2. QED BY <5>1, FibersCounted, FS_Subset, FS_CardinalityType
      <4>5. QED BY <4>2, <4>3, <4>4, FibersCounted DEF EnoughFibers
    <3>2. CASE ~(Create(w) /\ free = <<>>)
      BY <1>2, <2>1, <2>2, <3>2, LoopKeeps, LoopEnds, CreateKeeps
    <3>3. QED BY <3>1, <3>2
  <2>3. ASSUME NEW w \in Workers, NEW x \in FiberSet, FiberStep(w, x)
        PROVE  NewlyOver /\ failed' = "none"
    BY <1>2, <2>1, <2>3, FiberKeeps, FiberEnds
  <2>4. ASSUME MainStep PROVE (NewlyOver \/ ShuttingDown') /\ failed' = "none"
    BY <1>2, <2>1, <2>4, MainKeeps, MainEnds
  <2>5. ASSUME NEW j \in Jobs, Answer(j) PROVE NewlyOver /\ failed' = "none"
    <3>1. /\ Complete(j) /\ f' = f /\ wpc' = wpc /\ free' = free /\ fpc' = fpc /\ fjob' = fjob
          /\ finished' = finished
      BY <2>5 DEF Answer, Complete, lists, threads, fibers, history
    <3>2. failed' = "none"
      BY <1>2, <2>1, <3>1, CompleteKeeps
    <3>3. QED BY <3>1, <3>2 DEF NewlyOver, Over, Ended
  <2>6. (NewlyOver \/ ShuttingDown') /\ failed' = "none"
    BY <1>5, <2>2, <2>3, <2>4, <2>5 DEF Next, WorkerStep
  <2>7. EndInv'
    BY <1>2, <1>5, <2>1, <2>6, EndedCounted DEF EndInv
  <2>8. QED BY <1>1, <2>6, <2>7 DEF NInv
<1>6. QED BY <1>3, <1>4, <1>5

\* With at least as many fibers as jobs no assertion of fiber.c fails: the pool is
\* not exhausted either.
THEOREM SchedulerAssertionsHold ==
  ASSUME NodeAssumption, ProgramAssumption, LocalAwaits, EnoughFibers
  PROVE  Spec => []SchedulerIsSound
<1>1. Assumed
  BY DEF Assumed
<1>2. Init => NInv
  BY <1>1, StartsFree
<1>3. NInv /\ [Next]_vars => NInv'
  BY <1>1, StaysFree
<1>4. NInv => SchedulerIsSound
  BY <1>1, OnePlace DEF NInv, IInv, SchedulerIsSound, NoAssertFails
<1>5. QED BY <1>2, <1>3, <1>4, PTL DEF Spec
-----------------------------------------------------------------------------
(***************************************************************************)
(* The scheduler implements AbstractJobs                                   *)
(***************************************************************************)
LEMMA HandedSame ==
  ASSUME Assumed, TypeOK
  PROVE  HandedOver = HandedIn /\ DOMAIN Children = Askers
<1>1. ASSUME NEW j PROVE j \in HandedOver <=> \E i \in Askers : \E n \in 1 .. put[i] : prog.kids[i][n] = j
  BY DEF HandedOver
<1>2. ASSUME NEW i \in Askers, NEW n \in 1 .. put[i] PROVE prog.kids[i][n] \in Jobs
  <2>1. /\ \A m \in 1 .. Len(prog.kids[i]) : prog.kids[i][m] \in Jobs
        /\ Len(prog.kids[i]) \in Nat /\ put[i] \in Nat /\ put[i] <= Len(prog.kids[i])
    BY Program DEF TypeOK
  <2>2. n \in 1 .. Len(prog.kids[i])
    BY <2>1
  <2>3. QED BY <2>1, <2>2
<1>3. \A j : j \in HandedOver <=> j \in HandedIn
  BY <1>1, <1>2 DEF HandedIn
<1>4. QED BY <1>3 DEF Children

\* An asker whose future is at 0 waits for no job.
LEMMA NothingPending ==
  ASSUME Assumed, TypeOK, JobInv, NEW i \in Askers, left[i] = 0
  PROVE  Children[i] \subseteq finished
<1>1. SUFFICES ASSUME NEW n \in DOMAIN prog.kids[i] PROVE prog.kids[i][n] \in finished
  BY DEF Children
<1>2. CASE i \in prog.io
  <2>1. prog \in Programs /\ prog.kids[i] = <<>>
    BY <1>2 DEF Assumed, ProgramAssumption, TypeOK
  <2>2. QED BY <1>1, <2>1
<1>3. CASE i \notin prog.io
  <2>1. IsFiniteSet(Pending(i)) /\ Cardinality(Pending(i)) = 0
    BY <1>3, PendingFinite DEF JobInv, LeftInv, TypeOK
  <2>2. Pending(i) = {}
    BY <2>1, FS_EmptySet
  <2>3. QED BY <1>1, <2>2 DEF Pending
<1>4. QED BY <1>2, <1>3

LEMMA MainAwaited ==
  Assumed /\ TypeOK /\ JobInv /\ left[Main] = 0 => Children[Main] \subseteq finished
BY NothingPending, Names

\* Nothing is seen of a step that leaves the jobs alone, but that Main returns.
LEMMA ReturnRefines ==
  ASSUME Assumed, IInv', prog' = prog, put' = put, ran' = ran, finished' = finished,
         Returned => Returned', ShuttingDown' => Returned
  PROVE  [Abs!Next]_(Abs!vars)
<1>1. Children' = Children /\ HandedOver' = HandedOver
  BY DEF Children, HandedOver
<1>2. CASE Returned' <=> Returned
  <2>1. Returned' = Returned
    BY <1>2 DEF Returned
  <2>2. QED BY <1>1, <2>1 DEF Abs!vars
<1>3. CASE ~Returned /\ Returned'
  <2>1. TypeOK' /\ JobInv' /\ MainInv'
    BY <1>3 DEF IInv, PlaceInv
  <2>2. left'[Main] = 0
    BY <1>3, <2>1 DEF MainInv
  <2>3. Children'[Main] \subseteq finished'
    <3>1. (Assumed /\ TypeOK /\ JobInv /\ left[Main] = 0 => Children[Main] \subseteq finished)'
      BY MainAwaited, PTL
    <3>2. Assumed'
      BY DEF Assumed, NodeAssumption, ProgramAssumption, FiberSet, Askers
    <3>3. QED BY <2>1, <2>2, <3>1, <3>2
  <2>4. Returned' = TRUE
    BY <1>3 DEF Returned
  <2>5. Abs!Return
    BY <1>1, <1>3, <2>3, <2>4 DEF Abs!Return
  <2>6. QED BY <2>5 DEF Abs!Next
<1>4. QED BY <1>2, <1>3

\* The next job is handed in.
LEMMA SubmitRefines ==
  ASSUME Assumed, TypeOK, TypeOK', NEW i \in Askers, Enqueue(i),
         i \in Jobs => ran[i] = 1 /\ i \notin finished,
         prog' = prog, ran' = ran, finished' = finished, wpc' = wpc
  PROVE  Abs!Next
<1>1. PICK n \in 1 .. Len(prog.kids[i]), j \in Jobs :
        j = prog.kids[i][n] /\ j \notin HandedIn /\ HandedIn' = HandedIn \cup {j}
  BY EnqueueHands
<1>2. HandedOver = HandedIn /\ HandedOver' = HandedIn'
  <2>1. (Assumed /\ TypeOK => HandedOver = HandedIn)'
    BY HandedSame, PTL
  <2>2. Assumed'
    BY DEF Assumed, NodeAssumption, ProgramAssumption, FiberSet, Askers
  <2>3. QED BY <2>1, <2>2, HandedSame
<1>3. j \in Children[i]
  <2>1. n \in DOMAIN prog.kids[i]
    BY Program DEF TypeOK
  <2>2. QED BY <1>1, <2>1 DEF Children
<1>4. Children' = Children /\ Returned' = Returned
  BY DEF Children, Returned
<1>5. Abs!Submit(i, j)
  BY <1>1, <1>2, <1>3, <1>4 DEF Abs!Submit
<1>6. i \in Jobs \cup {Main}
  BY DEF Askers
<1>7. QED BY <1>5, <1>6 DEF Abs!Next

LEMMA LoopRefines ==
  ASSUME Assumed, IInv, IInv', failed = "none", NEW w \in Workers, LoopStep(w)
  PROVE  [Abs!Next]_(Abs!vars)
<1>1. prog' = prog /\ put' = put /\ ran' = ran /\ finished' = finished
  BY DEF LoopStep, Pop, PopOwn, PopForeign, ResumeReady, NextJob, Create, Start, Save, Check,
         Callback, Polled, futures, history
<1>2. wpc[w] \in LoopPC /\ \A v \in Workers : v # w => wpc'[v] = wpc[v]
  BY DEF LoopStep, Pop, PopOwn, PopForeign, ResumeReady, NextJob, Create, Start, Save, Check,
         Callback, Polled, At, Goto, Resume, threads, LoopPC, IInv, TypeOK
<1>3. wpc'[w] \notin {"stop", "stopping", "freed"}
  BY DEF LoopStep, Pop, PopOwn, PopForeign, ResumeReady, NextJob, Create, Start, Save, Check,
         Callback, Polled, At, Goto, Resume, threads, IInv, TypeOK
<1>4. Main \in Workers
  BY Names
<1>5. (Returned => Returned') /\ (ShuttingDown' => Returned)
  BY <1>2, <1>3, <1>4 DEF Returned, ShuttingDown, LoopPC
<1>6. QED BY <1>1, <1>5, ReturnRefines

LEMMA FiberRefines ==
  ASSUME Assumed, IInv, IInv', failed = "none", NEW w \in Workers, NEW x \in FiberSet,
         FiberStep(w, x)
  PROVE  [Abs!Next]_(Abs!vars)
<1>1. wpc[w] = "run" /\ f[w] = x
  BY DEF FiberStep, Begin, Submit, Request, Submitted, Register, Sleep, Awake, Finish, Clear, End,
         Yield, Runs, At
<1>2. TypeOK /\ TypeOK' /\ Main \in Workers
  BY Names DEF IInv
<1>3. Returned' = Returned /\ (ShuttingDown' => Returned) /\ prog' = prog
  <2>1. wpc' = wpc \/ wpc' = [wpc EXCEPT ![w] = "save"]
    BY DEF FiberStep, Begin, Submit, Request, Submitted, Register, Sleep, Awake, Finish, Clear, End,
         Yield, Goto, threads
  <2>2. wpc'[Main] = wpc[Main] \/ (wpc[Main] = "run" /\ wpc'[Main] = "save")
    BY <1>1, <1>2, <2>1 DEF TypeOK
  <2>3. prog' = prog
    BY DEF FiberStep, Begin, Submit, Request, Submitted, Register, Sleep, Awake, Finish, Clear, End,
         Yield
  <2>4. QED BY <2>2, <2>3 DEF Returned, ShuttingDown
<1>4. CASE Begin(w, x) \/ Submit(w, x) \/ Finish(w, x)
  <2>1. fpc[x] \in {"loop", "submit", "finish"}
    BY <1>4 DEF Begin, Submit, Finish, Runs
  <2>2. ~ShuttingDown
    BY <1>1, <2>1 DEF IInv, Quiet
  <2>3. Going
    BY <2>2 DEF IInv, Going
  <2>4. PICK j \in Jobs : j = fjob[x]
    BY <1>1, <1>2, <2>1, <2>3, Running
  <2>5. CarriedInv(x) /\ j # Null
    BY <2>3, <2>4, Names DEF Going, JobInv
  <2>6. CASE Begin(w, x)
    <3>1. /\ fpc[x] = "loop" /\ ran' = [ran EXCEPT ![j] = @ + 1] /\ put' = put /\ finished' = finished
      BY <2>4, <2>6 DEF Begin, Runs, futures
    <3>2. j \in HandedOver /\ ran[j] = 0
      BY <1>2, <2>4, <2>5, <3>1, HandedSame DEF CarriedInv
    <3>3. ran' = [ran EXCEPT ![j] = 1]
      BY <3>1, <3>2
    <3>4. Children' = Children /\ HandedOver' = HandedOver
      BY <1>3, <3>1 DEF Children, HandedOver
    <3>5. Abs!Start(j)
      BY <1>3, <3>1, <3>2, <3>3, <3>4 DEF Abs!Start
    <3>6. QED BY <3>5 DEF Abs!Next
  <2>7. CASE Submit(w, x)
    <3>1. /\ fpc[x] = "submit" /\ Enqueue(j) /\ ran' = ran /\ finished' = finished /\ wpc' = wpc
      BY <2>4, <2>7 DEF Submit, Runs, threads, history
    <3>2. ran[j] = 1 /\ j \notin finished
      BY <2>4, <2>5, <3>1 DEF CarriedInv
    <3>3. j \in Askers
      BY DEF Askers
    <3>4. QED BY <1>2, <1>3, <3>1, <3>2, <3>3, SubmitRefines
  <2>8. CASE Finish(w, x)
    <3>1. /\ fpc[x] = "finish" /\ ran' = ran /\ finished' = finished \cup {j} /\ put' = put
      BY <2>4, <2>8 DEF Finish, Runs
    <3>2. ran[j] = 1 /\ j \notin finished /\ left[j] = 0
      BY <2>4, <2>5, <3>1 DEF CarriedInv
    <3>3. j \in Askers
      BY DEF Askers
    <3>4. Children[j] \subseteq finished
      BY <1>2, <2>3, <3>2, <3>3, NothingPending DEF Going
    <3>5. Children' = Children /\ HandedOver' = HandedOver
      BY <1>3, <3>1 DEF Children, HandedOver
    <3>6. Abs!Finish(j)
      BY <1>3, <3>1, <3>2, <3>4, <3>5 DEF Abs!Finish
    <3>7. QED BY <3>6 DEF Abs!Next
  <2>9. QED BY <1>4, <2>6, <2>7, <2>8
<1>5. CASE ~(Begin(w, x) \/ Submit(w, x) \/ Finish(w, x))
  <2>1. put' = put /\ ran' = ran /\ finished' = finished
    BY <1>5 DEF FiberStep, Request, Submitted, Register, Sleep, Awake, Clear, End, Yield, futures,
         history
  <2>2. Returned => Returned'
    BY <1>3
  <2>3. QED BY <1>3, <2>1, <2>2, ReturnRefines
<1>6. QED BY <1>4, <1>5

LEMMA MainRefines ==
  ASSUME Assumed, IInv, IInv', failed = "none", MainStep
  PROVE  [Abs!Next]_(Abs!vars)
<1>1. TypeOK /\ TypeOK' /\ Main \in Workers /\ Main \in Askers /\ Main \notin Jobs
  BY Names DEF IInv
<1>2. CASE MainSubmit
  <2>1. Enqueue(Main) /\ prog' = prog /\ ran' = ran /\ finished' = finished /\ wpc' = wpc
    BY <1>2 DEF MainSubmit, threads, history
  <2>2. QED BY <1>1, <2>1, SubmitRefines
<1>3. CASE ~MainSubmit
  <2>1. prog' = prog /\ put' = put /\ ran' = ran /\ finished' = finished
    BY <1>3 DEF MainStep, MainSubmitted, MainRegister, MainReturn, DestroyFibers, StopOne, Stopped,
         FreeContext, futures, history
  <2>2. PICK l \in MainPC \cup {"pop"} :
          /\ wpc' = [wpc EXCEPT ![Main] = l]
          /\ \/ wpc[Main] \in {"submit", "register"} /\ l \in {"register", "return", "pop"}
             \/ wpc[Main] \in {"return", "destroy", "stop", "stopping"}
                /\ l \in {"destroy", "stop", "stopping", "freed"}
    BY <1>3 DEF MainStep, MainSubmitted, MainRegister, MainReturn, DestroyFibers, StopOne, Stopped,
         FreeContext, At, Goto, MainPC
  <2>3. wpc'[Main] = l
    BY <1>1, <2>2 DEF TypeOK
  <2>4. (Returned => Returned') /\ (ShuttingDown' => Returned)
    BY <2>2, <2>3 DEF Returned, ShuttingDown
  <2>5. QED BY <2>1, <2>4, ReturnRefines
<1>4. QED BY <1>2, <1>3

\* Every step of the scheduler is one that the jobs of AbstractJobs allow: each runs
\* once, and await returns after the jobs it is for.
THEOREM SchedulerRefinesJobs ==
  ASSUME NodeAssumption, ProgramAssumption, LocalAwaits
  PROVE  Spec => RefinesAbstractJobs
<1>1. Assumed
  BY DEF Assumed
<1>2. Init => Abs!Init
  <2>1. SUFFICES ASSUME Init PROVE Abs!Init
    OBVIOUS
  <2>2. /\ wpc[Main] = "submit" /\ ran = [j \in Jobs |-> 0] /\ finished = {}
        /\ \A i \in Askers : put[i] = 0
    BY <1>1, <2>1, Names DEF Init
  <2>3. HandedOver = {}
    <3>1. \A i \in Askers : \A n : n \notin 1 .. put[i]
      BY <2>2
    <3>2. QED BY <3>1 DEF HandedOver
  <2>4. Returned = FALSE
    BY <2>2 DEF Returned
  <2>5. QED BY <2>2, <2>3, <2>4 DEF Abs!Init
<1>3. IInv /\ IInv' /\ [Next]_vars => [Abs!Next]_(Abs!vars)
  <2>1. SUFFICES ASSUME IInv, IInv', [Next]_vars PROVE [Abs!Next]_(Abs!vars)
    OBVIOUS
  <2>2. CASE UNCHANGED vars
    <3>1. prog' = prog /\ put' = put /\ ran' = ran /\ finished' = finished /\ wpc' = wpc
      BY <2>2 DEF vars
    <3>2. QED BY <3>1 DEF Abs!vars, Children, HandedOver, Returned
  <2>3. CASE \E w \in Workers : WorkerStep(w)
    <3>1. failed = "none" /\ \E w \in Workers :
            LoopStep(w) \/ (\E x \in FiberSet : FiberStep(w, x)) \/ MainStep
      BY <2>3 DEF WorkerStep
    <3>2. QED BY <1>1, <2>1, <3>1, LoopRefines, FiberRefines, MainRefines
  <2>4. CASE \E j \in Jobs : Answer(j)
    <3>1. prog' = prog /\ put' = put /\ ran' = ran /\ finished' = finished /\ wpc' = wpc
      BY <2>4 DEF Answer, Complete, threads, futures, history
    <3>2. QED BY <3>1 DEF Abs!vars, Children, HandedOver, Returned
  <2>5. QED BY <2>1, <2>2, <2>3, <2>4 DEF Next
<1>4. Spec => []IInv
  BY <1>1, SchedulerInvariant
<1>5. QED BY <1>2, <1>3, <1>4, PTL DEF Spec, RefinesAbstractJobs, Abs!Safety
=============================================================================
