------------------------------ MODULE Requests ------------------------------
(* Timers and requests to the operating system: an object of a pool carries   *)
(* the libuv handle and the future; a callback on the loop of the worker that *)
(* made the request stores the result and decrements the future, whose holder *)
(* frees it, and with it the object, from whatever worker it runs on.         *)
EXTENDS Naturals, FiniteSets

CONSTANTS
  Users,     \* fibers that make requests, one at a time each
  Objects,   \* those of the pools
  Workers,   \* each runs the callbacks of its own loop
  Answers,   \* what the driver may answer
  MaxRepeats,\* bound: repeats of a timer
  MaxStarts, \* bound: requests
  Nobody     \* no object, no callback, no waiter, no result

ASSUME RequestsAssumption ==
  /\ MaxRepeats \in Nat
  /\ Nobody \notin [slot : Objects, start : Nat, left : Nat, answer : Answers \cup {0, Nobody}]
  /\ Nobody \notin [slot : Objects, start : Nat, step : {"timer", "request", "decr"}, answer : Answers \cup {0}]
  /\ Nobody \notin [user : Users, start : Nat, kind : {"timer", "request"}, repeats : Nat,
                    result : Answers \cup {0, Nobody}, worker : Workers]

VARIABLES
  object,  \* Nobody in the pool, or [user, start, kind, repeats, result, worker]
  active,  \* libuv: [slot, start, worker, kind] of handles that may still call back
  running, \* the callback each worker is in: [slot, start, step, answer] or Nobody
  wait,    \* what each user waits for: [slot, start, left, answer] or Nobody
  starts   \* requests so far

reqVars == <<object, active, running, wait, starts>>
-----------------------------------------------------------------------------
ReqInit ==
  /\ object = [s \in Objects |-> Nobody] /\ active = {}
  /\ running = [w \in Workers |-> Nobody]
  /\ wait = [u \in Users |-> Nobody] /\ starts = 0

\* tc_timer_start, os_request_init_ex and the calls on it, os_system_run: an
\* object of the pool, a future that counts the answers, and a handle.
Start(u, w, s, kind, repeats) ==
  /\ wait[u] = Nobody /\ object[s] = Nobody /\ starts < MaxStarts
  /\ kind # "timer" => repeats = 1
  /\ starts' = starts + 1
  /\ object' = [object EXCEPT ![s] = [user |-> u, start |-> starts', kind |-> kind, repeats |-> repeats,
                                      result |-> Nobody, worker |-> w]]
  /\ wait' = [wait EXCEPT ![u] = [slot |-> s, start |-> starts', left |-> repeats, answer |-> Nobody]]
  /\ active' = active \cup {[slot |-> s, start |-> starts', worker |-> w, kind |-> kind]}
  /\ UNCHANGED running

\* External: the loop of a worker calls back.  A request is answered once, a
\* timer expires until it is stopped.
Answer(w, h, answer) ==
  /\ running[w] = Nobody /\ h \in active /\ h.worker = w
  /\ h.kind = "timer" => answer = 0
  /\ running' = [running EXCEPT ![w] = [slot |-> h.slot, start |-> h.start, step |-> h.kind, answer |-> answer]]
  /\ active' = IF h.kind = "timer" THEN active ELSE active \ {h}
  /\ UNCHANGED <<object, wait, starts>>

\* mutant: one repeat too early.
LastRepeatEarly(o) == o.repeats <= 2

\* mutant: compared before the decrement.
LastRepeatLate(o) == o.repeats = 0

\* --timer->repeats == 0
LastRepeat(o) == o.repeats = 1

\* mutant: the result of a request is set by timers only.
SetResultNot(o, c) == o

SetResult(o, c) == [o EXCEPT !.result = c.answer]

\* What a callback does before it decrements the future.  The result of a
\* timer is set and the timer is stopped at the last of its repeats.
FirstStep(c) ==
  LET o == object[c.slot]
      less == [o EXCEPT !.repeats = @ - 1]
      handles == {h \in active : h.slot # c.slot}
  IN  IF c.step = "request"
      THEN object' = [object EXCEPT ![c.slot] = SetResult(o, c)] /\ UNCHANGED active
      ELSE IF LastRepeat(o)
      THEN object' = [object EXCEPT ![c.slot] = [less EXCEPT !.result = 0]] /\ active' = handles
      ELSE object' = [object EXCEPT ![c.slot] = less] /\ UNCHANGED active

Callback(w) ==
  /\ running[w] # Nobody /\ running[w].step \in {"timer", "request"}
  /\ object[running[w].slot] # Nobody
  /\ FirstStep(running[w])
  /\ running' = [running EXCEPT ![w].step = "decr"]
  /\ UNCHANGED <<wait, starts>>

\* tc_fut_decr of the future the object names.
Decrement(w) ==
  /\ running[w] # Nobody /\ running[w].step = "decr"
  /\ object[running[w].slot] # Nobody
  /\ LET u == object[running[w].slot].user IN
     wait' = [wait EXCEPT ![u].left = @ - 1, ![u].answer = running[w].answer]
  /\ running' = [running EXCEPT ![w] = Nobody]
  /\ UNCHANGED <<object, active, starts>>

\* The waiter goes on, takes the result and frees the future: the destructor
\* gives the object back to its pool.
Finish(u) ==
  /\ wait[u] # Nobody /\ wait[u].left = 0
  /\ object' = [object EXCEPT ![wait[u].slot] = Nobody]
  /\ wait' = [wait EXCEPT ![u] = Nobody]
  /\ UNCHANGED <<active, running, starts>>

Answered(w) == \E h \in active, a \in Answers : Answer(w, h, a)

ReqNext ==
  \/ \E u \in Users, w \in Workers, s \in Objects, n \in 1 .. MaxRepeats :
       Start(u, w, s, "timer", n)
  \/ \E u \in Users, w \in Workers, s \in Objects : Start(u, w, s, "request", 1)
  \/ \E w \in Workers : Answered(w)
  \/ \E w \in Workers : Callback(w)
  \/ \E w \in Workers : Decrement(w)
  \/ \E u \in Users : Finish(u)

\* The driver answers and the workers, which run their loops between fibers,
\* go on; a fiber that is woken runs.
ReqFairness ==
  /\ \A w \in Workers :
       /\ WF_reqVars(Answered(w))
       /\ WF_reqVars(Callback(w)) /\ WF_reqVars(Decrement(w))
  /\ \A u \in Users : WF_reqVars(Finish(u))
ReqSpec == ReqInit /\ [][ReqNext]_reqVars /\ ReqFairness
-----------------------------------------------------------------------------
(* Properties.                                                               *)

\* timer_cb, os_cb: a callback runs on the object of the request it belongs
\* to, though the object is given back and handed out again by other workers
\* as soon as the future is decremented.
NoStrayCallback ==
  /\ \A h \in active : object[h.slot] # Nobody /\ object[h.slot].start = h.start
  /\ \A w \in Workers : running[w] # Nobody =>
       object[running[w].slot] # Nobody /\ object[running[w].slot].start = running[w].start

\* os_cb and timer_cb: when the waiter goes on the result is there, and it is
\* the last answer of the driver to this request.
ResultIsAnswer ==
  \A u \in Users : (wait[u] # Nobody /\ wait[u].left = 0) =>
    object[wait[u].slot] # Nobody /\ object[wait[u].slot].result = wait[u].answer

\* The two together.
AnswersAreTheirs == NoStrayCallback /\ ResultIsAnswer

\* tc_timer_start: a timer of several repeats decrements its future as often
\* as it was asked, so that its waiter goes on.
AllAnswered == \A u \in Users : []<>(wait[u] = Nobody)
=============================================================================
