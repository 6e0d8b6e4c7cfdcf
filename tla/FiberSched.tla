---------------------------- MODULE FiberSched ------------------------------
(***************************************************************************)
(* The scheduler of src/src/fiber.c: worker threads that run jobs on       *)
(* fibers.  A worker takes suspended fibers from the ready list and jobs   *)
(* from the queue, switches to a fiber and back, and polls its event loop. *)
(* A job here hands in jobs of its own and awaits them, or awaits one      *)
(* request to the event loop of its worker, or just returns; the main      *)
(* thread hands in jobs, waits for them and shuts the pool down.           *)
(*                                                                         *)
(* The stacks and the queue are atomic here (modules LfLifo and LfQueue    *)
(* show that they implement that), and so are the operations of a future,  *)
(* for one waiter (module Future).  Between them every step that another   *)
(* worker can observe is an action: registering with a future, switching   *)
(* away, saving the context, and looking whether the fiber is done.        *)
(*                                                                         *)
(* The scheduling fiber of a worker is named like the worker.              *)
(***************************************************************************)
EXTENDS Integers, Sequences, FiniteSets

CONSTANTS
  Workers, Main,  \* the threads; Main runs fiber_pool_init and _destroy
  Fibers,         \* the pool, as a sequence: the last one created first
  Jobs,
  Programs,       \* what the jobs do: a set of [kids, io] records
  QueueSize,      \* FIBER_NUM_JOBS
  Null

FiberSet == {Fibers[i] : i \in DOMAIN Fibers}
Askers == Jobs \cup {Main}

NodeAssumption ==
  /\ Main \in Workers /\ Workers \cap FiberSet = {} /\ Workers \cap Jobs = {}
  /\ Null \notin Workers \cup FiberSet \cup Jobs
  /\ Fibers \in Seq(FiberSet)
  /\ \A m, n \in DOMAIN Fibers : Fibers[m] = Fibers[n] => m = n

\* A job is handed in once, by the main thread or by a job that is there before it.
ProgramAssumption ==
  /\ QueueSize \in Nat /\ IsFiniteSet(Jobs)
  /\ \A p \in Programs :
       /\ p.io \subseteq Jobs
       /\ DOMAIN p.kids = Askers
       /\ \A i \in Askers : p.kids[i] \in Seq(Jobs) /\ (i \in p.io => p.kids[i] = <<>>)
       /\ \A i, k \in Askers : \A m \in DOMAIN p.kids[i], n \in DOMAIN p.kids[k] :
            p.kids[i][m] = p.kids[k][n] => i = k /\ m = n
       /\ \E age \in [Jobs -> 0 .. Cardinality(Jobs)] :
            \A i \in Jobs : \A n \in DOMAIN p.kids[i] : age[i] < age[p.kids[i][n]]

\* Fibers are woken by the worker they run on: with one worker, or if jobs await
\* requests only and just the main thread awaits jobs.
LocalAwaits == Workers = {Main} \/ \A p \in Programs, j \in Jobs : p.kids[j] = <<>>
EnoughFibers == Cardinality(Jobs) <= Len(Fibers)

VARIABLES
  prog,    \* the program that runs, one of Programs
  ready,   \* context->ready, top first
  free,    \* context->free_list, top first
  queue,   \* context->job_queue
  wpc,     \* wpc[w]: where worker w is in worker_loop, or Main outside of it
  f,       \* f[w]: local variable f
  job,     \* job[w]: local variable job
  fpc,     \* fpc[x]: where fiber x is in fiber_loop and the function of its job
  fjob,    \* fjob[x]: x->job
  saved,   \* saved[x]: x->fctx # NULL
  put,     \* put[i]: jobs that asker i has put into the queue
  left,    \* left[i]: value of the future on which i waits
  waiter,  \* waiter[i]: fiber in the slot of that future
  io,      \* io[j]: the worker whose loop has the request of j
  fired,   \* requests that are done, but whose callback has not run
  ran,     \* history: how often each job was started
  finished,\* history: jobs whose function returned
  failed   \* line of the TC_ASSERT that failed, if one did

vars == <<prog, ready, free, queue, wpc, f, job, fpc, fjob, saved, put, left,
          waiter, io, fired, ran, finished, failed>>
lists == <<ready, free, queue>>
threads == <<wpc, f, job>>
fibers == <<fpc, fjob, saved>>
futures == <<put, left, waiter>>
events == <<io, fired>>
history == <<ran, finished>>

LoopPC == {"pop", "popped", "next", "create", "start", "run", "save", "check", "poll"}
MainPC == {"submit", "register", "return", "destroy", "stop", "stopping", "freed"}

TypeOK ==
  /\ prog \in Programs
  /\ ready \in Seq(FiberSet \cup Workers)
  /\ free \in Seq(FiberSet)
  /\ queue \in Seq(Jobs) /\ Len(queue) <= QueueSize
  /\ wpc \in [Workers -> LoopPC \cup MainPC \cup {"exited"}]
  /\ f \in [Workers -> FiberSet \cup Workers \cup {Null}]
  /\ job \in [Workers -> Jobs \cup {Null}]
  /\ fpc \in [FiberSet -> {"loop", "submit", "register", "sleep", "awake",
                           "finish", "clear", "end"}]
  /\ fjob \in [FiberSet -> Jobs \cup {Null}]
  /\ saved \in [FiberSet -> BOOLEAN]
  /\ put \in [Askers -> Nat] /\ \A i \in Askers : put[i] <= Len(prog.kids[i])
  /\ left \in [Askers -> 0 .. Cardinality(Jobs)]
  /\ waiter \in [Askers -> FiberSet \cup {Main, Null}]
  /\ io \in [Jobs -> Workers \cup {Null}]
  /\ fired \subseteq Jobs
  /\ ran \in [Jobs -> Nat]
  /\ finished \subseteq Jobs
  /\ failed \in {"none", "159f", "159job", "216", "304", "350", "352"}

\* fiber_pool_init: all fibers stand in fiber_loop and are free.
Init ==
  /\ prog \in Programs
  /\ ready = <<>> /\ free = Fibers /\ queue = <<>>
  /\ wpc = [w \in Workers |-> IF w = Main THEN "submit" ELSE "pop"]
  /\ f = [w \in Workers |-> Null]
  /\ job = [w \in Workers |-> Null]
  /\ fpc = [x \in FiberSet |-> "loop"]
  /\ fjob = [x \in FiberSet |-> Null]
  /\ saved = [x \in FiberSet |-> TRUE]
  /\ put = [i \in Askers |-> 0]
  /\ left = [i \in Askers |-> Len(prog.kids[i]) + (IF i \in prog.io THEN 1 ELSE 0)]
  /\ waiter = [i \in Askers |-> Null]
  /\ io = [j \in Jobs |-> Null]
  /\ fired = {}
  /\ ran = [j \in Jobs |-> 0]
  /\ finished = {}
  /\ failed = "none"

-----------------------------------------------------------------------------
At(w, label) == wpc[w] = label
Goto(w, label) == wpc' = [wpc EXCEPT ![w] = label]
Push(list, x) == <<x>> \o list
Owner(j) == CHOOSE i \in Askers : \E n \in DOMAIN prog.kids[i] : prog.kids[i][n] = j

\* TC_ASSERT(ok) in the given line: the program stops where it does not hold.
Assert(line, ok) == failed' = IF ok THEN "none" ELSE line

\* tc_fiber_ready, with the assertions in lines 216 and 217
Ready(x) ==
  /\ ready' = Push(ready, x)
  /\ Assert("216", /\ x \in FiberSet => fjob[x] # Null
                   /\ ready # <<>> => Head(ready) # x)

\* tc_fut_decr of the future of asker i: counter_wakeup and tc_fiber_ready
Decr_Early(i) ==   \* mutant: the waiter is woken by the first job
  /\ left' = [left EXCEPT ![i] = @ - 1]
  /\ IF waiter[i] # Null
     THEN /\ waiter' = [waiter EXCEPT ![i] = Null]
          /\ Ready(waiter[i])
     ELSE UNCHANGED <<waiter, ready, failed>>
Decr(i) ==
  /\ left' = [left EXCEPT ![i] = @ - 1]
  /\ IF left[i] = 1 /\ waiter[i] # Null
     THEN /\ waiter' = [waiter EXCEPT ![i] = Null]
          /\ Ready(waiter[i])
     ELSE UNCHANGED <<waiter, ready, failed>>

(* worker_loop *)

\* lf_lifo_pop(&context->ready)
Pop(w) ==
  /\ At(w, "pop")
  /\ IF ready = <<>>
     THEN Goto(w, "next") /\ UNCHANGED <<ready, f>>
     ELSE /\ f' = [f EXCEPT ![w] = Head(ready)]
          /\ ready' = Tail(ready)
          /\ Goto(w, "popped")
  /\ UNCHANGED <<prog, free, queue, job, fibers, futures, events, history, failed>>

\* f == &c->sched: the worker leaves the loop, Main with the result of its
\* wait, another one to finish its thread.
PopOwn_MainOnly(w) ==   \* mutant: f->id == 0 is tested before f == &c->sched
  /\ At(w, "popped") /\ f[w] = w
  /\ Goto(w, IF w = Main THEN "return" ELSE "next")
  /\ ready' = IF w = Main THEN ready ELSE Push(ready, w)
  /\ UNCHANGED <<prog, free, queue, f, job, fibers, futures, events, history, failed>>
PopOwn(w) ==
  /\ At(w, "popped") /\ f[w] = w
  /\ Goto(w, IF w = Main THEN "return" ELSE "exited")
  /\ UNCHANGED <<prog, lists, f, job, fibers, futures, events, history, failed>>

\* The scheduling fiber of another worker goes back.
PopForeign(w) ==
  /\ At(w, "popped") /\ f[w] \in Workers \ {w}
  /\ ready' = Push(ready, f[w])
  /\ Goto(w, "next")
  /\ UNCHANGED <<prog, free, queue, f, job, fibers, futures, events, history, failed>>

\* tc_fiber_resume: the context is taken, and the fiber goes on.
Resume(w) ==
  /\ saved' = [saved EXCEPT ![f[w]] = FALSE]
  /\ Goto(w, "run")

ResumeReady(w) ==
  /\ At(w, "popped") /\ f[w] \in FiberSet
  /\ Resume(w)
  /\ IF saved[f[w]] THEN Assert("352", fjob[f[w]] # Null) ELSE Assert("350", FALSE)
  /\ UNCHANGED <<prog, lists, f, job, fpc, fjob, futures, events, history>>

\* job_next
NextJob_Peek(w) ==   \* mutant: the job stays in the queue
  /\ At(w, "next")
  /\ IF queue = <<>>
     THEN Goto(w, "poll") /\ UNCHANGED job
     ELSE job' = [job EXCEPT ![w] = Head(queue)] /\ Goto(w, "create")
  /\ UNCHANGED <<prog, lists, f, fibers, futures, events, history, failed>>
NextJob(w) ==
  /\ At(w, "next")
  /\ IF queue = <<>>
     THEN Goto(w, "poll") /\ UNCHANGED <<queue, job>>
     ELSE /\ job' = [job EXCEPT ![w] = Head(queue)]
          /\ queue' = Tail(queue)
          /\ Goto(w, "create")
  /\ UNCHANGED <<prog, ready, free, f, fibers, futures, events, history, failed>>

\* fiber_create and TC_ASSERT(f && f->job == NULL), each half of it told apart
Create(w) ==
  /\ At(w, "create")
  /\ IF free = <<>>
     THEN Assert("159f", FALSE) /\ UNCHANGED <<f, free>>
     ELSE /\ Assert("159job", fjob[Head(free)] = Null)
          /\ f' = [f EXCEPT ![w] = Head(free)]
          /\ free' = Tail(free)
  /\ Goto(w, "start")
  /\ UNCHANGED <<prog, ready, queue, job, fibers, futures, events, history>>

\* fiber_start
Start(w) ==
  /\ At(w, "start")
  /\ fjob' = [fjob EXCEPT ![f[w]] = job[w]]
  /\ Resume(w)
  /\ Assert("350", saved[f[w]])
  /\ UNCHANGED <<prog, lists, f, job, fpc, futures, events, history>>

\* Back in tc_fiber_resume, the context of the fiber is stored.
Save(w) ==
  /\ At(w, "save")
  /\ saved' = [saved EXCEPT ![f[w]] = TRUE]
  /\ Goto(w, "check")
  /\ UNCHANGED <<prog, lists, f, job, fpc, fjob, futures, events, history, failed>>

\* if (f->job == NULL) fiber_destroy(f), in line 153 or 162.  The former goes
\* on to job_next, the latter to uv_run; job[w] tells them apart.
Check_Always(w) ==   \* mutant: fibers that wait are taken for finished ones
  /\ At(w, "check")
  /\ free' = Push(free, f[w])
  /\ Goto(w, IF job[w] = Null THEN "next" ELSE "poll")
  /\ job' = [job EXCEPT ![w] = Null]
  /\ f' = [f EXCEPT ![w] = Null]
  /\ UNCHANGED <<prog, ready, queue, fibers, futures, events, history, failed>>
Check(w) ==
  /\ At(w, "check")
  /\ free' = IF fjob[f[w]] = Null THEN Push(free, f[w]) ELSE free
  /\ Goto(w, IF job[w] = Null THEN "next" ELSE "poll")
  /\ job' = [job EXCEPT ![w] = Null]
  /\ f' = [f EXCEPT ![w] = Null]
  /\ UNCHANGED <<prog, ready, queue, fibers, futures, events, history, failed>>

\* uv_run(&c->loop, UV_RUN_NOWAIT) runs the callbacks of all requests that are
\* done, each of which ends in tc_fut_decr, and returns.
Callback_Repeats(w, j) ==   \* mutant: the timer is not stopped
  /\ At(w, "poll") /\ io[j] = w /\ j \in fired
  /\ Decr(j)
  /\ UNCHANGED <<prog, free, queue, threads, fibers, events, put, history>>
Callback(w, j) ==
  /\ At(w, "poll") /\ io[j] = w /\ j \in fired
  /\ Decr(j)
  /\ io' = [io EXCEPT ![j] = Null]
  /\ fired' = fired \ {j}
  /\ UNCHANGED <<prog, free, queue, threads, fibers, put, history>>
Polled(w) ==
  /\ At(w, "poll") /\ \A j \in fired : io[j] # w
  /\ Goto(w, "pop")
  /\ UNCHANGED <<prog, lists, f, job, fibers, futures, events, history, failed>>

\* The environment: a timer expires, a file request is done.
Complete(j) ==
  /\ io[j] # Null /\ j \notin fired
  /\ fired' = fired \cup {j}
  /\ UNCHANGED <<prog, lists, threads, fibers, futures, io, history, failed>>

-----------------------------------------------------------------------------
(* fiber_loop and the job; x is the fiber that runs on worker w *)

Runs(w, x, label) == At(w, "run") /\ f[w] = x /\ fpc[x] = label
Next_(x, label) == fpc' = [fpc EXCEPT ![x] = label]

\* job->func(job->data): what the job will do
Begin(w, x) ==
  /\ Runs(w, x, "loop")
  /\ ran' = [ran EXCEPT ![fjob[x]] = @ + 1]
  /\ Next_(x, IF left[fjob[x]] > 0 THEN "submit" ELSE "finish")
  /\ UNCHANGED <<prog, lists, threads, fjob, saved, futures, events, finished, failed>>

\* lf_queue_put of the next job, whose result tc_run_jobs ignores
Enqueue_OneLess(i) ==   \* mutant: one entry of the queue is kept empty
  /\ put[i] < Len(prog.kids[i])
  /\ put' = [put EXCEPT ![i] = @ + 1]
  /\ queue' = IF Len(queue) < QueueSize - 1 THEN Append(queue, prog.kids[i][put[i] + 1])
                                            ELSE queue
Enqueue(i) ==
  /\ put[i] < Len(prog.kids[i])
  /\ put' = [put EXCEPT ![i] = @ + 1]
  /\ queue' = IF Len(queue) < QueueSize THEN Append(queue, prog.kids[i][put[i] + 1])
                                        ELSE queue

Submit(w, x) ==
  /\ Runs(w, x, "submit")
  /\ Enqueue(fjob[x])
  /\ UNCHANGED <<prog, ready, free, threads, fibers, left, waiter, events, history, failed>>

\* Starting a request: uv_timer_start, uv_fs_read and the like
Request(w, x) ==
  /\ Runs(w, x, "submit") /\ fjob[x] \in prog.io
  /\ io' = [io EXCEPT ![fjob[x]] = w]
  /\ Next_(x, "register")
  /\ UNCHANGED <<prog, lists, threads, fjob, saved, futures, fired, history, failed>>

Submitted(w, x) ==
  /\ Runs(w, x, "submit") /\ fjob[x] \notin prog.io
  /\ put[fjob[x]] = Len(prog.kids[fjob[x]])
  /\ Next_(x, "register")
  /\ UNCHANGED <<prog, lists, threads, fjob, saved, futures, events, history, failed>>

\* counter_add_to_waiting: register, unless the counter is 0 already
Register(w, x) ==
  /\ Runs(w, x, "register")
  /\ IF left[fjob[x]] = 0
     THEN Next_(x, "awake") /\ UNCHANGED waiter
     ELSE Next_(x, "sleep") /\ waiter' = [waiter EXCEPT ![fjob[x]] = x]
  /\ UNCHANGED <<prog, lists, threads, fjob, saved, put, left, events, history, failed>>

\* tc_fiber_yield(NULL) of a fiber: jump to the scheduler
Yield(w, x, here, there) ==
  /\ Runs(w, x, here)
  /\ Next_(x, there)
  /\ Goto(w, "save")
  /\ UNCHANGED <<prog, lists, f, job, fjob, saved, futures, events, history, failed>>
Sleep(w, x) == Yield(w, x, "sleep", "awake")

\* The await returns.
Awake(w, x) ==
  /\ Runs(w, x, "awake")
  /\ Next_(x, "finish")
  /\ UNCHANGED <<prog, lists, threads, fjob, saved, futures, events, history, failed>>

\* job_finish
Finish(w, x) ==
  /\ Runs(w, x, "finish")
  /\ finished' = finished \cup {fjob[x]}
  /\ Decr(Owner(fjob[x]))
  /\ Next_(x, "clear")
  /\ UNCHANGED <<prog, free, queue, threads, fjob, saved, put, events, ran>>

\* atomic_store(&f->job, 0)
Clear_Forgotten(w, x) ==   \* mutant: f->job keeps the finished job
  /\ Runs(w, x, "clear")
  /\ Next_(x, "end")
  /\ UNCHANGED <<prog, lists, threads, fjob, saved, futures, events, history, failed>>
Clear(w, x) ==
  /\ Runs(w, x, "clear")
  /\ fjob' = [fjob EXCEPT ![x] = Null]
  /\ Next_(x, "end")
  /\ UNCHANGED <<prog, lists, threads, saved, futures, events, history, failed>>
End(w, x) == Yield(w, x, "end", "loop")

-----------------------------------------------------------------------------
(* The main thread *)

MainSubmit ==
  /\ At(Main, "submit")
  /\ Enqueue(Main)
  /\ UNCHANGED <<prog, ready, free, threads, fibers, left, waiter, events, history, failed>>

MainSubmitted ==
  /\ At(Main, "submit") /\ put[Main] = Len(prog.kids[Main])
  /\ Goto(Main, "register")
  /\ UNCHANGED <<prog, lists, f, job, fibers, futures, events, history, failed>>

\* tc_fut_wait outside of a fiber: tc_fiber_yield calls worker_loop
MainRegister ==
  /\ At(Main, "register")
  /\ IF left[Main] = 0
     THEN Goto(Main, "return") /\ UNCHANGED waiter
     ELSE Goto(Main, "pop") /\ waiter' = [waiter EXCEPT ![Main] = Main]
  /\ UNCHANGED <<prog, lists, f, job, fibers, put, left, events, history, failed>>

\* fiber_pool_destroy: the ready list must be empty, ...
MainReturn ==
  /\ At(Main, "return")
  /\ Assert("304", ready = <<>>)
  /\ Goto(Main, "destroy")
  /\ UNCHANGED <<prog, lists, f, job, fibers, futures, events, history>>

\* ... every fiber is pushed onto the free list, wherever it is, ...
DestroyFibers ==
  /\ At(Main, "destroy")
  /\ free' = Fibers \o free
  /\ Goto(Main, "stop")
  /\ UNCHANGED <<prog, ready, queue, f, job, fibers, futures, events, history, failed>>

\* ... and the other workers are stopped one by one (uv_sem_wait), in the order
\* of the array, which is left open here.
Alive == {w \in Workers \ {Main} : wpc[w] # "exited"}
StopOne(w) ==
  /\ At(Main, "stop") /\ w \in Alive
  /\ ready' = Push(ready, w)
  /\ f' = [f EXCEPT ![Main] = w]
  /\ Goto(Main, "stopping")
  /\ UNCHANGED <<prog, free, queue, job, fibers, futures, events, history, failed>>
Stopped ==
  /\ At(Main, "stopping") /\ wpc[f[Main]] = "exited"
  /\ Goto(Main, "stop")
  /\ UNCHANGED <<prog, lists, f, job, fibers, futures, events, history, failed>>
FreeContext ==
  /\ At(Main, "stop") /\ Alive = {}
  /\ Goto(Main, "freed")
  /\ UNCHANGED <<prog, lists, f, job, fibers, futures, events, history, failed>>

-----------------------------------------------------------------------------
MainStep ==
  \/ MainSubmit \/ MainSubmitted \/ MainRegister \/ MainReturn \/ DestroyFibers
  \/ (\E w \in Workers : StopOne(w)) \/ Stopped \/ FreeContext

LoopStep(w) ==
  \/ Pop(w) \/ PopOwn(w) \/ PopForeign(w) \/ ResumeReady(w)
  \/ NextJob(w) \/ Create(w) \/ Start(w) \/ Save(w) \/ Check(w)
  \/ (\E j \in Jobs : Callback(w, j)) \/ Polled(w)

FiberStep(w, x) ==
  \/ Begin(w, x) \/ Submit(w, x) \/ Request(w, x) \/ Submitted(w, x)
  \/ Register(w, x) \/ Sleep(w, x) \/ Awake(w, x)
  \/ Finish(w, x) \/ Clear(w, x) \/ End(w, x)

WorkerStep(w) ==
  /\ failed = "none"
  /\ \/ LoopStep(w)
     \/ \E x \in FiberSet : FiberStep(w, x)
     \/ w = Main /\ MainStep

Answer(j) == failed = "none" /\ Complete(j)

Next ==
  \/ \E w \in Workers : WorkerStep(w)
  \/ \E j \in Jobs : Answer(j)

Spec == Init /\ [][Next]_vars

\* Threads run, and requests to the operating system are answered.
FairSpec ==
  /\ Spec
  /\ \A w \in Workers : WF_vars(WorkerStep(w))
  /\ \A j \in Jobs : WF_vars(Answer(j))

-----------------------------------------------------------------------------
Count(list, x) == Cardinality({i \in DOMAIN list : list[i] = x})
Holding(x) ==
  {w \in Workers : f[w] = x /\ wpc[w] \in {"popped", "start", "run", "save", "check"}}
ShuttingDown == wpc[Main] \in {"stop", "stopping", "freed"}

\* Every fiber is in one place: on the free list, on the ready list, or in the
\* hands of one worker; or else a future will bring it back.
FiberInOnePlace ==
  ~ShuttingDown =>
    \A x \in FiberSet :
      LET places == Count(free, x) + Count(ready, x) + Cardinality(Holding(x))
      IN  /\ places <= 1
          /\ places = 0 => \E i \in Askers : waiter[i] = x

\* No assertion of the scheduler fails.
NoAssertFails == failed = "none"

\* What is checked and proved of every state
SchedulerIsSound == TypeOK /\ FiberInOnePlace /\ NoAssertFails

Returned == wpc[Main] \in {"return", "destroy", "stop", "stopping", "freed"}
Children == [i \in Askers |-> {prog.kids[i][n] : n \in DOMAIN prog.kids[i]}]
HandedOver == UNION {{prog.kids[i][n] : n \in 1 .. put[i]} : i \in Askers}
Abs == INSTANCE AbstractJobs WITH
  children <- Children, submitted <- HandedOver, returned <- Returned

\* Every job runs exactly once, and await returns after its jobs.
RefinesAbstractJobs == Abs!Safety

\* With one worker the wait of the main thread returns, too.  With more, another
\* worker can take the scheduling fiber of the main thread off the ready list and
\* put it back whenever Main looks.
MainReturns == <>Returned

\* Jobs finish all the same: a job or fiber is served by whoever comes first.
AllJobsFinish == <>(finished = Jobs)

\* fiber_pool_destroy ends: every other worker finds its scheduling fiber on the
\* ready list, stops and is waited for.
ShutsDown == wpc[Main] = "return" ~> wpc[Main] = "freed"
=============================================================================
