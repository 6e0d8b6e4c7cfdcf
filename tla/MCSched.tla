------------------------------ MODULE MCSched -------------------------------
(* FiberSched with two workers, where only the main thread waits for jobs; and *)
(* with one worker, for all programs of four jobs that await jobs and requests,*)
(* on variables of its own.  Of the two, the one that kind names runs.  A job  *)
(* that awaits another one on two workers meets what sched_context shows, which *)
(* runs Awaiting alone.                                                        *)
EXTENDS FiberSched

CONSTANTS w1, x1, x2, x3, x4

VARIABLES
  kind, prog_, ready_, free_, queue_, wpc_, f_, job_, fpc_, fjob_, saved_, put_, left_,
  waiter_, io_, fired_, ran_, finished_, failed_

others == <<prog_, ready_, free_, queue_, wpc_, f_, job_, fpc_, fjob_, saved_, put_, left_,
            waiter_, io_, fired_, ran_, finished_, failed_>>
allVars == <<kind, vars, others>>

-----------------------------------------------------------------------------
(* What the jobs do.  A job is a number, and is handed in by a job of a        *)
(* smaller number or by the main thread.                                       *)

Program(parent, jobs, requests) ==
  [kids |-> [i \in jobs \cup {Main} |->
               SelectSeq([j \in 1 .. Cardinality(jobs) |-> j], LAMBDA j : parent[j] = i)],
   io |-> requests]
Trees(jobs) ==
  {parent \in [jobs -> jobs \cup {Main}] : \A j \in jobs : parent[j] = Main \/ parent[j] < j}
Leaves(parent, jobs) == {j \in jobs : \A k \in jobs : parent[k] # j}

\* Jobs await jobs and requests.
AllPrograms(jobs) ==
  UNION {{Program(parent, jobs, r) : r \in SUBSET Leaves(parent, jobs)} : parent \in Trees(jobs)}

\* Only the main thread waits for jobs.
FlatPrograms == {Program([j \in Jobs |-> Main], Jobs, r) : r \in SUBSET Jobs}

FourPrograms == AllPrograms(1 .. 4)
TwoPrograms == AllPrograms({1, 2})
TwoWorkers == {Main, w1}
ThreeFibers == <<x1, x2, x3>>
-----------------------------------------------------------------------------
One == INSTANCE FiberSched WITH
  Workers <- {Main}, Fibers <- <<x1, x2, x3, x4>>,
  Jobs <- 1 .. 4, Programs <- FourPrograms, QueueSize <- 4,
  prog <- prog_, ready <- ready_, free <- free_, queue <- queue_, wpc <- wpc_, f <- f_,
  job <- job_, fpc <- fpc_, fjob <- fjob_, saved <- saved_, put <- put_, left <- left_,
  waiter <- waiter_, io <- io_, fired <- fired_, ran <- ran_, finished <- finished_,
  failed <- failed_

\* Two workers and a job that awaits another.
Awaiting == INSTANCE FiberSched WITH
  Jobs <- {1, 2}, Programs <- TwoPrograms, QueueSize <- 2,
  prog <- prog_, ready <- ready_, free <- free_, queue <- queue_, wpc <- wpc_, f <- f_,
  job <- job_, fpc <- fpc_, fjob <- fjob_, saved <- saved_, put <- put_, left <- left_,
  waiter <- waiter_, io <- io_, fired <- fired_, ran <- ran_, finished <- finished_,
  failed <- failed_

ASSUME SchedAssumptions ==
  /\ NodeAssumption /\ ProgramAssumption /\ LocalAwaits /\ EnoughFibers
  /\ One!NodeAssumption /\ One!ProgramAssumption /\ One!LocalAwaits /\ One!EnoughFibers
  /\ Awaiting!NodeAssumption /\ Awaiting!ProgramAssumption

\* Those that do not run stand at a beginning.
Rest == Init /\ prog = CHOOSE p \in Programs : TRUE
OneRests == One!Init /\ prog_ = CHOOSE p \in FourPrograms : TRUE

MCInit ==
  \/ kind = "two" /\ Init /\ OneRests
  \/ kind = "one" /\ One!Init /\ Rest

Two(Step) == kind = "two" /\ Step /\ UNCHANGED <<kind, others>>
Single(Step) == kind = "one" /\ Step /\ UNCHANGED <<kind, vars>>

MCNext == Two(Next) \/ Single(One!Next)

\* Threads run, and requests to the operating system are answered.
Fairness ==
  /\ \A w \in Workers : WF_allVars(Two(WorkerStep(w)))
  /\ \A j \in Jobs : WF_allVars(Two(Answer(j)))
  /\ WF_allVars(Single(One!WorkerStep(Main)))
  /\ \A j \in 1 .. 4 : WF_allVars(Single(One!Answer(j)))
MCSpec == MCInit /\ [][MCNext]_allVars /\ Fairness

AwaitingSpec ==
  /\ kind = "awaiting" /\ Awaiting!Init /\ Rest
  /\ [][Awaiting!Next /\ UNCHANGED <<kind, vars>>]_allVars
-----------------------------------------------------------------------------
\* One worker of fiber.c runs all jobs, also those that await others: its fibers are
\* in one place, no assertion fails, jobs run once, await returns after its jobs, and
\* the wait of the main thread returns.
OneWorkerServesAll ==
  /\ []One!SchedulerIsSound
  /\ One!Abs!Init /\ [][One!Abs!Next]_(One!Abs!vars)
  /\ <>(kind = "one" => One!Returned)

\* With two workers all jobs finish, and a shutdown of fiber.c that began ends.
EverythingEnds == kind = "two" => AllJobsFinish /\ ShutsDown

\* TC_ASSERT(ctx != NULL) in tc_fiber_resume: a fiber that is resumed has saved
\* its context.
ContextSaved == failed_ # "350"
=============================================================================
