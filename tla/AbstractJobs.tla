---------------------------- MODULE AbstractJobs ----------------------------
(***************************************************************************)
(* What the job system of src/src/fiber.c promises.  The main thread hands *)
(* in jobs and waits for them; a job may hand in jobs of its own and await *)
(* them.  Every job that was handed in runs exactly once, await returns    *)
(* only when all jobs it is for have finished, and everything finishes.    *)
(***************************************************************************)
EXTENDS Naturals

CONSTANTS Jobs, Main

VARIABLES
  children,   \* children[i]: the jobs that job i, or Main, hands in
  submitted,  \* jobs handed in so far
  ran,        \* ran[j]: how often j was started
  finished,   \* jobs whose function returned
  returned    \* the wait of Main returned

vars == <<children, submitted, ran, finished, returned>>

Submit(i, j) ==
  /\ i \in Jobs => ran[i] = 1 /\ i \notin finished
  /\ j \in children[i] \ submitted
  /\ submitted' = submitted \cup {j}
  /\ UNCHANGED <<children, ran, finished, returned>>

Start(j) ==
  /\ j \in submitted /\ ran[j] = 0
  /\ ran' = [ran EXCEPT ![j] = 1]
  /\ UNCHANGED <<children, submitted, finished, returned>>

Finish(j) ==
  /\ ran[j] = 1 /\ j \notin finished
  /\ children[j] \subseteq finished
  /\ finished' = finished \cup {j}
  /\ UNCHANGED <<children, submitted, ran, returned>>

Return ==
  /\ ~returned /\ children[Main] \subseteq finished
  /\ returned' = TRUE
  /\ UNCHANGED <<children, submitted, ran, finished>>

Next ==
  \/ \E j \in Jobs : Start(j) \/ Finish(j) \/ \E i \in Jobs \cup {Main} : Submit(i, j)
  \/ Return

Init ==
  /\ submitted = {} /\ finished = {} /\ returned = FALSE
  /\ ran = [j \in Jobs |-> 0]
Safety == Init /\ [][Next]_vars
Spec == Safety /\ WF_vars(Next)
=============================================================================
