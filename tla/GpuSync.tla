------------------------------ MODULE GpuSync -------------------------------
(* Fences, semaphores and queues of the Vulkan renderer, used by a thread   *)
(* that draws frames and a thread that uploads data.  The code keeps one    *)
(* flag per fence and per semaphore that tells what the driver was asked    *)
(* for; it is read and written by vk_queue_submit, vk_queue_present and     *)
(* vk_acquire_next_image, and decides which semaphores a batch waits for    *)
(* and which fences are waited for at all.  The driver, the presentation    *)
(* engine and the loop of the application are external.                     *)
EXTENDS Naturals, Sequences, FiniteSets

CONSTANTS
  Slots,        \* number of frames in flight: fences, semaphores and pools
  MaxFrames,    \* bound: frames that are drawn
  MaxUploads,   \* bound: batches of the uploading thread
  MaxStale,     \* bound: acquisitions that find the swapchain out of date
  None

Drawer == "drawer"
Loader == "loader"
Threads == {Drawer, Loader}

Acquired(i) == <<"acquired", i>>
Rendered(i) == <<"rendered", i>>
Uploaded == <<"uploaded", 0>>
Sems == {Acquired(i) : i \in 0 .. Slots - 1}
          \cup {Rendered(i) : i \in 0 .. Slots - 1} \cup {Uploaded}
FrameFence(i) == <<"frame", i>>
UploadFence == <<"upload", 0>>
AcquireFence == <<"acquire", 0>>
Fences == {FrameFence(i) : i \in 0 .. Slots - 1} \cup {UploadFence, AcquireFence}

Graphics == "graphics"
Transfer == "transfer"
Queues == {Graphics, Transfer}

ASSUME SyncAssumption ==
  /\ Slots \in Nat \ {0}
  /\ MaxFrames \in Nat /\ MaxUploads \in Nat /\ MaxStale \in Nat
  /\ None \notin Threads \cup Fences \cup Queues \cup Nat

VARIABLES
  pc,          \* where each thread is
  frame,       \* frames submitted and presented so far
  handed,      \* an upload was handed to the drawing thread and not yet used
  reader,      \* the slot whose commands use the last upload, or None
  uploads,     \* uploads begun
  stale,       \* times the swapchain was out of date
  call,        \* the batch each thread is putting together
  signaled,    \* vk.signaled of the semaphores
  submitted,   \* vk.submitted of the fences
  submitlck,   \* the lock around the calls on a queue, or None
  queue,       \* driver: batches accepted and not executed yet
  payload,     \* driver: state of each semaphore
  fence,       \* driver: state of each fence
  uploadsDone  \* driver: uploads executed

appVars == <<frame, handed, reader, uploads, stale>>
driverVars == <<queue, payload, fence, uploadsDone>>
syncVars == <<pc, appVars, call, signaled, submitted, submitlck, driverVars>>

Slot == frame % Slots
NoCall == [waits |-> {}, signals |-> {}, fence |-> None, cmd |-> None,
           queue |-> None, needs |-> 0]
Call == [waits : SUBSET Sems, signals : SUBSET Sems, fence : Fences \cup {None},
         cmd : 0 .. Slots - 1 \cup {None}, queue : Queues \cup {None},
         needs : 0 .. MaxUploads]

Goto(t, l) == pc' = [pc EXCEPT ![t] = l]

Init ==
  /\ pc = [t \in Threads |-> IF t = Drawer THEN "poll" ELSE "idle"]
  /\ frame = 0 /\ handed = FALSE /\ reader = None /\ uploads = 0 /\ stale = 0
  /\ call = [t \in Threads |-> NoCall]
  /\ signaled = [s \in Sems |-> FALSE]
  /\ submitted = [f \in Fences |-> FALSE]
  /\ submitlck = None
  /\ queue = [q \in Queues |-> <<>>]
  /\ payload = [s \in Sems |-> "idle"]
  /\ fence = [f \in Fences |-> "reset"]
  /\ uploadsDone = 0
-----------------------------------------------------------------------------
(* Fences.                                                                  *)

\* mutant: the flags are cleared without waiting.
WaitForFencesAtOnce(fs) ==
  /\ fence' = [f \in Fences |-> IF f \in fs THEN "reset" ELSE fence[f]]
  /\ submitted' = [f \in Fences |-> IF f \in fs THEN FALSE ELSE submitted[f]]

\* mutant: the fences are not reset.
WaitForFencesNoReset(fs) ==
  /\ \A f \in {g \in fs : submitted[g]} : fence[f] = "signaled"
  /\ submitted' = [f \in Fences |-> IF f \in fs THEN FALSE ELSE submitted[f]]
  /\ UNCHANGED fence

\* A wait is for the fences whose flag is set; the others count as done.
WaitForFences(fs) ==
  LET valid == {f \in fs : submitted[f]} IN
  /\ \A f \in valid : fence[f] = "signaled"
  /\ fence' = [f \in Fences |-> IF f \in valid THEN "reset" ELSE fence[f]]
  /\ submitted' = [f \in Fences |-> IF f \in fs THEN FALSE ELSE submitted[f]]

FenceDone(f) == submitted[f] /\ fence[f] = "signaled"

\* What the commands of this slot read may be written again.
ReaderDone == reader' = IF reader = Slot THEN None ELSE reader

\* vk_get_fence_status of the fence of this slot; the loop waits if the
\* answer is FENCE_INCOMPLETE.
PollFence ==
  /\ pc[Drawer] = "poll"
  /\ frame < MaxFrames
  /\ LET f == FrameFence(Slot) IN
       IF FenceDone(f)
       THEN /\ fence' = [fence EXCEPT ![f] = "reset"]
            /\ submitted' = [submitted EXCEPT ![f] = FALSE]
            /\ ReaderDone
            /\ Goto(Drawer, "acquire")
       ELSE /\ Goto(Drawer, IF submitted[f] THEN "wait" ELSE "acquire")
            /\ UNCHANGED <<fence, submitted, reader>>
  /\ UNCHANGED <<frame, handed, uploads, stale, call, signaled, submitlck, queue, payload, uploadsDone>>

WaitFrame ==
  /\ pc[Drawer] = "wait"
  /\ WaitForFences({FrameFence(Slot)})
  /\ ReaderDone
  /\ Goto(Drawer, "acquire")
  /\ UNCHANGED <<frame, handed, uploads, stale, call, signaled, submitlck, queue, payload, uploadsDone>>

WaitUpload ==
  /\ pc[Loader] = "wait"
  /\ WaitForFences({UploadFence})
  /\ Goto(Loader, "idle")
  /\ UNCHANGED <<appVars, call, signaled, submitlck, queue, payload, uploadsDone>>
-----------------------------------------------------------------------------
(* vk_acquire_next_image, with a semaphore or with a fence.                 *)

AcquireWithSemaphore ==
  /\ pc[Drawer] = "acquire"
  /\ signaled' = [signaled EXCEPT ![Acquired(Slot)] = TRUE]
  /\ payload' = [payload EXCEPT ![Acquired(Slot)] = "engine"]
  /\ Goto(Drawer, "record")
  /\ UNCHANGED <<appVars, call, submitted, submitlck, queue, fence, uploadsDone>>

AcquireWithFence ==
  /\ pc[Drawer] = "acquire"
  /\ submitted' = [submitted EXCEPT ![AcquireFence] = TRUE]
  /\ fence' = [fence EXCEPT ![AcquireFence] = "engine"]
  /\ Goto(Drawer, "waitimage")
  /\ UNCHANGED <<appVars, call, signaled, submitlck, queue, payload, uploadsDone>>

WaitImage ==
  /\ pc[Drawer] = "waitimage"
  /\ WaitForFences({AcquireFence})
  /\ Goto(Drawer, "record")
  /\ UNCHANGED <<appVars, call, signaled, submitlck, queue, payload, uploadsDone>>

\* mutant: the flag of the semaphore stays set when nothing was acquired.
AcquireOutOfDateSet ==
  /\ pc[Drawer] = "acquire"
  /\ stale < MaxStale
  /\ stale' = stale + 1
  /\ signaled' = [signaled EXCEPT ![Acquired(Slot)] = TRUE]
  /\ Goto(Drawer, "recreate")
  /\ UNCHANGED <<frame, handed, reader, uploads, call, submitted, submitlck, driverVars>>

\* VK_ERROR_OUT_OF_DATE_KHR: the image index is -1 and the flag is cleared.
AcquireOutOfDate ==
  /\ pc[Drawer] = "acquire"
  /\ stale < MaxStale
  /\ stale' = stale + 1
  /\ \/ /\ signaled' = [signaled EXCEPT ![Acquired(Slot)] = FALSE]
        /\ UNCHANGED <<submitted, fence>>
     \/ /\ submitted' = [submitted EXCEPT ![AcquireFence] = FALSE]
        /\ fence' = [fence EXCEPT ![AcquireFence] = "reset"]
        /\ UNCHANGED signaled
  /\ Goto(Drawer, "recreate")
  /\ UNCHANGED <<frame, handed, reader, uploads, call, submitlck, queue, payload, uploadsDone>>

\* vk_queue_wait_idle, then the swapchain is removed and added again.
RecreateSwapchain ==
  /\ pc[Drawer] = "recreate"
  /\ queue[Graphics] = <<>>
  /\ Goto(Drawer, "acquire")
  /\ UNCHANGED <<appVars, call, signaled, submitted, submitlck, driverVars>>

-----------------------------------------------------------------------------
(* vk_queue_submit and vk_queue_present.                                    *)

\* mutant: the flag of a semaphore that is waited for is not cleared.
TakeSemaphoresKept(t, waits, signals, c) ==
  /\ signaled' = [s \in Sems |-> s \in signals \/ signaled[s]]
  /\ call' = [call EXCEPT ![t] = [c EXCEPT !.waits = {s \in waits : signaled[s]},
                                          !.signals = signals]]

\* mutant: every semaphore given is waited for.
TakeSemaphoresAll(t, waits, signals, c) ==
  /\ signaled' = [s \in Sems |-> s \in signals \/ (signaled[s] /\ s \notin waits)]
  /\ call' = [call EXCEPT ![t] = [c EXCEPT !.waits = waits, !.signals = signals]]

\* mutant: the flags are cleared before they are looked at.
TakeSemaphoresLate(t, waits, signals, c) ==
  /\ signaled' = [s \in Sems |-> s \in signals \/ (signaled[s] /\ s \notin waits)]
  /\ call' = [call EXCEPT ![t] = [c EXCEPT !.signals = signals]]

\* The two loops over the semaphores: a semaphore whose flag is not set is
\* not waited for, one whose flag is set is not signalled again.
TakeSemaphores(t, waits, signals, c) ==
  LET cleared == {s \in waits : signaled[s]}
      raised == {s \in signals : ~signaled[s] \/ s \in cleared}
  IN  /\ signaled' = [s \in Sems |-> IF s \in raised THEN TRUE
                                     ELSE IF s \in cleared THEN FALSE ELSE signaled[s]]
      /\ call' = [call EXCEPT ![t] = [c EXCEPT !.waits = cleared, !.signals = raised]]

SubmitFrame ==
  /\ pc[Drawer] = "submit"
  /\ TakeSemaphores(Drawer,
       {Acquired(Slot)} \cup (IF handed THEN {Uploaded} ELSE {}), {Rendered(Slot)},
       [NoCall EXCEPT !.fence = FrameFence(Slot), !.cmd = Slot, !.queue = Graphics,
                      !.needs = IF handed THEN uploads ELSE 0])
  /\ Goto(Drawer, "lock")
  /\ UNCHANGED <<appVars, submitted, submitlck, driverVars>>

PresentFrame ==
  /\ pc[Drawer] = "present"
  /\ TakeSemaphores(Drawer, {Rendered(Slot)}, {}, [NoCall EXCEPT !.queue = Graphics])
  /\ Goto(Drawer, "lock")
  /\ UNCHANGED <<appVars, submitted, submitlck, driverVars>>

SubmitUpload ==
  /\ pc[Loader] = "idle"
  /\ uploads < MaxUploads /\ ~handed /\ reader = None
  /\ uploads' = uploads + 1
  /\ TakeSemaphores(Loader, {}, {Uploaded},
       [NoCall EXCEPT !.fence = UploadFence, !.queue = Transfer])
  /\ Goto(Loader, "lock")
  /\ UNCHANGED <<frame, handed, reader, stale, submitted, submitlck, driverVars>>

LockQueue(t) ==
  /\ pc[t] = "lock"
  /\ submitlck = None
  /\ submitlck' = t
  /\ Goto(t, "enqueue")
  /\ UNCHANGED <<appVars, call, signaled, submitted, driverVars>>

\* vkQueueSubmit or vkQueuePresentKHR: the driver takes the batch.
Enqueue(t) ==
  /\ pc[t] = "enqueue"
  /\ LET c == call[t] IN
       /\ queue' = [queue EXCEPT ![c.queue] = Append(@, c)]
       /\ fence' = [f \in Fences |-> IF f = c.fence THEN "pending" ELSE fence[f]]
  /\ Goto(t, "unlock")
  /\ UNCHANGED <<appVars, call, signaled, submitted, submitlck, payload, uploadsDone>>

\* mutant: the flag of the fence is not set.
UnlockNoFlag(t) ==
  /\ pc[t] = "unlock"
  /\ LET c == call[t]
         presented == t = Drawer /\ c.cmd = None
     IN  /\ Goto(t, CASE t = Loader -> "handover"
                      [] presented -> "poll"
                      [] OTHER -> "present")
         /\ frame' = IF presented THEN frame + 1 ELSE frame
         /\ handed' = IF c.needs > 0 THEN FALSE ELSE handed
         /\ reader' = IF c.needs > 0 THEN Slot ELSE reader
  /\ submitlck' = None
  /\ call' = [call EXCEPT ![t] = NoCall]
  /\ UNCHANGED <<uploads, stale, signaled, submitted, driverVars>>

\* The flag of the fence is set before the lock is given back.
Unlock(t) ==
  /\ pc[t] = "unlock"
  /\ LET c == call[t]
         presented == t = Drawer /\ c.cmd = None
     IN  /\ submitted' = [f \in Fences |-> IF f = c.fence THEN TRUE ELSE submitted[f]]
         /\ Goto(t, CASE t = Loader -> "handover"
                      [] presented -> "poll"
                      [] OTHER -> "present")
         /\ frame' = IF presented THEN frame + 1 ELSE frame
         /\ handed' = IF c.needs > 0 THEN FALSE ELSE handed
         /\ reader' = IF c.needs > 0 THEN Slot ELSE reader
  /\ submitlck' = None
  /\ call' = [call EXCEPT ![t] = NoCall]
  /\ UNCHANGED <<uploads, stale, signaled, driverVars>>

\* The uploading job is done, and the drawing thread may use what it loaded.
HandOver ==
  /\ pc[Loader] = "handover"
  /\ handed' = TRUE
  /\ Goto(Loader, "wait")
  /\ UNCHANGED <<frame, reader, uploads, stale, call, signaled, submitted, submitlck, driverVars>>
-----------------------------------------------------------------------------
(* The driver: a queue executes its batches in the order of the submits.    *)

Execute(q) ==
  /\ queue[q] # <<>>
  /\ LET c == Head(queue[q]) IN
       /\ \A s \in c.waits : payload[s] = "signaled"
       /\ payload' = [s \in Sems |-> IF s \in c.signals THEN "signaled"
                                     ELSE IF s \in c.waits THEN "idle" ELSE payload[s]]
       /\ fence' = [f \in Fences |-> IF f = c.fence THEN "signaled" ELSE fence[f]]
       /\ uploadsDone' = IF q = Transfer THEN uploadsDone + 1 ELSE uploadsDone
  /\ queue' = [queue EXCEPT ![q] = Tail(@)]
  /\ UNCHANGED <<pc, appVars, call, signaled, submitted, submitlck>>

\* The presentation engine gives an image away.
ImageReady ==
  /\ \/ \E s \in Sems : /\ payload[s] = "engine"
                        /\ payload' = [payload EXCEPT ![s] = "signaled"]
                        /\ UNCHANGED fence
     \/ \E f \in Fences : /\ fence[f] = "engine"
                          /\ fence' = [fence EXCEPT ![f] = "signaled"]
                          /\ UNCHANGED payload
  /\ UNCHANGED <<pc, appVars, call, signaled, submitted, submitlck, queue, uploadsDone>>

CallQueue(t) == LockQueue(t) \/ Enqueue(t) \/ Unlock(t)
Upload == SubmitUpload \/ HandOver \/ WaitUpload
Draw ==
  \/ PollFence \/ WaitFrame \/ AcquireWithSemaphore \/ AcquireWithFence \/ WaitImage
  \/ AcquireOutOfDate \/ RecreateSwapchain \/ SubmitFrame \/ PresentFrame
Driver == ImageReady \/ \E q \in Queues : Execute(q)
-----------------------------------------------------------------------------
(* Properties.                                                              *)

SyncTypeOK ==
  /\ pc \in [Threads -> {"poll", "wait", "acquire", "waitimage", "recreate", "record",
                         "fill", "submit", "lock", "enqueue", "unlock", "present",
                         "idle", "handover", "closing", "closed"}]
  /\ frame \in 0 .. MaxFrames /\ uploads \in 0 .. MaxUploads
  /\ stale \in 0 .. MaxStale /\ uploadsDone \in 0 .. MaxUploads
  /\ handed \in BOOLEAN /\ reader \in 0 .. Slots - 1 \cup {None}
  /\ call \in [Threads -> Call]
  /\ signaled \in [Sems -> BOOLEAN] /\ submitted \in [Fences -> BOOLEAN]
  /\ submitlck \in Threads \cup {None}
  /\ \A q \in Queues : \A k \in DOMAIN queue[q] : queue[q][k] \in Call
  /\ payload \in [Sems -> {"idle", "engine", "signaled"}]
  /\ fence \in [Fences -> {"reset", "pending", "engine", "signaled"}]

Batches == UNION {{queue[q][k] : k \in DOMAIN queue[q]} : q \in Queues}
Calls == {call[t] : t \in {u \in Threads : pc[u] \in {"lock", "enqueue"}}}
Places == UNION {{q} \X DOMAIN queue[q] : q \in Queues}
Waits(s) == {x \in Places : s \in queue[x[1]][x[2]].waits}
Signals(s) == {x \in Places : s \in queue[x[1]][x[2]].signals}

\* The flag of a semaphore says what the driver was asked for
\* (vkgraphics.c:4889 .. 4907): outside the calls that are under way it is set
\* exactly if there is a signal, given or promised, more than there are waits.
FlagsFollowDriver ==
  \A s \in Sems : (\A c \in Calls : s \notin c.waits \cup c.signals) =>
    (IF signaled[s] THEN 1 ELSE 0) + Cardinality(Waits(s))
      = (IF payload[s] = "idle" THEN 0 ELSE 1) + Cardinality(Signals(s))

\* No batch waits for a signal nobody will give: the filter of the semaphores
\* drops what would hang the queue.
WaitsAreAnswered ==
  \A s \in Sems : Waits(s) # {} => payload[s] # "idle" \/ Signals(s) # {}

\* A semaphore that is signalled by the driver was not signalled already.
SignalsFindIdle ==
  [][\A q \in Queues : Len(queue'[q]) < Len(queue[q]) =>
       \A s \in Head(queue[q]).signals : payload[s] = "idle"]_syncVars

\* The driver never gets a fence that is still in use: the flag of a fence is
\* set by the submit and cleared only with a reset of the fence.
FenceIsFresh ==
  [][\A q \in Queues :
       Len(queue'[q]) > Len(queue[q]) =>
         LET b == queue'[q][Len(queue'[q])] IN
         b.fence # None => fence[b.fence] = "reset" /\ ~submitted[b.fence]]_syncVars

\* The commands of a slot are recorded again only when the driver is done with
\* the batch that used them (the fence of the slot was waited for).
PoolIsIdle ==
  pc[Drawer] \in {"record", "fill"} => \A b \in Batches : b.cmd # Slot

\* A frame that was told of an upload is executed after it, although the two
\* run on different queues and their calls on the queues interleave.
UploadBeforeUse ==
  [][\A q \in Queues :
       Len(queue'[q]) < Len(queue[q]) => Head(queue[q]).needs <= uploadsDone]_syncVars
=============================================================================
