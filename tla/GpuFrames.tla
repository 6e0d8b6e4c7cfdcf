----------------------------- MODULE GpuFrames ------------------------------
(* A virtual texture that is updated in every frame: the frame loop of       *)
(* GpuSync, in which the recording of a frame is vk_cmd_updatevirtualtexture *)
(* for the image of the slot.  The vkQueueBindSparse calls take effect in    *)
(* the order of the submits of their queue.                                  *)
EXTENDS GpuSync

CONSTANTS Pages, MipLevel, TiledLevels, Memory, Buffers

VARIABLES alloc, alive, opaque, pendingMem, pendingBuf, live, uses, removed

VT == INSTANCE VirtualTexture WITH Images <- 0 .. Slots - 1, Null <- None

\* Every level outside the tail has a page (vkgraphics.c:5679), and the external
\* allocators do not run out: a page has memory once, and once more for each
\* image in which it was released; the tail has one.
ASSUME TextureAssumption ==
  /\ VT!VTAssumption
  /\ \E p \in Pages : MipLevel[p] = TiledLevels - 1
  /\ IsFiniteSet(Memory) /\ Cardinality(Memory) > (Slots + 1) * Cardinality(Pages)
  /\ IsFiniteSet(Buffers) /\ Cardinality(Buffers) >= Slots * Cardinality(Pages)

texVars == <<alloc, alive, opaque, pendingMem, pendingBuf, live, uses, removed>>
vars == <<syncVars, texVars>>

\* The commands that create the texture are those of slot 0 and are waited
\* for like the first frame.
FramesInit ==
  /\ Init
  /\ VT!Init

CreateTexture ==
  /\ pc[Drawer] = "poll" /\ frame = 0
  /\ queue[Graphics] = <<>> /\ ~submitted[FrameFence(0)]
  /\ VT!Resident(alloc) = {} /\ ~removed
  /\ VT!AddVirtualTexture
  /\ queue' = [queue EXCEPT ![Graphics] =
       <<[NoCall EXCEPT !.fence = FrameFence(0), !.cmd = 0, !.queue = Graphics]>>]
  /\ fence' = [fence EXCEPT ![FrameFence(0)] = "pending"]
  /\ submitted' = [submitted EXCEPT ![FrameFence(0)] = TRUE]
  /\ UNCHANGED <<pc, appVars, call, signaled, submitlck, payload, uploadsDone>>

\* vk_cmd_updatevirtualtexture: the tables were written by the application.
Release ==
  /\ pc[Drawer] = "record"
  /\ \E remove \in SUBSET Pages : VT!ReleasePages(Slot, remove)
  /\ Goto(Drawer, "fill")
  /\ UNCHANGED <<appVars, call, signaled, submitted, submitlck, driverVars>>

Fill ==
  /\ pc[Drawer] = "fill"
  /\ \E visible \in SUBSET Pages : VT!FillPages(Slot, visible)
  /\ Goto(Drawer, "submit")
  /\ UNCHANGED <<appVars, call, signaled, submitted, submitlck, driverVars>>

\* The texture is removed when the queue is idle.
RemoveTexture ==
  /\ pc[Drawer] = "poll" /\ frame = MaxFrames /\ ~removed
  /\ queue[Graphics] = <<>>
  /\ VT!RemoveVirtualTexture
  /\ UNCHANGED syncVars

Still == UNCHANGED texVars
Ready == VT!Resident(alloc) # {} \/ removed

FramesNext ==
  \/ CreateTexture
  \/ Release
  \/ Fill
  \/ RemoveTexture
  \/ PollFence /\ Ready /\ Still
  \/ WaitFrame /\ Still
  \/ AcquireWithSemaphore /\ Still
  \/ AcquireWithFence /\ Still
  \/ WaitImage /\ Still
  \/ AcquireOutOfDate /\ Still
  \/ RecreateSwapchain /\ Still
  \/ SubmitFrame /\ Still
  \/ PresentFrame /\ Still
  \/ SubmitUpload /\ Still
  \/ HandOver /\ Still
  \/ WaitUpload /\ Still
  \/ \E t \in Threads : LockQueue(t) /\ Still
  \/ \E t \in Threads : Enqueue(t) /\ Still
  \/ \E t \in Threads : Unlock(t) /\ Still
  \/ \E q \in Queues : Execute(q) /\ Still
  \/ ImageReady /\ Still

\* Each thread goes on when it can, and the driver and the engine work.
Drawing == CreateTexture \/ Release \/ Fill \/ RemoveTexture \/ (Draw /\ Still)
Loading == Upload /\ Still
Calling(t) == CallQueue(t) /\ Still
Executing(q) == Execute(q) /\ Still
Arriving == ImageReady /\ Still
Fairness ==
  /\ WF_vars(Drawing) /\ WF_vars(Loading) /\ WF_vars(Arriving)
  /\ \A t \in Threads : WF_vars(Calling(t))
  /\ \A q \in Queues : WF_vars(Executing(q))
Spec == FramesInit /\ [][FramesNext]_vars /\ Fairness
-----------------------------------------------------------------------------
(* Properties.                                                               *)

\* What commands use that were recorded and not yet executed was not freed
\* (vkgraphics.c:5475 .. 5478 frees when the image index comes round).
InUseIsLive ==
  /\ \A b \in Batches : b.cmd # None => uses[b.cmd] \subseteq live
  /\ pc[Drawer] \in {"submit"} \/ call[Drawer].cmd # None => uses[Slot] \subseteq live

\* Once the texture is there, its lowest level always has memory: a lookup
\* that misses falls back on it.
LowestResident == VT!Resident(alloc) # {} => {p \in Pages : MipLevel[p] = TiledLevels - 1} \subseteq VT!Resident(alloc)

\* GpuSync: the flags of semaphores say what the driver was asked for, and no
\* batch waits for a signal that nobody gives.
SemaphoresFollow == SyncTypeOK /\ FlagsFollowDriver /\ WaitsAreAnswered

\* GpuSync: fences and semaphores are given to the driver when it may have them,
\* and a frame is executed after the uploads it needs.
DriverRulesKept == FenceIsFresh /\ SignalsFindIdle /\ UploadBeforeUse

\* What commands in flight use was not freed, they are not recorded again, and
\* the lowest level has memory.
InFlightIsLive == InUseIsLive /\ PoolIsIdle /\ LowestResident

\* VirtualTexture: memory and staging buffers have one owner, and the lists of
\* an image have room for them.
MemoryHasOneOwner == VT!VTTypeOK /\ VT!OneOwner /\ VT!ListsFit

\* Every frame is drawn and executed, with both threads and the driver at
\* work, and in the end all memory is given back.
AllFramesDrawn == <>[](/\ frame = MaxFrames /\ live = {}
                       /\ \A q \in Queues : queue[q] = <<>>)
=============================================================================
