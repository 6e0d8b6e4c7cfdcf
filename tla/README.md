# TCEngine: a verification project in TLA+

TCEngine is a C game engine.  Its core is a job system: jobs run on fibers, one
worker thread per processor switches between the fibers, and whatever takes
time (other jobs, timers, file requests, child processes, channels) is awaited
by suspending a fiber until an atomic counter, a *future*, gets to a value.
Memory comes from an allocator with a cache per processor, and on top of all this
a renderer drives Vulkan.  This directory holds TLA+ models of these parts, TLC configurations that check them on small
instances, and theorems proved with TLAPS for
every size.

Contents: [inventory](#inventory), [modules](#modules-and-code),
[runs](#runs), [bounds](#bounds), [fairness](#fairness),
[findings](#findings), [proofs](#proofs), [limits](#what-is-not-covered),
[plan](#plan).

## Inventory

| Part | Source | State | Operations | How it interacts |
|---|---|---|---|---|
| Lock-free queue | `src/src/datastructures/lfqueue.h` | ring of cells, each with data and a sequence number; tickets `write`, `read` | init, put, get | the job queue: any worker puts and gets |
| Lock-free stack | `src/src/datastructures/lflifo.h` | head word = pointer + 16-bit tag; `next` inside the elements | push, pop | ready list and free list of fibers |
| Scheduler, jobs | `src/src/fiber.c` 131-413, 542-592 | ready list, free list, job queue; per worker its loop variables and event loop; per fiber its job and saved context | worker_loop, yield, resume, fiber_loop, run_jobs, finish, pool destroy | resumes whoever a future, a channel or a callback has readied |
| Futures | `src/src/fiber.c` 416-539 | counter, a few slots `[fiber, inuse, value]` | new, incr, decr, wait, wait_and_free, free | registers the running fiber, pushes it to the ready list |
| Timers, OS requests | `src/src/fiber.c` 594-634, `src/src/os.c` | pool of request objects, handles in libuv's loop | start, callback, destroy | callback on the worker's own loop decrements a future |
| Channels | `src/src/fiber.c` 637-813 | ring, list of waiting producers and of waiting consumers, closed, lock | get, put, try_get, try_put, close, destroy | the scheduler releases the lock once the context of the waiting fiber is saved |
| Memory cache, buddy allocator | `src/src/datastructures/buddy.c` | per processor: a region with free lists and merge bits, lists of released blocks, a counter, a lock | realloc (alloc, resize, free), collect | the allocator of everything else; collects into the regions of other processors |
| Slab, temp, pool, region, arena | `src/include/private/memory.h`, `pool.c`, `region.c`, `arena.c` | free lists with tags; chains of buffers | create, alloc, free, clear | slab: timers; temp: strings and scratch memory of fibers |
| Resource table | `src/src/datastructures/resource.c` | chunks, entries with generations, free list | create, alloc, get, free | ids of files and streams |
| Registry | `src/src/module.c` | probing table of named slots | get, set, remove | modules find each other by name |
| File system, streams | `src/src/vfs.c` | memory streams with buffer and cursor; paths | open, close, read, write, copy; join and split | through `os.c` and minizip |
| GPU synchronisation | `src/src/graphics/vkgraphics.c` 2146-2181, 4834-5030 | submitted/signaled flags of fences and semaphores, one lock for all queues | acquire, submit, present, wait | driver |
| Virtual textures | `vkgraphics.c` 5320-5842 | pages, their memory, staging buffers by image index | add, fill, release, update, remove | freed when the frame loop comes round to the image |
| Devices and queues | `vkgraphics.c` 1258-1323, 1623-1996, 2183-2213 | the active GPU, its extensions, queues used and available | select, add and remove device and queue | driver |
| Renderer's resources | `vkgraphics.c` 783-948, 2215-3250, 3552-3705 | what was made for a resource and must be destroyed with it | add and remove of each type | driver, VMA |
| Passes and framebuffers | `vkgraphics.c` 349-597, 2105-2129, 4290-4464 | per thread two maps from checksums to objects | bind targets, end, exit | render targets of the application |
| Barriers | `vkgraphics.c` 1032-1161, 4570-4712 | none: states come from the application, layouts are the driver's | resource barrier | commands on several queues |
| Root signatures, descriptors | `vkgraphics.c` 3130-3550, 3735-3997; `graphics.c` 170-310 | layouts, pools, descriptor sets, what a command buffer has bound | combine, add, update, bind | shaders, driver |
| Pipelines | `vkgraphics.c` 3999-4180 | none | add graphics pipeline | driver |
| Everything else | see PROJECT.json | | | descriptor translation, parsing, math, windows, vendored code |

**What is hard.** The queue, the stack and the futures are lock-free: every
load, store and compare-and-swap interleaves with those of other threads.  A
fiber becomes visible to other workers (in a slot, on a list) *before* it has
switched away and its context is saved.  Wake-ups can be lost, be left over or
reach the wrong fiber.  Objects are freed by the one who was woken while the
one who wakes still uses them.  Blocks of memory are released and merged by
threads that do not own their region.  The renderer keeps its own account of what it
asked the driver for (flags, caches, pending lists, counters), and the driver acts
later: the account must fit whatever the driver has got to.  The shutdown hands each worker its
scheduling fiber by way of the list all workers take fibers from.

**What makes each part correct.**

* queue: linearizable FIFO; no two threads in one cell; full and empty only
  when that was so; every value out at most once.
* stack: an element is on the stack or owned by one thread; last in, first out;
  some thread always gets on.
* future: who waits is readied when the value is reached, never otherwise,
  never twice; the memory outlives its users.
* scheduler: a fiber is in one place; it is resumed only after its context is
  saved; each job runs once; everything finishes; the shutdown ends.
* channel: a bounded FIFO; no sleeper while there is something for it; close
  wakes everybody.
* allocator: each byte has one owner; buddies merge back completely.
* slab, table, registry: what is handed out has one holder, is found by its own
  id or name, and by no other.
* requests: a callback finds the object of its own request, everybody is answered.
* streams: bytes are neither lost nor changed by growth, borrowing or copying.
* synchronisation: the flags say what the driver was asked; nothing in use is freed
  or recorded again; every frame is drawn.
* caches, barriers, signatures, descriptors: the driver is told what the
  application asked for, whatever was asked before.
* resources: what was made is destroyed, once.

`PROJECT.json` lists under `hazards` where each of these can go wrong and
which property watches it.

## Modules and code

`A <- B` reads "module B implements the abstract module A", checked by TLC.

| Module | Models | Abstract module |
|---|---|---|
| `LfQueue` | `lfqueue.h`, one action per atomic access | `AbstractQueue` |
| `LfLifo` | `lflifo.h`, one action per atomic access | `AbstractStack` |
| `Future` | `fiber.c` 416-539, one action per access to the future | `AbstractFuture` |
| `Channel` | `fiber.c` 637-813, one action per critical section | `AbstractChannel` |
| `FiberSched` | `fiber.c` 131-413 and 542-634, one action per step another worker can observe | `AbstractJobs` |
| `Buddy` | `buddy.c` 38-155, pure operators on one region | |
| `BuddyCache` | `buddy.c` 157-306, on top of `Buddy` | `AbstractHeap` |
| `Requests` | `fiber.c` 594-634, `os.c` 98-296 and 429-437, one action per step of a callback | |
| `Slab`, `Temp` | `memory.h` 196-356, one action per call | |
| `Arena` | `arena.c`, one action per list or counter operation | |
| `Resources` | `resource.c`, one action per call | |
| `Registry` | `module.c` 31-127, one action per call | |
| `MemStream` | `vfs.c` 200-286 and 718-748, one action per call and per turn of the copy | `AbstractStream` |
| `Paths` | `vfs.c` 71-167, pure operators on sequences | |
| `GpuSync` | `vkgraphics.c` 2146-2181, 4834-5030, with the driver and the frame loop external | |
| `VirtualTexture`, `GpuFrames` | `vkgraphics.c` 5320-5842; the second is its composition with `GpuSync` | |
| `Device`, `GpuSelect` | `vkgraphics.c` 1258-1323, 1623-1996, 2183-2213 | |
| `GpuObjects` | `vkgraphics.c` 783-948, 1008-1038, 2428-3250, 3552-3705 | |
| `RenderTargetCache` | `vkgraphics.c` 349-597, 2105-2129, 2902-3039, 4290-4464 | |
| `Barriers` | `vkgraphics.c` 1032-1161, 4570-4712 | |
| `RootSignature` | `graphics.c` 170-310, `vkgraphics.c` 3735-3997 | |
| `DescriptorUpdates`, `DescriptorSets` | `vkgraphics.c` 3265-3550, 4272-4288 | |
| `GraphicsPipeline` | `vkgraphics.c` 3999-4180 | |
| `LfQueue_proofs`, `Channel_proofs`, `FiberSched_proofs`, `GpuFrames_proofs` | theorems about the module each is named after | |
| `Sync_proofs` | theorems about `LfLifo`, `Future` and `Requests` | |
| `Heap_proofs` | theorems about `BuddyCache` with `Buddy` | |
| `Stores_proofs` | theorems about `Slab`, `Temp`, `Arena`, `Resources` and `Registry` | |
| `GpuParts_proofs` | theorems about `Barriers`, `Device` and `GpuSelect` | |
| `MC...` | instances for TLC; `LfQueue`, `Channel` and, for the two findings, `Future` are checked as they stand | |

The models are layered.  `LfQueue` and `LfLifo` show that the queue and the
stack are atomic; `FiberSched` and `Channel` therefore use sequences for the
ready list, the free list and the job queue, and `Arena` one for its list of freed
slabs.  `GpuFrames` extends `GpuSync` with the pages of `VirtualTexture`: the recording of
a frame is `vk_cmd_updatevirtualtexture`.  `Future` shows what a future does
for one waiter; `FiberSched` uses its operations as single steps and gives each
asker a future of its own, which is how `run_jobs` and the requests use it.

* **LfQueue.**  `seq`, `data`, `write`, `read` are the fields of `lf_queue_t`;
  `pos`, `arg`, `pc` are the locals of the threads.  `CallPut`, `PutLoadPos`,
  `PutSeqMatches` / `PutFails` / `PutSeqAhead` (the three outcomes of `dif`),
  `PutClaim` / `PutClaimLost` (the compare-and-swap), `PutData`, `PutPublish`;
  the same for get.  `log` records the value of each ticket.
* **LfLifo.**  The head word is a record of pointer and tag, `next` is the link
  in each element.  The tag counts modulo `TagMod`; the ghost `Window` bounds how
  many operations may fall between a load and its compare-and-swap.
  `OwnerLink` is the write of `f->state.next` by the worker that owns a fiber.
* **Future.**  A waker runs `Decr`/`Incr`, then walks the slots (`ScanInUse`,
  `ScanValue`, `Take`, `Clear`, `Wake`); a waiter runs `Claim`, `SetValue`,
  `Arm`, `Probe`, and if the value is there already takes its registration back
  (`CheckInUse`, `Compare`, `TakeBack`, `Unhook`).  With all slots taken the
  waiter suspends unregistered (`NoSlot`), as line 489 does.
* **Channel.**  `Lock` takes the spin lock; `Get`, `Put`, `TryGet`, `TryPut`,
  `Close` are the critical sections; `Park` is the scheduler saving the context
  and releasing the lock; `Resume` takes a fiber from the ready list.
* **FiberSched.**  A worker pops (`Pop`, then `PopOwn`, `PopForeign` or `ResumeReady`),
  takes a job (`NextJob`), creates a fiber for it, switches to it,
  saves the context it came from (`Save`), looks whether the fiber is done
  (`Check`) and runs callbacks.  A fiber runs its job: `Begin`, `Submit` or `Request`,
  `Register`, `Sleep`, `Awake`, `Finish`, `Clear`, `End`.  `Main...` and
  `Stop...` are the main thread.  What jobs do is a constant set of programs,
  one of which runs.  `failed` holds the line of a failed assertion.
* **Buddy, BuddyCache.**  A region is its free blocks and its merge bits.
  `AllocBlock` and `FreeBlock` do all splits or merges of one call, with sets in
  place of the recursion.  A call on a processor runs `Malloc` / `Free` /
  `Realloc_Same` / `Realloc_Move`, then `Check` (collect first?), `Gc_Pop`,
  `Gc_Collect`, `Gc_Done`, then `Take_Listed`+`Pop` or `Take_Region` or
  `Take_Fails`, then `Release`.  `Load` and `Store` change a counter.  `Made(c)` is a region as `tc_buddy_new`
  leaves it, block by block.
* **Requests** (`ReqInit`, `ReqNext`, `ReqSpec`).  An object of a pool carries the handle, the future and the result.
  `Start` takes it, `Answer` is libuv, `Callback` and `Decrement` are the two
  accesses of `timer_cb` or `os_cb`, `Finish` is the waiter that takes the result
  and gives the object back, perhaps on another worker between the two.
* **Slab, Temp, Arena** (`SlabInit`, `TempInit`, `ArenaInit` and so on).  `next` of `Slab` is the one field of an object that is its
  id, a free link or the link to the next slab.  `Temp` has the capacity
  rounded to a power of two and two headers: the allocator's own (`BufferHeader`) in the first node,
  and that of a node (`NodeHeader`) in the others.  In `Arena`, `Pop` and
  `Add` are the two accesses of an allocation.
* **Resources, Registry** (`TableInit`, `RegistryInit`).  `entries`, `free_list` and `used` are the fields of the
  table; a generation is cut to the width of the id.  A hash of `Registry` is a
  pair of halves; `Probe` is the loop over the slots with its three ways out.
* **MemStream, Paths.**  `Writes` and `Open` decide whether a buffer grows or is
  borrowed; `CopyTurn` is one round of the loop of `fs_copy_stream`.  `Turn` of
  `Paths` is one character of `fs_path_join`.
* **GpuSync.**  A thread that draws (`PollFence`, `WaitFrame`, `Acquire...`,
  `SubmitFrame`, `PresentFrame`) and one that uploads (`SubmitUpload`, `HandOver`,
  `WaitUpload`).  A submit is `TakeSemaphores` (the flags, outside the lock), then
  `LockQueue`, `Enqueue`, `Unlock`.  `Execute` and `ImageReady` are the driver.
* **VirtualTexture.**  `ReleasePages`, `FillPages`, `AddVirtualTexture`,
  `RemoveVirtualTexture` are the calls; `uses` is what commands in flight read.
* **RenderTargetCache.**  `CallBind` is the call, `FindMap` the two critical
  sections, `BindRenderTargets` the rest; `PassKey` and `FramebufferKey` are the words
  folded into the two checksums, in order.
* **Barriers.**  `Barrier` and `Record` are the body of `vk_cmd_resourcebarrier`;
  `Transition`, `ReleaseLevels` and `AcquireLevels` are the ways the application calls it: it gives a
  texture only to a queue of another family.
* **RootSignature.**  `Combine` merges stages into a shader, `Collect` shaders into a
  signature, `Signature` makes layouts and pool sizes of it.
* **Descriptors.**  `UpdateParam` with `FlushWrites` and `FlushInfos` is the loop that
  fills two arrays; `BindDescSet` and `BindWithRootCbvs` are the binds.
* **Device, GpuSelect, GpuObjects, GraphicsPipeline.**  One action per call.  `Chosen` and `Seen` are one
  turn of the loops over GPUs and over extensions.
  `GpuObjects` has, for each type, `...Objects` (made), `...Kept` (remembered) and
  `...Removed` (destroyed, computed from what is remembered).

Definitions whose comment begins with `mutant:` are deliberate bugs.  They are
not part of any specification; each is put in the place of a definition to
see that a property notices.

## Runs

| Run | Question | Result |
|---|---|---|
| `queue` | Is the ring exclusive, honest and FIFO? | holds |
| `sync` | Is an element of the stack in two hands, or a thread stuck? Is a wake-up lost, early, left over? Is the future freed too early? Does every request get its own answer? | holds, for the stack while fewer operations than tag values fall into one load/swap window |
| `channel` | Bounded FIFO, no lost wake-up, one list at a time, close wakes all? | holds |
| `sched` | One worker, all programs of four jobs, and two workers, jobs that await requests: no assertion fails, each job runs once, all finish, shutdown? | holds |
| `stores` | Allocators, table, registry, streams, paths: does each thing have one owner, and is it found by its own name? | holds |
| `gpu` | Does what the renderer believes fit what the driver does, for frames, uploads, pages, caches, barriers, signatures, descriptors, queues, objects? | holds |
| `future_two_waiters` | Is every waiter rescheduled? | **violated** |
| `future_await_free` | Is the future used after `await` has freed it? | **violated** |
| `sched_context` | Is a context saved before its fiber is resumed, with two workers and jobs that await jobs? | **violated** |
| `heap_counter` | Is the counter of a cache the size of its lists? | **violated** |
| `gpu_cache` | Are the bound views those that were asked for, with two color targets? | **violated** |
| `gpu_pipeline` | Is the temporary render pass there when a pipeline is made with it? | **violated** |

`sync`, `sched`, `stores` and `gpu` each check several modules that do not
interact: the variable `kind` is chosen in the initial state and says which one a behaviour is
about.  Most of the modules are extended and have their own variables (`LfLifo`, `Future` and `Requests` in `sync`;
`BuddyCache`, `Slab`, `Temp`, `Arena`, `Resources`, `Registry` and `MemStream` in `stores`; `GpuFrames`, `Barriers`,
`Device` and `GpuSelect` in `gpu`), which is why
their definitions have names of their own: in behaviours about another module they rest in their
initial state, and their properties are checked as they stand, the same definitions the theorems are
about.  The others are instances, whose variables are `v1`, `v2`, ...; their properties begin with the kind.
The state space is the sum, not the product.  The violation runs start
from the same modules with one kind only (`HeapSpec`, `CacheSpec`, `PipelineSpec`, `AwaitingSpec`).

A property of a run is a conjunction of parts, each stated and commented in the module it is about.
`PROJECT.json` has a mutant for each part that says something of its own, and lists it under the
property the part belongs to.

| Run | Property | Its parts |
|---|---|---|
| `queue` | `CellOwnership`, `ReadsOwnTicket`, `RefusalsAreHonest`, `RefinesAbstractQueue` | the third is `FullIsHonest` and `EmptyIsHonest` |
| `channel` | `FibersAreSafe` | `TypeOK`, `OnePlace`, `SavedBeforeReady` |
| | `SleepersAreWoken` | `NoLostWakeup`, `ClosedWakesAll` |
| | `RefinesAbstractChannel` | |
| `sync` | `StackIsSound` | `StackTypeOK`, `EachElementOnce` |
| | `RefinesAbstractStack` | |
| | `WakeupsAreSound` | `TypeOK`, `NoLostWaiter`, `NoStaleWakeup`, `ReturnsAfterTarget` |
| | `RefinesAbstractFuture` | |
| | `ReturnsAreDue` | with two waiters on one slot `ReturnsAfterTarget`, `AwaitFreesLast` |
| | `AnswersAreTheirs` | `NoStrayCallback`, `ResultIsAnswer` |
| | `EveryoneGoesOn` | lock-freedom of the stack (`Busy` leads to `Progress`); who waited when the value was there returns; every request is answered |
| `sched` | `SchedulerIsSound` | `TypeOK`, `FiberInOnePlace`, `NoAssertFails`, with two workers |
| | `RefinesAbstractJobs` | the steps of the abstract job system, with two workers |
| | `OneWorkerServesAll` | with one worker all of these, and that the main thread's wait returns |
| | `EverythingEnds` | `AllJobsFinish`, `ShutsDown`, with two workers |
| `stores` | `HeapIsSound`, `RefinesAbstractHeap` | `TypeOK`, `EveryByteOnce`, `MergeBits`, `WholeAgain`, `CallInv`; the abstract heap |
| | `SlabsAreSound` | `OneHolder`, `DestroyFindsAll` |
| | `PiecesFit`, `EverySlabOnce` | pieces of `Temp` lie in their node and share no byte; slabs of `Arena` |
| | `IdsLeadToTheirs`, `ModulesHaveOneSlot` | `StaleIsRefused`, `LiveIsFound`; `SmallHashHasOneSlot`, `NoRoomMeansFull` |
| | `RefinesAbstractStream`, `PathsResolve` | the abstract stream, `CopiedIsExact`; `JoinResolves`, `PartsMakePath` |
| `gpu` | `SemaphoresFollow` | `SyncTypeOK`, `FlagsFollowDriver`, `WaitsAreAnswered` |
| | `DriverRulesKept`, `FramesAreDrawn` | `FenceIsFresh`, `SignalsFindIdle`, `UploadBeforeUse`; every frame is drawn |
| | `InFlightIsLive`, `MemoryHasOneOwner` | `InUseIsLive`, `PoolIsIdle`, `LowestResident`; `VTTypeOK`, `OneOwner`, `ListsFit` |
| | `CacheIsSound` | `BoundAsAsked`, `PassFitsFramebuffer`, `MadeIsKept` |
| | `BarriersMatch` | `OldIsCurrent`, `HalvesMatch`, `AccessesAreCovered` |
| | `SignaturesAreSound` | `EachStageSees`, `NamesLeadThere`, `ParentsAreKept`, `PoolsHoldASet`, `NothingLeft` |
| | `DescriptorsArrive` | `UpdatesArrive`, `NoSetIsMissing`, `RootBuffersAsAsked` |
| | `QueuesAreCounted`, `BestGpu` | `NoneTooMany`, `SharesOnlyThen`; the best GPU, `ExtensionsAreAll` |
| | `ObjectsAreOwned`, `LayoutIsDescribed` | `OwnedExactly`, `ViewsFitUsage`, `DescriptorsAreFilled`; `LayoutIsDescribed` |

What they say, beyond the comment above each definition:

* `CellOwnership` and `ReadsOwnTicket` are what makes
  the unsynchronised `data` of a cell safe (with `TicketWindow`, which is proved); `RefusalsAreHonest`
  is an action property on the step that refuses; `RefinesAbstractQueue` is
  linearizability, with the compare-and-swap of put and the read of the data in
  get as the points at which the abstract queue changes.
* `StackIsSound` (`EachElementOnce`) fails without the tag (ABA; the mutant `Bump_Never`).  With `Window = TagMod`
  TLC also finds the corruption with the tag: the assumption is needed.
* `NoLostWaiter`: a suspended fiber is on the ready list, in the hands of a waker or in an
  armed slot, and once the value is there, a waker is still to come past that slot.  `NoStaleWakeup`: nobody who runs is on the ready list.
  `RefinesAbstractFuture` is safety: who returns was let go by the value.  That whoever waited when the
  value was there does return is in `EveryoneGoesOn`.
* `NoLostWakeup`: while a fiber sleeps, every entry (for a consumer) or free place (for a
  producer) has a fiber of that side on its way to it.  `SavedBeforeReady`, `OnePlace` are about the
  intrusive links and contexts of fibers.  `RefinesAbstractChannel` has the
  promise that blocked calls are served; its safety part is proved, the promise is liveness.
* `RefinesAbstractJobs` contains that every job starts once and `await` returns only
  after all its jobs; `OneWorkerServesAll` has that the wait of the main thread ends.  `ShutsDown` is the end of
  `fiber_pool_destroy`.
* `EveryByteOnce`: blocks free, listed, being collected and in use cover a region
  exactly.  `MergeBits` is the invariant the merge relies on.  `WholeAgain`: with
  nothing in use or listed, a region is as it was when created.

* `NoStrayCallback`, `ResultIsAnswer`: an object that is handed out again gets no callback
  and no result of its former request.
* `OneHolder`, `DestroyFindsAll`: the tags of `Slab` always tell free objects, used ones and links
  of slabs apart.  `StaleIsRefused` covers generations past the width of the id, `LiveIsFound`
  those within.  `SmallHashHasOneSlot` is what holds of the cut hash (finding below).
* `CopiedIsExact`, `RefinesAbstractStream`: over growth, borrowed buffers and short reads.
  `JoinResolves` compares the character loop with a resolution of whole segments.
* `FlagsFollowDriver` relates the flag of a semaphore to the batches in the driver;
  `WaitsAreAnswered`, `SignalsFindIdle`, `FenceIsFresh` are rules of Vulkan that follow if
  the flags are right.  `UploadBeforeUse` orders two queues.  `FramesAreDrawn` is liveness.
* `InUseIsLive`, `OneOwner`, `ListsFit`: memory of pages against the frames that still use it.
* `BoundAsAsked`, `PassFitsFramebuffer`, `MadeIsKept`: the caches of passes and framebuffers.
  In `gpu` calls have one color target, in `gpu_cache` two.  Level and layer are given together, alone or not at all;
  `BoundAsAsked` says which views are bound only where both places are found (`PlacesAreFound`), and the
  right pass always.  A level or layer alone on a sliced target and a depth layer alone, or a depth level without its layer, bind
  other views than were asked for.
* `OldIsCurrent`, `HalvesMatch`, `AccessesAreCovered`: a barrier names the layout
  the driver has, both halves of a transfer agree, each access is in a stage that performs it.
* `EachStageSees`, `NamesLeadThere`, `PoolsHoldASet`, `ParentsAreKept`, `NothingLeft`:
  after two merges by different rules, what a stage declared is where it reads it.
* `UpdatesArrive`, `NoSetIsMissing`, `RootBuffersAsAsked`: what was written and bound in the
  end is what was asked for.  Three kinds of calls are among the inputs for which this is not so, and each property says
  which it leaves out: an array that starts behind its first element and is flushed in its middle (`OffsetsFit`), a set that is written again
  after it was bound (`LastOfIndex`), and what is bound after root constant buffers of another layout (`astray`).
* `NoneTooMany`, `SharesOnlyThen`, `BestGpu`, `ExtensionsAreAll`: over every order of adding
  and removing queues, and every order in which the driver lists GPUs and extensions.  The first two are about how many
  queues live and where they come from.  Which queue the driver is asked for is in the model (`handle`) and in no
  property: line 2204 asks by the index of the family, which need not be a queue that was created, and two
  queues of a family get the same one (see [findings](#findings)).
* `OwnedExactly`, `ViewsFitUsage`, `DescriptorsAreFilled`: what removal destroys is what lives, but for the views of slices of
  a render target, which leak; and a new set holds live defaults, but for textures to write of a dimension that has none (`NoDefault`).
* `LayoutIsDescribed`: the running pointer over bindings describes a layout whose attributes are
  grouped.

## Bounds

| Run | Instance | Why it is enough |
|---|---|---|
| `queue` | 3 threads, 2 values, N = 2, 3 puts; symmetry on threads and values (all properties are safety) | the ring wraps, producers wait for consumers of the lap before, two threads race for each swap while a third is stalled inside a cell; the theorems cover every other size |
| `sync`: stack | 2 threads, 2 elements, 4 tags | ABA needs a stalled pop and a second thread that pops both elements and pushes one |
| `sync`: future | 1 waiter twice, 2 decrements, 1 increment, 2 slots | the value passes the target and leaves it again; the second wait meets the wakers of the first |
| `sync`: shared future | 2 waiters, one of them owner, 2 decrements, 1 slot | waiting without a slot, the owner freeing while the other waits |
| `sync`: requests | 2 users, 2 objects, 2 workers, 3 requests, 2 repeats | an object is given back and handed out by the other worker while the first is in a callback |
| `channel` | ring of 3 (two places), 3 getters, 4 putters, one of each non-blocking, 1 close, one call each | ring full and empty, wrap-around, two sleepers on a side, newcomers that overtake a woken fiber |
| `sched` | 1 worker, 4 fibers, 4 jobs, queue of 4, every program; 2 workers, 3 fibers, 3 jobs, queue of 3 | chains, fans and trees of jobs that await each other and requests; every fiber can be on either worker while another is readied and the pool is shut down |
| `sched_context` | 2 workers, 3 fibers, 2 jobs | one job awaiting another |
| `stores`: heap, `heap_counter` | 2 processors, regions of 16 bytes in 4 levels, sizes 1, 3, 4, 8; counters modulo 32; 5 (3) calls | splits and merges over two levels, sizes that are no power of two, reallocation in place and to another level, blocks released on and collected from the other processor, counters below zero, regions that run out |
| `stores`: slab | 2 objects in the first slab, 3 in others, 3 slabs | the first slab differs, the last object of each links |
| `stores`: temp | a buffer of 8 with a header of 3, chunks of 8, sizes 1 to 7, 5 requests | pieces that fill a node to its last byte, that need one of their own, and that no chunk holds |
| `stores`: arena | 2 threads, room for 2 slabs and a rest, 7 calls | the end of the arena, the list in use by both |
| `stores`: table | 3 entries, 4 generations in an id, counters up to 6 | every index is used again past the width of the id |
| `stores`: modules | 5 names, 4 slots, 7 calls | a large hash, a collision, a hash of 0, a full table |
| `stores`: streams | 2 streams, up to 4 bytes, growth and copy by 2 | growth within a write, copies of several turns, the last one short |
| `stores`: paths | all names of up to 5 of 4 characters, of 6 of 3 and of 7 of 2, in 3 directories | dots and separators in every arrangement |
| `gpu`: frames | 2 slots, 3 frames, 2 uploads, 1 swapchain out of date, 2 pages in 2 levels | a slot comes round, an upload while the other is read, re-creation in between |
| `gpu`: targets, `gpu_cache` | 2 threads, 2 names, 2 targets, 3 calls | the first of a key, a second use of it, another in between |
| `gpu`: barriers | 2 levels, 4 states, 3 families | a level apart from the others, then both; each pair of families |
| `gpu`: signatures | shaders of 1 or 2 stages, up to 2 shaders | shared, moved, aliased and clashing names, two orders of stages |
| `gpu`: binds, writes | 2 signatures, 2 sets, 3 binds; arrays of 2 writes and 7 words, up to 3 parameters that start at element 0, 1 or 2 | a change of layout and back, a set that is written again between two binds; both arrays fill up first, in the middle of a parameter |
| `gpu`: queues, GPUs | 4 families, two of them with the same flags, 4 queues, 2 nodes; up to 3 GPUs of 18 kinds | exhausted families, a count that is overwritten; every order of three |
| `gpu`: objects | 2 resources; buffers of every use, textures and targets with and without levels, slices, tile and stencil, shaders of four sets of stages, descriptor sets of dimensions with and without defaults | each type next to each other |
| `gpu`: pipelines, `gpu_pipeline` | up to 3 attributes in 2 bindings, 3 sets of stages | bindings that repeat and skip |
| `future_two_waiters`, `future_await_free` | 2 (1) waiters, 1 decrement, 4 slots | as in the code; one decrement is enough |

`MaxPuts`, `MaxWaits` and `MaxCalls` are guards of the actions that start a call,
not constraints, so temporal properties are not cut off.  Where a run stops
when all calls are made (or all jobs done) its configuration has
`CHECK_DEADLOCK FALSE`; `queue` checks for deadlock.

## Fairness

* `LfLifo`, `Channel`, `Future`: each thread or fiber that can take a step takes
  one (`WF` of its steps).  The operating system runs every worker, and a fiber
  that is running is not preempted by other fibers.  Starting a push, a pop, a wait or a
  channel call is never forced; that each `tc_fut_decr` comes is (jobs finish, timers fire).  Strong fairness, which would say that a certain thread wins its
  compare-and-swap or its spin lock, is not assumed: lock-freedom says that *some*
  thread succeeds, and the promises of the channel are for the side, not for
  one caller.
* `FiberSched`: each worker goes on (`worker_loop` never blocks: it polls its
  event loop without waiting), and a request completes, which is up to libuv and
  the kernel.
* `Requests`: libuv calls back for every active handle, a callback goes on, a fiber that was woken
  runs.
* `GpuFrames`: the two threads go on with what they are doing, the driver executes batches whose waits are
  answered and gives images back.  That the application draws on is its loop.
* `LfQueue`, `BuddyCache`, `sched_context`, the other modules of `stores` and `gpu`: safety only.  A put may retry for ever while others
  succeed, so there is nothing to promise to one thread of the queue.

## Findings

1. **`future_two_waiters`** (`fiber.c:458`).  `counter_wakeup` loads the fiber of a
   slot, then the slot may be given up and claimed by another fiber with the
   same target, then its compare-and-swap succeeds; it readies the fiber it loaded.
   The one in the slot sleeps for ever.
2. **`future_await_free`** (`fiber.c:537`).  The fiber that is woken frees the
   future; the `tc_fut_decr` that woke it goes on to read the rest of the slots.
3. **`sched_context`** (`fiber.c:350`).  A job that awaits a job is visible to the
   other worker between `counter_add_to_waiting` and the switch; the assertion that it has
   a context can fail.  Requests are safe: their callback runs on the event loop of
   the worker the fiber was running on, after that worker has saved it.
4. **`heap_counter`** (`buddy.c:269`).  The counter of a cache is not the size of its
   lists: release adds the block, reuse subtracts the request, and collecting a
   foreign block subtracts from the owner's counter.  Only the moment of collection
   depends on it, and the properties of `stores` hold at any moment.
5. **`gpu_cache`** (`vkgraphics.c:4346`).  The hashes of pass and framebuffer are
   overwritten for each color target, so only the last one counts: binding (a, b) and then
   (b, b) gives the framebuffer of (a, b).
6. **`gpu_pipeline`** (`vkgraphics.c:4177`).  The loop over the stages ends after the creation of the pipeline
   and the destruction of the temporary pass: it makes five pipelines, the last four with
   a pass that is gone, and keeps the last.

Also seen while modelling, without a run of their own: a worker that reads
`f->job` (lines 153, 162) after the fiber was resumed elsewhere may take it for
finished and put it on the free list twice (same cause as 3); if all fibers of the
pool wait, the assertion in line 159 fails; with several workers there is a
lockstep schedule in which two workers for ever pop each other's scheduling fiber, so the
full promise is checked for one worker (`OneWorkerServesAll`) and
`EverythingEnds` for two.  `worker_init` calls `fiber_create`, which is declared
with one parameter, with three (line 185); the model takes it for `fiber_init`.

In the parts added since, as far as no document promises otherwise: a module whose hash needs more than
32 bits takes a new slot with every call (`module.c:39`), and the table returns the address of a
local variable (`module.c:43,52`); a slab of the resource table beyond the first chunk is indexed out of place
(`resource.c:68,73`), and a stale id is freed without a look at its generation (lines 97-106); a request larger than a chunk gets a node of a chunk (`memory.h:228`);
opening an archive fails when minizip succeeds (`vfs.c:388`), and a join that goes back a directory appends to what was not
ended with NUL (`vfs.c:136`); the index of a queue is handed out
twice after a queue was removed out of order (`vkgraphics.c:2212`), its handle is asked for by the
index of the family (line 2204), so that the assertion of line 2205 depends on a queue the device may not have been created with,
and of two families with equal flags the later one overwrites what is available (line 1937); a level or a layer alone binds
another view of a sliced target (line 557), and a depth level counts only if a layer is given, as lines 577-582 test
`deptharrayslice` three times; a write with `arrayoffset` that is flushed in mid-array is short by the offset or
counts below zero (line 3285); a set that was recorded is rewritten by the next bind with root constant buffers, which also neither binds
empty sets nor notes the layout (lines 3503-3550); the default for a texture to write of dimension cube, cube array or multisampled is read
through NULL (line 3191; lines 781 and 926 make none); the views of slices of a render target leak (line 3026); a failed
acquisition leaves its fence marked (line 4849); a machine without a usable GPU is looked up before
the assertion (line 1694); an alias of a resource is entered under the index of the last new one when the two are
not adjacent (line 3817); the readback buffer of a virtual texture omits two words of counts (5398-5411);
an entry of the thread tables is read after the lock is released (line 411).

## Proofs

Each module `X_proofs` extends the module `X` that TLC checks, so a theorem is about the same
definitions, for every value of the constants that meets the assumptions in its second column.

| Module | For every | Theorem | Says |
|---|---|---|---|
| `LfQueue_proofs` | set of threads and of values, ring of `N >= 2` cells (`NAssumption`), value `None` that is not put (`NoneAssumption`) | `TypeCorrect` | `[]TypeOK` |
| | | `CellsExclusive` | `[]CellOwnership`: no two threads between claim and publication of one cell |
| | | `TicketsInWindow` | `[]TicketWindow`: `read <= write <= read + N` |
| | | `ReadersGetTheirTicket` | `[]ReadsOwnTicket`: a get copies what was put under its ticket |
| | | `RefusedOnlyThen` | `RefusalsAreHonest`: a call is refused only when the ring is full (empty) or somebody is inside the cell |
| | | `ImplementsQueue` | `RefinesAbstractQueue`: the ring implements `AbstractQueue` |
| `Sync_proofs`: `LfLifo` | set of threads, finite set of elements, number of tags and window below it (`TagAssumption`, `ElemAssumption`) | `StackKeepsElements` | `[]StackIsSound`: each element is on the stack once or in the hands of one thread |
| | | `StackIsLastInFirstOut` | `RefinesAbstractStack`: the stack implements `AbstractStack` |
| `Sync_proofs`: `Future` | set of wakers, number of slots and target (`SlotsAssumption`, `ProcessAssumption`), and: | | |
| | any waiters | `WaitsReturnAfterTarget` | `[](TypeOK /\ ReturnsAfterTarget)` |
| | any waiters | `FutureRefinesAbstract` | `RefinesAbstractFuture`: the future implements the safety part of `AbstractFuture` |
| | any waiters, no increments | `AwaitFreesAfterAll` | `[]AwaitFreesLast`: `await` frees the future after the last decrement |
| | one waiter, at least one slot | `OneWaiterIsWoken` | `[]WakeupsAreSound`: no wake-up is lost, left over or early |
| `Sync_proofs`: `Requests` | set of users, of objects, of workers and of answers; number of repeats of a timer and of requests (`RequestsAssumption`) | `AnswersGoHome` | `[]AnswersAreTheirs`: a callback finds the object of its own request, each user takes its own answer, no callback comes after the object was given back |
| `Channel_proofs` | set of getters, putters and closers, size of the ring, number of calls | `ChannelFibersAreSafe` | `[]FibersAreSafe`: on one list, once, and readied after its context is saved |
| | | `ChannelSleepersAreWoken` | `[]SleepersAreWoken`: nobody sleeps while there is something for its side, or after the close |
| | | `ChannelIsBuffer` | `Abs!Safety`, the safety part of `RefinesAbstractChannel` |
| `FiberSched_proofs` | finite set of jobs, list of fibers without repetition, set of programs in which a job is handed in once, by one that is there before it (`NodeAssumption`, `ProgramAssumption`), length of the queue; one worker, or any number of them where only the main thread awaits jobs (`LocalAwaits`) | `FibersHaveOnePlace` | `[](TypeOK /\ FiberInOnePlace)`, and no assertion fails but the one for an exhausted pool |
| | as many fibers as jobs (`EnoughFibers`) | `SchedulerAssertionsHold` | `[]SchedulerIsSound`: no assertion fails at all |
| | | `SchedulerRefinesJobs` | `RefinesAbstractJobs`: the scheduler implements the safety part of `AbstractJobs` |
| `Heap_proofs` | smallest size and number of levels of a region, header, blocks the allocator takes for itself, set of processors, sizes, limit, width of the counters, number of calls (`BuddyAssumption`, `CacheAssumption`, `RoomAssumption`, `NoneAssumption`) | `TheHeapIsSound` | `[]HeapIsSound`: every byte in one block that one has, the bits of the pairs right, all merges back, no piece in two calls |
| | | `TheHeapIsAbstract` | `RefinesAbstractHeap`: caches and regions implement `AbstractHeap` |
| `Stores_proofs`: `Slab` | size of the first and the other slabs, number of slabs and of calls (`SlabAssumption`) | `SlabObjectsHaveOneHolder` | `[]SlabsAreSound`: an object has one holder, destruction reaches every slab |
| `Stores_proofs`: `Temp` | size of the buffer, of both headers and of a chunk, set of sizes (`TempAssumption`) | `PiecesDoNotOverlap` | `[]PiecesFit`: pieces a node can hold lie in their node, behind its header, and share no byte |
| `Stores_proofs`: `Arena` | size of the arena and of a slab, set of threads (`ArenaAssumption`) | `SlabsOfAnArenaAreApart` | `[]EverySlabOnce`: each slab handed out is in the list once or with one thread, and failed calls lose none |
| `Stores_proofs`: `Resources` | size of a chunk, width of a generation, bound of the counters (`ResourcesAssumption`) | `TableIdsLeadToTheirs` | `[]IdsLeadToTheirs`: a freed id finds nothing, one in use its own slot |
| `Stores_proofs`: `Registry` | size of the table, set of names, hash function (`RegistryAssumption`) | `ModulesAreFound` | `[]ModulesHaveOneSlot`: a module whose hash fits 32 bits has one slot from its first call on; "no more room" means a full table |
| `Stores_proofs`: `MemStream` | set of streams and of bytes, size by which a buffer grows, size of a copy's buffer, length of the calls (`MemStreamAssumption`) | `StreamsAreAbstract` | `RefinesAbstractStream`: streams implement `AbstractStream`, and a copy that says it succeeded put the bytes of its source into the destination |
| `GpuFrames_proofs` | number of frames in flight, of frames, uploads and swapchains out of date, texture: pages, levels, memory (`SyncAssumption`, `TextureAssumption`) | `FlagsFollowTheDriver` | `[]SemaphoresFollow`: the flag of a semaphore is what the driver was asked for; every wait is answered |
| | | `TheDriverMayHaveThem` | `DriverRulesKept`: only reset fences are submitted, only idle semaphores signalled, an upload is executed before the frame that uses it |
| | | `WhatIsInFlightLives` | `[]InFlightIsLive`: nothing that commands in flight use is freed, and they are not recorded again |
| | | `OwnersAreUnique` | `[]MemoryHasOneOwner`: memory and staging buffers have one owner each; what waits for an image fits its arrays |
| | | `InvariantHolds` | `[]IInv`, the inductive invariant behind these |
| `GpuParts_proofs`: `Barriers` | set of levels, of states and of changes of a buffer, family of each type of queue (`BarrierAssumption`) | `BarriersAreSound` | `BarriersMatch`: the stages perform the accesses of both sides, the old layout is the driver's, an acquire says what its release said |
| `GpuParts_proofs`: `Device` | families with at least one queue each, set of types and of nodes, limits (`DeviceAssumption`) | `QueuesAreWithinTheirFamily` | `QueuesAreCounted`: of a family that does not draw, is not the first and has flags of its own, no more queues live than were created; queues share the family that draws only when as many live as are counted of each other one |
| `GpuParts_proofs`: `GpuSelect` | set of machines, of wanted extensions and of those for ray tracing (`GpuAssumption`) | `TheBestGpuIsUsed` | `[]BestGpu`: no GPU that can draw is above the active one, and all wanted extensions it has are on |

The restriction of `OneWaiterIsWoken` is what the code supports: with two waiters the property is false
(finding 1), and with none of the slots left a waiter is not registered at all (line 489).  The one of
`AwaitFreesAfterAll` is how `tc_fut_wait_and_free` is used: `run_jobs` counts down only.
`RequestsAssumption`, `SyncAssumption`, `MemStreamAssumption` and the like only keep `Nobody`, `None` and `NoStream` apart from everything else and numbers in `Nat`, but for these.
`TempAssumption`: chunks are powers of two and no request is larger than the largest power of two the
code's loop reaches; a request larger than a chunk is *not* excluded (`PiecesFit` leaves it out, see
[findings](#findings)).  `TextureAssumption`: the texture has a level that always stays, and there is more memory than
the pages and the lists of all images can hold, so that an allocation succeeds.
`RoomAssumption`: each region has room for the blocks that `tc_buddy_new` takes from it, which it uses without
a look at what it got; `CacheAssumption`: a request fits a region, and a counter is wider than a region is long.
`RegistryAssumption`: the table has a slot.  `DeviceAssumption`: the driver lists a family, and each one has a
queue.  Families may have equal flags; `usedqueues` and `availablequeues` are kept by the flags, and the
property says of such families only what is counted for the last of them.
`LocalAwaits` is what finding 3 leaves: on several workers a job that awaits another one can be resumed before its
context is saved.  `EnoughFibers` is the limit of the pool (`fiber.c:158`); it is needed for the last assertion only.

Few of the safety invariants are inductive.  Each module has an invariant `IInv` that is (in `Heap_proofs` `Inv`; in `Sync_proofs`,
`Stores_proofs` and `GpuParts_proofs` one for each module they are about: `StackInv`, `ReachInv`, `CountInv`, `OneWaiterInv`, `RequestsInv`, `SlabsInv`, `PiecesInv`,
`ArenaInv`, `IdsInv`, `ModulesInv`, `StreamInv`; in `GpuParts_proofs` `BarrierInv`, `DeviceInv`, `SelectInv`); TLC has checked each of them on an instance of the size in
[bounds](#bounds) as well.  The lemmas have one step for each action; `Invariance` (`NextInv` in `Heap_proofs`) closes the
induction and each theorem above follows from `IInv`.  What they add:

**LfQueue.**  What each cell and thread knows:

* `CellInv(i)`: cell `i` is in one of four phases of some ticket `p` that falls on
  it: free for `p`, claimed by the producer of `p`, published with the logged value, or
  being drained by the consumer of `p`; each phase ties the sequence number to `write`, `read`
  and the thread inside.
* `WriterInv(t)`, `ReaderInv(t)`: a thread before its swap has a ticket no newer than the
  counter, and if the counter has not moved, the cell is still as it read it;
  after the swap the cell is its own.

The steps that change little are one lemma
(`LocalStep`); the two claims need that the *next* cell is free or published
(`NextCellFree`, `NextCellPublished`: from the window and the sequence number)
and owned by nobody (`NextPutCellUnowned`, `NextGetCellUnowned`); the four steps inside
a cell (`PutDataInv`, `PutPublishInv`, `GetDataInv`, `GetReleaseInv`) need that the
other cells and threads are not disturbed (`OtherCell`, `OtherThread`).  Below
these are facts about remainders: `Division`, `DivisionUnique`, and that tickets one
apart are in different cells (`CellSucc`) and tickets `N` apart in the same one (`CellLap`).
A refused call has a ticket whose cell serves an older
ticket, which is a lap behind (`CellApart`); each of the four phases of the cell then gives
what `RefusedPut` and `RefusedGet` claim.  For the refinement the abstract queue is the part of
`log` from `read` on and a get has its value from the claim on; `PutClaimRefines` and
`GetClaimRefines` are the steps that put and get, `GetDataRefines` and `QuietStep` the ones that
change nothing of it.
The sequence numbers of the model are natural numbers: 2^64 tickets are not reached.

**LfLifo.**  `Linked(s)` and `Covers(s)`: the links spell out *some* sequence `s` without repetition, and
what is not on it is held by exactly one thread.  That sequence is the one `Chain` computes by walking
the links (induction on its length, by the least number at which the two would differ).
`ThreadInv(t)` is the argument against ABA: between its load and its
compare-and-swap a thread has `head.tag = snap.tag + age` modulo the number of tags, `age` being the
swaps of others since.  As `age` stays below the number of tags, the swap succeeds only with `age = 0`, and then
the link that was read (or written) is still the right one.

**Future.**  `ReachInv` says of each program counter that whoever is let go, or about to be, was seen by
somebody who had read the target.  `CountInv`: without increments the value is the target plus the decrements still to come,
so it is reached once and for all.  With one waiter `PlaceInv` says where it is (in the slot it claimed, in
the hands of one waker, or ready) and `MetInv` that in an armed slot, with the target reached, a waker is
still to come past that slot; `NoLostWaiter` alone does not say which slot and which waker.

**Requests.**  `PairsInv`: users and objects in use belong together one by one, and handles and callbacks
are those of such objects, told from those of an earlier use by the number of the request.  `PhaseOf` says how far
each object is: its handle waits (`Unanswered`), a callback is before its first step (`Begun`) or
between the two (`Stored`), or all is over (`Over`); each phase ties the handle, the counter of the future,
the repeats left and the result together.  That the last phase begins only with the last decrement is
why the object can be given back by any worker.

**Channel.**  `LockInv`: the lock is held by whoever is inside or is parking.  `ListInv`: the fibers on the two lists and
the ready list are exactly the suspended ones, each once.  With these `SavedBeforeReady`
and `SleepersAreWoken` are inductive, the latter because every critical section wakes as many fibers as it makes
room or entries for.  For the refinement, ring and indices are read as the
sequence `Items`; what happens to it at each end are lemmas about remainders.

**FiberSched.**  `PlaceInv` says of each fiber where it is and what it can be doing there: free and without
a job (`FreeInv`), ready, woken and saved (`ReadyInv`), held by exactly one worker, with what each program counter
of that worker tells of it (`HeldInv`), or registered with the future of its own job (`WaiterInv`, `NowhereInv`).
`WakerInv` is where `LocalAwaits` comes in: before the context of a fiber is saved, the request it waits
for can only be answered by the worker that holds it, which is busy.  `JobInv` says the same of jobs: in the queue, taken, or
carried by one fiber, handed in and not started before; and `LeftInv` that a future counts the unfinished jobs
of its asker.  When the main thread returns, its future is 0, so by the age of jobs (the least one that had not finished would have
an asker that has) all jobs have finished and the pool is `Quiet`, which is the invariant of the
shutdown: no step of it can fail, although `free` then has fibers twice.  Only with that is the assertion of line 304 safe.
That the pool is not exhausted is counting: `EndInv`, the fibers that are over with a job but not free yet are at most as many
as the jobs that have finished, and all others carry different jobs.

**Heap.**  The proof is in three layers.  *Numbers:* sizes halve from level to level (`SizesHalve`), so a byte has a position
on each level, `Pos(x, l) = x \div SizeAt(l)`, and the one above it is half of it (`PosAbove`); the cells of a level
are the sets of bytes with one position, so two of them are apart or one lies in the other (`CellsNest`), and
`BlockIndex` tells the pairs of all levels apart (`IndexOfOne`).  *One region:* `RegionIsSound`: free blocks are aligned and apart, no two are
buddies, the bits are exactly those of pairs with a free half, and the header's first byte is in none.  Splitting and merging are
each a *way* of blocks along one byte: `AllocIsSound` says that a cut takes exactly the bytes of the block out of the free ones, and
`FreeBlockIsSound` that a release puts them back; the hard part is the level where merging stops: the bit says
that a half of the pair is free, the half being released is not, so the buddy is (`BitOfPair`, `NoPieceInside`), and the toggled bits are
again those of the new free blocks (`TogglePairs`).  That it stops below level 0 is where the header is needed.  Regions with
equal free bytes are equal (`CoverTells`), which gives `WholeAgain`.  *All processors:* `UsedIsSound`: the free bytes of a region and the
blocks in lists, being collected, and in the program's hands make up what the new region had.  Each step
takes a block out of the region, gives one back, or moves one from hand to hand (`BlockTaken`, `BlockGiven`, `BlockMoves`),
whoever does it and for whichever region; `CallInv` says what each call has in its hands, so that no two release one
piece.  The counters are unconstrained: what is collected when does not matter for safety (finding 4).  A block keeps its level when it changes its size because
`Realloc_Same` requires it; this, and that a level's blocks hold a request (`LevelHolds`), is what the refinement rests on.

**Slab.**  The slabs are `1 .. n`, linked in that order and by the last objects only (`SlabsLinked`);
behind `end` nothing was handed out (`EndInv`); the free list never meets an object twice, stated without recursion: no two
free objects lead to the same one and none to the first (`FreeInv`); users hold objects with the tag of an id (`UsersInv`).
That destruction reaches all slabs is an induction from the last slab downwards over the recursive function `Reach`.

**Temp.**  The pieces of a node lie behind its header, one behind the other, and `place` is behind those of
the newest node.  The rest is the size of nodes: the power of two that is chosen holds the request *and* the header.

**Arena.**  If `m` slabs were asked for, those in the list and those held are together the first `min(m, Cap / Size)`,
each once: `reached` counts the calls that fail too, so that a full arena stays full.

**Resources.**  `TableInv`: the free part of the list names exactly the indices no live id has; a live id has the
generation of its index (cut to the width), a freed id an earlier one.  A freed id is
refused although the id is cut because the comparison is with the uncut counter.

**Registry.**  A name with a small hash is in the first slot of its search that was free when it was stored, and the slots before
that one are never free again (`Placed`); two slots of one name would both be the first.  That the search meets every slot is arithmetic of
remainders (`Probe`), so a search that ends without a place has seen a full table.

**MemStream.**  `StreamInv`: the cursor is never past the size, nor the size past the buffer, so a read stays in what was written and
growing keeps it (`SameView`); a write is `Overwritten` of the abstract stream whether the buffer grew or not (`WriteOverwrites`), and one without the right
to write is a write of nothing (`Put`).  For the copy the bytes taken so far are the ones before the destination's cursor (`KeptIn`), and either
something is left or the destination can be written, so that "succeeded" after the last turn means that a turn wrote.

**GpuFrames.**  `SyncInv` says of every place a thread can be in what it has asked the driver for and what the driver can have got to:
which fences are with the driver (`FenceInv`), that in the queue for graphics a frame is followed at once by its presentation
(`QueueInv`), and for each kind of semaphore where its signal is: not asked for, on its way, there, or taken by a
batch that waits (`RenderedInv`, `AcquiredInv`, `UploadedInv`).  The last one is shared by both threads: an upload that was handed over is in
exactly one of the hands of the thread that draws, a batch that was not executed yet, or done, and a thread between taking the flag and
submitting is one of the cases.  `PagesInv` says who has which memory and buffer.  Commands in flight are safe by the order in which
the lists of images come round: `Turn(i)` is the number of frames until the list of image `i` is freed, and `UsesInv` says that what
the commands of image `i` use is in no list that comes round before `i` does.  Since the fence of a slot is waited for before its
list is freed, nothing in use is.  The steps are first reduced to what they do to fences, queues and pages
(`DrawerMoves`, `FrameTaken`, `FrameEnqueued`, ...), and each part of the invariant is proved for each of these.

**Barriers.**  `BarrierInv`: the driver has each level in the layout of the state it is believed to be in, and what a release said of a
level is what the barrier would say of that state now (`MoveInv`), so the acquire repeats it.  `StagesPerform` goes through the accesses and the
types of queue; that the stages are those of the union of all accesses of a call is why it is stated for any set of them.

**Device.**  `DeviceInv`: the counter for the flags of a family is the number of queues in use that are of a family with these flags, and it
is no larger than what was created if the flags are its own, it does not draw and it is not the first.  A queue that goes shifts the ones behind
it (`HeldOfRemoveAt`: a bijection between the places before and after).  The search takes a family only if the
counter is below what is available (`FoundHasFree`), but for a family that draws and the first one, which are given out again and again; what is
available is what the last family with the flags was created with (`AvailableIs`, over `GreatestNumber`).

**GpuSelect.**  The two loops are recursive functions over a list of any length, which exist by a least counterexample (`BestExists`).
The comparison of two GPUs is no order, but what is left of it, `AtLeast`, is one that the best so far always satisfies: a better GPU is at least
what the best was at least (`BetterIsAtLeast`).

## What is not covered

* *Only model-checked:* all liveness (`EveryoneGoesOn`, `EverythingEnds`, `FramesAreDrawn`, the end of `OneWorkerServesAll` and the promise of
  `RefinesAbstractChannel`), since liveness under fairness and `ENABLED` are out of the prover's reach.  For induction over data
  `PathsResolve` (characters), `CacheIsSound` (sums over maps), `SignaturesAreSound` and
  `DescriptorsArrive` (merges and flushes of lists).  `ReturnsAreDue`, for two waiters on one slot: for any number of waiters the two
  theorems on `Future` say the same.  Of the renderer also
  `ObjectsAreOwned` and `LayoutIsDescribed`, which have no concurrency and whose inputs the runs enumerate.
* *Memory order.*  All models are sequentially consistent.  The code uses
  acquire/release operations around the sequence numbers and slots.
* *Buddy allocator:* contents of blocks (so also what `memcpy` in line 301 copies
  too much when a block shrinks, which no caller does), the order of free
  lists, `tc_buddy_free`, requests larger than a region, and threads that are not
  pinned to a processor.
* *Timers and requests:* the closing of handles (`uv_close` is never called), times.
* *Allocators:* `slab_clear`, `pool.c` and `region.c` have no caller; requests to `Temp` larger than a
  chunk.  The region and the arena are used by no other part.
* *Resource table:* a second chunk.  *Registry:* the functions of modules.
* *File system:* archives are never opened (above), so `zstream_...` is unreachable; file
  streams pass their calls on to the requests.  Paths whose join reads before the start of an
  empty output (`vfs.c:165`) are left out of the inputs.
* *Processes and shaders:* `load.c` puts names and command lines together and compares time stamps
  of whole seconds; a process itself is a request.
* *Renderer:* linked GPUs (except the node of a queue), modes of presentation, copies of subresources
  (4729-4832), indirect commands and queries (5043-5180), draws, debug marks and capability tables,
  which are translation into single driver calls; contents of buffers and images.  Checksums are taken to be free
  of collisions; the thread tables have
  at most three threads, before they move.
* *Reflection:* how the resources of a stage are read from SPIR-V.
* *Channels:* destruction; the program destroys a channel when nobody uses it.
* *Scheduler:* names, thread start-up, scratch memory of fibers; the links
  inside lists at `fiber_pool_destroy`.
* *Not modelled at all:* the parts that `PROJECT.json` marks `not_modelled`, with the
  reason for each.

## Plan

Done, in this order: `LfQueue` with its proofs, `LfLifo`, `Future`, `Channel`,
`FiberSched`, `Buddy`/`BuddyCache`; then `Slab`, `Resources`, `Registry`, `Temp`, `Arena`,
`Requests`, `MemStream`, `Paths`; then `GpuSync`, `VirtualTexture` and `GpuFrames`, and the other parts of the
renderer.  A module for archives was planned and dropped, since they cannot be opened.

The theorems followed the same order: queue, stack, futures, channels, scheduler; table, slabs; then requests, the other
allocators and the registry, the composition of frames and pages, barriers, queues and the choice of the GPU, the heap, and last the streams.

What is left to model is translation without state.  What is left to prove are the parts of the renderer and
the paths named under [limits](#what-is-not-covered).
