--------------------------- MODULE GpuFrames_proofs ---------------------------
(***************************************************************************)
(* Theorems about GpuFrames, for every number of frames in flight, of      *)
(* frames and of uploads, and every texture.                               *)
(***************************************************************************)
EXTENDS GpuFrames, FiniteSetTheorems, TLAPS

InCall(t) == pc[t] \in {"lock", "enqueue", "unlock"}
FrameCall == InCall(Drawer) /\ call[Drawer].cmd # None
PresentCall == InCall(Drawer) /\ call[Drawer].cmd = None
\* The frame is with the driver, its presentation is not.
Open ==
  \/ (FrameCall /\ pc[Drawer] = "unlock")
  \/ pc[Drawer] = "present"
  \/ (PresentCall /\ pc[Drawer] # "unlock")
\* The commands of this frame wait for the last upload.
Taking == FrameCall /\ call[Drawer].needs > 0

FrameBatch(c, i) ==
  /\ c \in Call
  /\ c.fence = FrameFence(i) /\ c.cmd = i /\ c.queue = Graphics
  /\ c.signals \subseteq {Rendered(i)} /\ c.waits \subseteq {Acquired(i), Uploaded}
  /\ c.needs > 0 <=> Uploaded \in c.waits
PresentBatch(i) ==
  [waits |-> {Rendered(i)}, signals |-> {}, fence |-> None, cmd |-> None, queue |-> Graphics, needs |-> 0]
UploadBatch ==
  [waits |-> {}, signals |-> {Uploaded}, fence |-> UploadFence, cmd |-> None, queue |-> Transfer, needs |-> 0]

G == queue[Graphics]
T == queue[Transfer]

\* Types, with what each thread can be doing.
DrawerLabels == {"poll", "wait", "acquire", "waitimage", "recreate", "record",
                 "fill", "submit", "lock", "enqueue", "unlock", "present"}
LoaderLabels == {"idle", "lock", "enqueue", "unlock", "handover", "wait"}
TypeInv ==
  /\ pc \in [Threads -> DrawerLabels \cup LoaderLabels]
  /\ pc[Drawer] \in DrawerLabels /\ pc[Loader] \in LoaderLabels
  /\ frame \in 0 .. MaxFrames /\ uploads \in 0 .. MaxUploads
  /\ stale \in 0 .. MaxStale /\ uploadsDone \in 0 .. MaxUploads
  /\ handed \in BOOLEAN /\ reader \in 0 .. Slots - 1 \cup {None}
  /\ call \in [Threads -> Call]
  /\ signaled \in [Sems -> BOOLEAN] /\ submitted \in [Fences -> BOOLEAN]
  /\ queue \in [Queues -> Seq(Call)]
  /\ payload \in [Sems -> {"idle", "engine", "signaled"}]
  /\ fence \in [Fences -> {"reset", "pending", "engine", "signaled"}]
  /\ pc[Drawer] # "poll" => frame < MaxFrames

LockInv ==
  /\ submitlck \in Threads \cup {None}
  /\ \A t \in Threads : pc[t] \in {"enqueue", "unlock"} <=> submitlck = t

CallInv ==
  /\ \A t \in Threads : ~InCall(t) => call[t] = NoCall
  /\ FrameCall => FrameBatch(call[Drawer], Slot) /\ call[Drawer].signals = {Rendered(Slot)}
  /\ PresentCall => call[Drawer] = PresentBatch(Slot)
  /\ InCall(Loader) => call[Loader] = UploadBatch

\* A fence is with the driver from the call on, marked when the call returns.
InUse(f) == fence[f] \in {"pending", "signaled"}
FenceInv ==
  /\ \A i \in 0 .. Slots - 1 :
       \/ fence[FrameFence(i)] = "reset" /\ ~submitted[FrameFence(i)]
       \/ InUse(FrameFence(i)) /\ (submitted[FrameFence(i)] \/ (i = Slot /\ FrameCall /\ pc[Drawer] = "unlock"))
  /\ pc[Drawer] = "wait" => submitted[FrameFence(Slot)]
  /\ pc[Drawer] \in {"acquire", "waitimage", "recreate", "record", "fill", "submit"}
        \/ (FrameCall /\ pc[Drawer] # "unlock") => fence[FrameFence(Slot)] = "reset"
  /\ FrameCall /\ pc[Drawer] = "unlock" => InUse(FrameFence(Slot)) /\ ~submitted[FrameFence(Slot)]
  /\ submitted[UploadFence] <=> pc[Loader] \in {"handover", "wait"}
  /\ IF pc[Loader] \in {"idle", "lock", "enqueue"} THEN fence[UploadFence] = "reset" ELSE InUse(UploadFence)
  /\ submitted[AcquireFence] <=> pc[Drawer] = "waitimage"
  /\ fence[AcquireFence] \in (IF pc[Drawer] = "waitimage" THEN {"engine", "signaled"} ELSE {"reset"})

\* The queue of the graphics: a frame is followed by its presentation.
GraphicsEntry(k) ==
  \/ \E i \in 0 .. Slots - 1 :
       /\ G[k] = PresentBatch(i)
       /\ IF k = 1 THEN payload[Rendered(i)] = "signaled" ELSE G[k - 1].signals = {Rendered(i)}
  \/ \E i \in 0 .. Slots - 1 :
       /\ FrameBatch(G[k], i) /\ fence[FrameFence(i)] = "pending"
       /\ \A j \in 1 .. Len(G) : G[j].cmd = i => j = k
       /\ G[k].signals # {} =>
            IF k = Len(G) THEN Open /\ i = Slot ELSE G[k + 1] = PresentBatch(i)
QueueInv ==
  /\ \A k \in 1 .. Len(G) : GraphicsEntry(k)
  /\ \A k \in 1 .. Len(T) : T[k] = UploadBatch
  /\ Len(T) <= 1
  /\ T # <<>> => fence[UploadFence] = "pending"

RenderedAt(i) ==
  /\ payload[Rendered(i)] # "engine"
  /\ payload[Rendered(i)] = "signaled" =>
       IF G = <<>> THEN Open /\ i = Slot ELSE G[1] = PresentBatch(i)
  /\ Open /\ i = Slot =>
       IF G = <<>> THEN payload[Rendered(i)] = "signaled" ELSE G[Len(G)].signals = {Rendered(i)}
  /\ signaled[Rendered(i)] <=> i = Slot /\ (FrameCall \/ pc[Drawer] = "present")
RenderedInv == \A i \in 0 .. Slots - 1 : RenderedAt(i)

Waited(s) == \E k \in 1 .. Len(G) : s \in G[k].waits
AcquiredAt(i) ==
  /\ signaled[Acquired(i)] => i = Slot /\ pc[Drawer] \in {"record", "fill", "submit"}
  /\ payload[Acquired(i)] # "idle" <=>
       \/ signaled[Acquired(i)]
       \/ (pc[Drawer] \in {"lock", "enqueue"} /\ Acquired(i) \in call[Drawer].waits)
       \/ Waited(Acquired(i))
AcquiredInv == \A i \in 0 .. Slots - 1 : AcquiredAt(i)

\* The upload is on its way to the frame that uses it, or in it.
UploadedInv ==
  /\ pc[Loader] \in {"lock", "enqueue", "unlock", "handover"} => ~handed /\ reader = None
  /\ handed => reader = None
  /\ Taking => handed /\ call[Drawer].needs = uploads
  /\ handed \/ pc[Loader] # "idle" => uploads > 0
  /\ signaled[Uploaded] <=> pc[Loader] \in {"lock", "enqueue", "unlock", "handover"} \/ (handed /\ ~Taking)
  /\ \A k \in 1 .. Len(G) : Uploaded \in G[k].waits =>
       /\ G[k].needs = uploads
       /\ reader = G[k].cmd \/ (Taking /\ pc[Drawer] = "unlock" /\ G[k].cmd = Slot)
  /\ payload[Uploaded] # "engine"
  /\ ~(payload[Uploaded] = "signaled" /\ T # <<>>)
  /\ payload[Uploaded] = "signaled" \/ T # <<>> <=>
       \/ pc[Loader] \in {"unlock", "handover"}
       \/ (handed /\ ~(Taking /\ pc[Drawer] = "unlock"))
       \/ Waited(Uploaded)
  /\ uploads = uploadsDone + Len(T) + (IF pc[Loader] \in {"lock", "enqueue"} THEN 1 ELSE 0)

SyncInv ==
  TypeInv /\ LockInv /\ CallInv /\ FenceInv /\ QueueInv /\ RenderedInv /\ AcquiredInv /\ UploadedInv

\* What the pages have, and the lists.
PagesInv ==
  /\ VT!VTTypeOK
  /\ VT!OneOwner
  /\ opaque \cap VT!Pending = {}
  /\ \A i \in DOMAIN pendingMem : /\ pendingMem[i] \subseteq Memory /\ pendingBuf[i] \subseteq Buffers
                                  /\ 0 .. i \subseteq DOMAIN pendingMem
  /\ VT!ListsFit
  /\ opaque # {} => \E m \in Memory : opaque = {m}
StageInv ==
  /\ VT!Resident(alloc) = {} /\ ~removed =>
       live = {} /\ opaque = {} /\ DOMAIN pendingMem = {} /\ frame = 0 /\ pc[Drawer] = "poll"
  /\ removed => live = {} /\ pc[Drawer] = "poll" /\ frame = MaxFrames /\ G = <<>>
  /\ LowestResident
  /\ pc[Drawer] = "fill" => Slot \in DOMAIN pendingBuf /\ pendingBuf[Slot] = {}

\* How many frames until the lists of an image are freed.
Released == pc[Drawer] \in {"fill", "submit", "lock", "enqueue", "unlock", "present"}
Turn(i) == IF i > Slot \/ (i = Slot /\ ~Released) THEN i - Slot ELSE i + Slots - Slot
UsesInv ==
  ~removed =>
    \A i \in 0 .. Slots - 1 : ~(pc[Drawer] = "fill" /\ i = Slot) =>
      /\ uses[i] \subseteq live
      /\ \A j \in DOMAIN pendingMem : Turn(j) < Turn(i) =>
           uses[i] \cap (pendingMem[j] \cup pendingBuf[j]) = {}

IInv == SyncInv /\ PagesInv /\ StageInv /\ UsesInv
-----------------------------------------------------------------------------
(* Names, records and sequences.                                           *)

LEMMA ThreadNames ==
  Drawer # Loader /\ Threads = {Drawer, Loader} /\ None \notin Threads
BY SyncAssumption DEF Drawer, Loader, Threads

LEMMA QueueNames ==
  Graphics # Transfer /\ Queues = {Graphics, Transfer} /\ None \notin Queues
BY SyncAssumption DEF Graphics, Transfer, Queues

LEMMA SemNames ==
  /\ Uploaded \in Sems
  /\ \A s \in Sems : s = Uploaded \/ \E i \in 0 .. Slots - 1 : s = Acquired(i) \/ s = Rendered(i)
  /\ \A i \in 0 .. Slots - 1 :
       /\ Acquired(i) \in Sems /\ Rendered(i) \in Sems
       /\ Acquired(i) # Uploaded /\ Rendered(i) # Uploaded
       /\ \A j \in 0 .. Slots - 1 :
            /\ Acquired(i) # Rendered(j)
            /\ Acquired(i) = Acquired(j) => i = j
            /\ Rendered(i) = Rendered(j) => i = j
BY DEF Sems, Acquired, Rendered, Uploaded

LEMMA FenceNames ==
  /\ UploadFence \in Fences /\ AcquireFence \in Fences /\ UploadFence # AcquireFence
  /\ None \notin Fences
  /\ \A f \in Fences : f \in {UploadFence, AcquireFence} \/ \E i \in 0 .. Slots - 1 : f = FrameFence(i)
  /\ \A i \in 0 .. Slots - 1 :
       /\ FrameFence(i) \in Fences /\ FrameFence(i) \notin {UploadFence, AcquireFence}
       /\ \A j \in 0 .. Slots - 1 : FrameFence(i) = FrameFence(j) => i = j
BY SyncAssumption DEF Fences, FrameFence, UploadFence, AcquireFence

LEMMA SlotType ==
  ASSUME frame \in Nat
  PROVE  Slot \in 0 .. Slots - 1 /\ Slot # None
BY SyncAssumption DEF Slot

LEMMA Numbers == Slots \in Nat /\ Slots > 0 /\ MaxFrames \in Nat /\ MaxUploads \in Nat /\ MaxStale \in Nat /\ None \notin Nat
BY SyncAssumption

LEMMA NextSlot ==
  ASSUME NEW f \in Nat
  PROVE  (f + 1) % Slots = IF (f % Slots) + 1 = Slots THEN 0 ELSE (f % Slots) + 1
<1>1. Slots \in Nat \ {0}
  BY SyncAssumption
<1> DEFINE q == f \div Slots
           r == f % Slots
<1>2. q \in Nat /\ r \in 0 .. Slots - 1 /\ f = Slots * q + r
  BY <1>1
<1>3. CASE r + 1 = Slots
  <2>1. f + 1 = Slots * (q + 1)
    BY <1>1, <1>2, <1>3
  <2>2. (Slots * (q + 1)) % Slots = 0
    BY <1>1, <1>2
  <2> QED
    BY <1>3, <2>1, <2>2
<1>4. CASE r + 1 # Slots
  <2>1. f + 1 = Slots * q + (r + 1) /\ r + 1 \in 0 .. Slots - 1
    BY <1>1, <1>2, <1>4
  <2>2. (Slots * q + (r + 1)) % Slots = r + 1
    BY <1>1, <1>2, <2>1
  <2> QED
    BY <1>4, <2>1, <2>2
<1> QED
  BY <1>3, <1>4

\* The batches.
LEMMA NoCallFields ==
  /\ NoCall \in Call /\ NoCall.waits = {} /\ NoCall.signals = {} /\ NoCall.fence = None
  /\ NoCall.cmd = None /\ NoCall.queue = None /\ NoCall.needs = 0
BY SyncAssumption DEF NoCall, Call

LEMMA UploadBatchFields ==
  /\ UploadBatch \in Call /\ UploadBatch.waits = {} /\ UploadBatch.signals = {Uploaded}
  /\ UploadBatch.fence = UploadFence /\ UploadBatch.cmd = None /\ UploadBatch.queue = Transfer
  /\ UploadBatch.needs = 0
<1>2. {} \in SUBSET Sems /\ {Uploaded} \in SUBSET Sems /\ UploadFence \in Fences \cup {None}
        /\ None \in 0 .. Slots - 1 \cup {None} /\ Transfer \in Queues \cup {None} /\ 0 \in 0 .. MaxUploads
  BY SyncAssumption, SemNames, FenceNames, QueueNames
<1> QED
  BY <1>2 DEF Call, UploadBatch, NoCall

LEMMA PresentBatchFields ==
  ASSUME NEW i \in 0 .. Slots - 1
  PROVE  /\ PresentBatch(i) \in Call /\ PresentBatch(i).waits = {Rendered(i)} /\ PresentBatch(i).signals = {}
         /\ PresentBatch(i).fence = None /\ PresentBatch(i).cmd = None
         /\ PresentBatch(i).queue = Graphics /\ PresentBatch(i).needs = 0
<1>2. {} \in SUBSET Sems /\ {Rendered(i)} \in SUBSET Sems /\ None \in Fences \cup {None}
        /\ None \in 0 .. Slots - 1 \cup {None} /\ Graphics \in Queues \cup {None} /\ 0 \in 0 .. MaxUploads
  BY SyncAssumption, SemNames, FenceNames, QueueNames
<1> QED
  BY <1>2 DEF Call, PresentBatch, NoCall

LEMMA CallFields ==
  ASSUME NEW c \in Call
  PROVE  /\ c.waits \subseteq Sems /\ c.signals \subseteq Sems /\ c.fence \in Fences \cup {None}
         /\ c.cmd \in 0 .. Slots - 1 \cup {None} /\ c.queue \in Queues \cup {None}
         /\ c.needs \in 0 .. MaxUploads
BY DEF Call

LEMMA SameBatch ==
  ASSUME NEW c \in Call, NEW d \in Call, c.waits = d.waits, c.signals = d.signals,
         c.fence = d.fence, c.cmd = d.cmd, c.queue = d.queue, c.needs = d.needs
  PROVE  c = d
BY DEF Call

LEMMA EmptyFacts ==
  ASSUME NEW s \in Seq(Call)
  PROVE  s = <<>> <=> Len(s) = 0
OBVIOUS

LEMMA AppendFacts ==
  ASSUME NEW s \in Seq(Call), NEW c \in Call
  PROVE  /\ Append(s, c) \in Seq(Call) /\ Len(Append(s, c)) = Len(s) + 1 /\ Len(s) \in Nat
         /\ Append(s, c) # <<>> /\ Append(s, c)[Len(s) + 1] = c
         /\ \A k \in 1 .. Len(s) : Append(s, c)[k] = s[k] /\ s[k] \in Call
         /\ s = <<>> <=> Len(s) = 0
<1>1. Append(s, c) \in Seq(Call) /\ Len(Append(s, c)) = Len(s) + 1 /\ Len(s) \in Nat
  OBVIOUS
<1>2. Append(s, c)[Len(s) + 1] = c /\ \A k \in 1 .. Len(s) : Append(s, c)[k] = s[k] /\ s[k] \in Call
  OBVIOUS
<1>3. s = <<>> <=> Len(s) = 0
  OBVIOUS
<1>4. Append(s, c) # <<>>
  BY <1>1
<1> QED
  BY <1>1, <1>2, <1>3, <1>4

LEMMA TailFacts ==
  ASSUME NEW s \in Seq(Call), s # <<>>
  PROVE  /\ Tail(s) \in Seq(Call) /\ Len(s) \in Nat /\ Len(s) > 0 /\ Len(Tail(s)) = Len(s) - 1
         /\ Head(s) = s[1] /\ Head(s) \in Call
         /\ \A k \in 1 .. Len(s) - 1 : Tail(s)[k] = s[k + 1]
         /\ \A k \in 1 .. Len(s) : s[k] \in Call
         /\ Tail(s) = <<>> <=> Len(s) = 1
<1>1. Tail(s) \in Seq(Call) /\ Len(s) \in Nat /\ Len(s) > 0 /\ Len(Tail(s)) = Len(s) - 1
  OBVIOUS
<1>2. Head(s) = s[1] /\ Head(s) \in Call
  OBVIOUS
<1>3. /\ \A k \in 1 .. Len(s) - 1 : Tail(s)[k] = s[k + 1]
      /\ \A k \in 1 .. Len(s) : s[k] \in Call
  OBVIOUS
<1>4. Tail(s) = <<>> <=> Len(s) = 1
  <2>1. Tail(s) = <<>> <=> Len(Tail(s)) = 0
    BY <1>1, EmptyFacts, Zenon
  <2> QED
    BY <1>1, <2>1
<1> QED
  BY <1>1, <1>2, <1>3, <1>4
-----------------------------------------------------------------------------
(* What the steps do to fences, semaphores and queues, given the invariant: *)
(* which fences are set and which flags are known in each place.            *)

\* A step that only moves the drawing thread on.
DrawerGoes(from, to) ==
  /\ pc[Drawer] = from /\ pc' = [pc EXCEPT ![Drawer] = to]
  /\ UNCHANGED <<frame, handed, reader, uploads, stale, call, signaled, submitted, submitlck,
                 queue, payload, fence, uploadsDone>>
DrawerMoves ==
  \/ DrawerGoes("poll", "wait") /\ frame < MaxFrames /\ submitted[FrameFence(Slot)]
  \/ DrawerGoes("poll", "acquire") /\ frame < MaxFrames /\ ~submitted[FrameFence(Slot)]
  \/ DrawerGoes("recreate", "acquire")
  \/ DrawerGoes("record", "fill")
  \/ DrawerGoes("fill", "submit")
\* The fence of the slot is reset.
FrameIsDone ==
  /\ pc[Drawer] \in {"poll", "wait"} /\ frame < MaxFrames
  /\ submitted[FrameFence(Slot)] /\ fence[FrameFence(Slot)] = "signaled"
  /\ fence' = [fence EXCEPT ![FrameFence(Slot)] = "reset"]
  /\ submitted' = [submitted EXCEPT ![FrameFence(Slot)] = FALSE]
  /\ reader' = (IF reader = Slot THEN None ELSE reader)
  /\ pc' = [pc EXCEPT ![Drawer] = "acquire"]
  /\ UNCHANGED <<frame, handed, uploads, stale, call, signaled, submitlck, queue, payload, uploadsDone>>
OutOfDate ==
  /\ pc[Drawer] = "acquire" /\ pc' = [pc EXCEPT ![Drawer] = "recreate"]
  /\ stale' = stale + 1 /\ stale < MaxStale
  /\ UNCHANGED <<frame, handed, reader, uploads, call, signaled, submitted, submitlck,
                 queue, payload, fence, uploadsDone>>
ImageIsThere ==
  /\ pc[Drawer] = "waitimage" /\ pc' = [pc EXCEPT ![Drawer] = "record"]
  /\ fence' = [fence EXCEPT ![AcquireFence] = "reset"]
  /\ submitted' = [submitted EXCEPT ![AcquireFence] = FALSE]
  /\ UNCHANGED <<frame, handed, reader, uploads, stale, call, signaled, submitlck, queue, payload, uploadsDone>>
UploadIsDone ==
  /\ pc[Loader] = "wait" /\ pc' = [pc EXCEPT ![Loader] = "idle"]
  /\ fence[UploadFence] = "signaled"
  /\ fence' = [fence EXCEPT ![UploadFence] = "reset"]
  /\ submitted' = [submitted EXCEPT ![UploadFence] = FALSE]
  /\ UNCHANGED <<frame, handed, reader, uploads, stale, call, signaled, submitlck, queue, payload, uploadsDone>>
\* The commands that create the texture.
Creating ==
  \E c \in Call :
    /\ pc[Drawer] = "poll" /\ frame = 0 /\ G = <<>> /\ ~submitted[FrameFence(0)]
    /\ FrameBatch(c, 0) /\ c.waits = {} /\ c.signals = {} /\ c.needs = 0
    /\ queue' = [queue EXCEPT ![Graphics] = Append(G, c)]
    /\ fence' = [fence EXCEPT ![FrameFence(0)] = "pending"]
    /\ submitted' = [submitted EXCEPT ![FrameFence(0)] = TRUE]
    /\ UNCHANGED <<pc, frame, handed, reader, uploads, stale, call, signaled, submitlck, payload, uploadsDone>>
\* The calls take the semaphores: the flags of those that are waited for, or
\* signalled, are known.
FrameTaken ==
  \E c \in Call :
    /\ pc[Drawer] = "submit" /\ pc' = [pc EXCEPT ![Drawer] = "lock"]
    /\ FrameBatch(c, Slot) /\ c.signals = {Rendered(Slot)}
    /\ Acquired(Slot) \in c.waits <=> signaled[Acquired(Slot)]
    /\ Uploaded \in c.waits <=> handed
    /\ c.needs = (IF handed THEN uploads ELSE 0)
    /\ call' = [call EXCEPT ![Drawer] = c]
    /\ signaled' \in [Sems -> BOOLEAN]
    /\ ~signaled'[Acquired(Slot)] /\ signaled'[Rendered(Slot)]
    /\ signaled'[Uploaded] <=> signaled[Uploaded] /\ ~handed
    /\ \A s \in Sems \ {Acquired(Slot), Rendered(Slot), Uploaded} : signaled'[s] = signaled[s]
    /\ UNCHANGED <<frame, handed, reader, uploads, stale, submitted, submitlck, queue, payload, fence, uploadsDone>>
PresentTaken ==
  /\ pc[Drawer] = "present" /\ pc' = [pc EXCEPT ![Drawer] = "lock"]
  /\ call' = [call EXCEPT ![Drawer] = PresentBatch(Slot)]
  /\ signaled' = [signaled EXCEPT ![Rendered(Slot)] = FALSE]
  /\ UNCHANGED <<frame, handed, reader, uploads, stale, submitted, submitlck, queue, payload, fence, uploadsDone>>
UploadTaken ==
  /\ pc[Loader] = "idle" /\ pc' = [pc EXCEPT ![Loader] = "lock"]
  /\ uploads < MaxUploads /\ ~handed /\ reader = None
  /\ uploads' = uploads + 1
  /\ call' = [call EXCEPT ![Loader] = UploadBatch]
  /\ signaled' = [signaled EXCEPT ![Uploaded] = TRUE]
  /\ UNCHANGED <<frame, handed, reader, stale, submitted, submitlck, queue, payload, fence, uploadsDone>>
\* The driver takes the batches.
FrameEnqueued ==
  /\ pc[Drawer] = "enqueue" /\ FrameCall /\ pc' = [pc EXCEPT ![Drawer] = "unlock"]
  /\ queue' = [queue EXCEPT ![Graphics] = Append(G, call[Drawer])]
  /\ fence' = [fence EXCEPT ![FrameFence(Slot)] = "pending"]
  /\ UNCHANGED <<frame, handed, reader, uploads, stale, call, signaled, submitted, submitlck, payload, uploadsDone>>
PresentEnqueued ==
  /\ pc[Drawer] = "enqueue" /\ PresentCall /\ pc' = [pc EXCEPT ![Drawer] = "unlock"]
  /\ queue' = [queue EXCEPT ![Graphics] = Append(G, PresentBatch(Slot))]
  /\ UNCHANGED <<frame, handed, reader, uploads, stale, call, signaled, submitted, submitlck, payload, fence, uploadsDone>>
UploadEnqueued ==
  /\ pc[Loader] = "enqueue" /\ pc' = [pc EXCEPT ![Loader] = "unlock"]
  /\ queue' = [queue EXCEPT ![Transfer] = Append(T, UploadBatch)]
  /\ fence' = [fence EXCEPT ![UploadFence] = "pending"]
  /\ UNCHANGED <<frame, handed, reader, uploads, stale, call, signaled, submitted, submitlck, payload, uploadsDone>>
\* The calls return.
FrameSubmitted ==
  /\ pc[Drawer] = "unlock" /\ FrameCall /\ pc' = [pc EXCEPT ![Drawer] = "present"]
  /\ submitted' = [submitted EXCEPT ![FrameFence(Slot)] = TRUE]
  /\ handed' = (handed /\ ~Taking) /\ reader' = (IF Taking THEN Slot ELSE reader)
  /\ submitlck' = None /\ call' = [call EXCEPT ![Drawer] = NoCall]
  /\ UNCHANGED <<frame, uploads, stale, signaled, queue, payload, fence, uploadsDone>>
FramePresented ==
  /\ pc[Drawer] = "unlock" /\ PresentCall /\ pc' = [pc EXCEPT ![Drawer] = "poll"]
  /\ frame' = frame + 1
  /\ submitlck' = None /\ call' = [call EXCEPT ![Drawer] = NoCall]
  /\ UNCHANGED <<handed, reader, uploads, stale, signaled, submitted, queue, payload, fence, uploadsDone>>
UploadSubmitted ==
  /\ pc[Loader] = "unlock" /\ pc' = [pc EXCEPT ![Loader] = "handover"]
  /\ submitted' = [submitted EXCEPT ![UploadFence] = TRUE]
  /\ submitlck' = None /\ call' = [call EXCEPT ![Loader] = NoCall]
  /\ UNCHANGED <<frame, handed, reader, uploads, stale, signaled, queue, payload, fence, uploadsDone>>
\* The driver executes them.
FrameExecuted ==
  \E i \in 0 .. Slots - 1 :
    /\ G # <<>> /\ FrameBatch(G[1], i) /\ \A s \in G[1].waits : payload[s] = "signaled"
    /\ queue' = [queue EXCEPT ![Graphics] = Tail(G)]
    /\ payload' \in [Sems -> {"idle", "engine", "signaled"}]
    /\ \A s \in Sems : payload'[s] = (IF s \in G[1].signals THEN "signaled"
                                       ELSE IF s \in G[1].waits THEN "idle" ELSE payload[s])
    /\ fence' = [fence EXCEPT ![FrameFence(i)] = "signaled"]
    /\ UNCHANGED <<pc, frame, handed, reader, uploads, stale, call, signaled, submitted, submitlck, uploadsDone>>
PresentExecuted ==
  \E i \in 0 .. Slots - 1 :
    /\ G # <<>> /\ G[1] = PresentBatch(i) /\ payload[Rendered(i)] = "signaled"
    /\ queue' = [queue EXCEPT ![Graphics] = Tail(G)]
    /\ payload' = [payload EXCEPT ![Rendered(i)] = "idle"]
    /\ UNCHANGED <<pc, frame, handed, reader, uploads, stale, call, signaled, submitted, submitlck, fence, uploadsDone>>
UploadExecuted ==
  /\ Len(T) = 1 /\ T # <<>> /\ T[1] = UploadBatch
  /\ queue' = [queue EXCEPT ![Transfer] = <<>>]
  /\ payload' = [payload EXCEPT ![Uploaded] = "signaled"]
  /\ fence' = [fence EXCEPT ![UploadFence] = "signaled"]
  /\ uploadsDone' = uploadsDone + 1
  /\ UNCHANGED <<pc, frame, handed, reader, uploads, stale, call, signaled, submitted, submitlck>>
ImageIsFree ==
  \/ \E i \in 0 .. Slots - 1 :
       /\ payload[Acquired(i)] = "engine"
       /\ payload' = [payload EXCEPT ![Acquired(i)] = "signaled"]
       /\ UNCHANGED <<pc, frame, handed, reader, uploads, stale, call, signaled, submitted, submitlck, queue, fence, uploadsDone>>
  \/ /\ fence[AcquireFence] = "engine"
     /\ fence' = [fence EXCEPT ![AcquireFence] = "signaled"]
     /\ UNCHANGED <<pc, frame, handed, reader, uploads, stale, call, signaled, submitted, submitlck, queue, payload, uploadsDone>>

SyncStep ==
  \/ UNCHANGED syncVars \/ DrawerMoves \/ FrameIsDone \/ OutOfDate \/ ImageIsThere \/ UploadIsDone
  \/ AcquireWithSemaphore \/ AcquireWithFence \/ Creating
  \/ FrameTaken \/ PresentTaken \/ UploadTaken
  \/ \E t \in Threads : LockQueue(t)
  \/ FrameEnqueued \/ PresentEnqueued \/ UploadEnqueued
  \/ FrameSubmitted \/ FramePresented \/ UploadSubmitted \/ HandOver
  \/ FrameExecuted \/ PresentExecuted \/ UploadExecuted \/ ImageIsFree

LEMMA QueueTypes ==
  ASSUME TypeInv
  PROVE  /\ G \in Seq(Call) /\ T \in Seq(Call) /\ Len(G) \in Nat /\ Len(T) \in Nat
         /\ \A k \in 1 .. Len(G) : G[k] \in Call
         /\ frame \in Nat /\ Slot \in 0 .. Slots - 1 /\ Slot # None /\ \A i \in 0 .. Slots - 1 : i # None
<1>1. G \in Seq(Call) /\ T \in Seq(Call)
  BY QueueNames DEF TypeInv, G, T
<1>2. frame \in Nat
  BY Numbers DEF TypeInv
<1> QED
  BY <1>1, <1>2, SlotType, Numbers, EmptyFacts

LEMMA SyncSteps ==
  ASSUME SyncInv, [FramesNext]_vars
  PROVE  SyncStep
<1> USE DEF SyncInv
<1>0. /\ pc \in [Threads -> DrawerLabels \cup LoaderLabels] /\ call \in [Threads -> Call]
      /\ signaled \in [Sems -> BOOLEAN] /\ submitted \in [Fences -> BOOLEAN]
      /\ queue \in [Queues -> Seq(Call)]
      /\ payload \in [Sems -> {"idle", "engine", "signaled"}]
      /\ fence \in [Fences -> {"reset", "pending", "engine", "signaled"}]
  BY DEF TypeInv
<1>1. CASE CreateTexture
  <2> DEFINE c == [NoCall EXCEPT !.fence = FrameFence(0), !.cmd = 0, !.queue = Graphics]
  <2>1. 0 \in 0 .. Slots - 1 /\ FrameFence(0) \in Fences
    BY Numbers, FenceNames
  <2>2. c \in Call /\ c.fence = FrameFence(0) /\ c.cmd = 0 /\ c.queue = Graphics /\ c.waits = {} /\ c.signals = {} /\ c.needs = 0
    BY <2>1, NoCallFields, QueueNames DEF Call
  <2>3. FrameBatch(c, 0)
    BY <2>2, <2>1, FenceNames, SemNames DEF FrameBatch
  <2>4. queue' = [queue EXCEPT ![Graphics] = Append(G, c)]
    <3>1. queue' = [queue EXCEPT ![Graphics] = <<c>>] /\ G = <<>>
      BY <1>1 DEF CreateTexture, G
    <3> QED
      BY <3>1
  <2>5. Creating
    BY <1>1, <2>2, <2>3, <2>4 DEF Creating, CreateTexture, G, appVars
  <2> QED
    BY <2>5 DEF SyncStep
<1>2. CASE Release
  BY <1>2 DEF Release, Goto, SyncStep, DrawerMoves, DrawerGoes, appVars, driverVars
<1>3. CASE Fill
  BY <1>3 DEF Fill, Goto, SyncStep, DrawerMoves, DrawerGoes, appVars, driverVars
<1>4. CASE RemoveTexture
  BY <1>4 DEF RemoveTexture, SyncStep
<1>5. CASE PollFence
  BY <1>5, <1>0 DEF PollFence, FenceDone, ReaderDone, Goto, SyncStep, DrawerMoves, DrawerGoes, FrameIsDone
<1>6. CASE WaitFrame
  <2> DEFINE f == FrameFence(Slot)
  <2>1. submitted[f] /\ f \in Fences /\ pc[Drawer] = "wait" /\ frame < MaxFrames
    BY <1>6, FenceNames, QueueTypes DEF WaitFrame, FenceInv, TypeInv
  <2>2. {g \in {f} : submitted[g]} = {f}
    BY <2>1
  <2>3. fence[f] = "signaled"
    BY <1>6, <2>2 DEF WaitFrame, WaitForFences
  <2>4. fence' = [fence EXCEPT ![f] = "reset"]
    BY <1>6, <1>0, <2>1 DEF WaitFrame, WaitForFences
  <2>5. submitted' = [submitted EXCEPT ![f] = FALSE]
    BY <1>6, <1>0, <2>1 DEF WaitFrame, WaitForFences
  <2>6. FrameIsDone
    BY <1>6, <2>1, <2>3, <2>4, <2>5 DEF FrameIsDone, WaitFrame, ReaderDone, Goto
  <2> QED
    BY <2>6 DEF SyncStep
<1>7. CASE AcquireWithSemaphore
  BY <1>7 DEF SyncStep
<1>8. CASE AcquireWithFence
  BY <1>8 DEF SyncStep
<1>9. CASE WaitImage
  <2>1. submitted[AcquireFence] /\ AcquireFence \in Fences
    BY <1>9, FenceNames DEF WaitImage, FenceInv
  <2>2. fence' = [fence EXCEPT ![AcquireFence] = "reset"]
    BY <1>9, <1>0, <2>1 DEF WaitImage, WaitForFences
  <2>3. submitted' = [submitted EXCEPT ![AcquireFence] = FALSE]
    BY <1>9, <1>0, <2>1 DEF WaitImage, WaitForFences
  <2>4. ImageIsThere
    BY <1>9, <2>2, <2>3 DEF ImageIsThere, WaitImage, Goto, appVars
  <2> QED
    BY <2>4 DEF SyncStep
<1>10. CASE AcquireOutOfDate
  <2>1. pc[Drawer] = "acquire" /\ Slot \in 0 .. Slots - 1 /\ Acquired(Slot) \in Sems /\ AcquireFence \in Fences
    BY <1>10, QueueTypes, SemNames, FenceNames DEF AcquireOutOfDate
  <2>2. signaled[Acquired(Slot)] = FALSE
    BY <2>1, <1>0 DEF AcquiredInv, AcquiredAt, Waited
  <2>3. submitted[AcquireFence] = FALSE /\ fence[AcquireFence] = "reset"
    BY <2>1, <1>0 DEF FenceInv
  <2>4. UNCHANGED <<signaled, submitted, fence>>
    BY <1>10, <1>0, <2>1, <2>2, <2>3 DEF AcquireOutOfDate
  <2>5. OutOfDate
    BY <1>10, <2>4 DEF OutOfDate, AcquireOutOfDate, Goto
  <2> QED
    BY <2>5 DEF SyncStep
<1>11. CASE RecreateSwapchain
  BY <1>11 DEF RecreateSwapchain, Goto, SyncStep, DrawerMoves, DrawerGoes, appVars, driverVars
<1>12. CASE SubmitFrame
  <2> DEFINE c0 == [NoCall EXCEPT !.fence = FrameFence(Slot), !.cmd = Slot, !.queue = Graphics,
                                  !.needs = IF handed THEN uploads ELSE 0]
             W == {Acquired(Slot)} \cup (IF handed THEN {Uploaded} ELSE {})
             cleared == {s \in W : signaled[s]}
             raised == {s \in {Rendered(Slot)} : ~signaled[s] \/ s \in cleared}
             c == [c0 EXCEPT !.waits = cleared, !.signals = raised]
  <2>1. /\ pc[Drawer] = "submit" /\ Slot \in 0 .. Slots - 1
        /\ Acquired(Slot) \in Sems /\ Rendered(Slot) \in Sems /\ Uploaded \in Sems /\ FrameFence(Slot) \in Fences
    BY <1>12, QueueTypes, SemNames, FenceNames DEF SubmitFrame
  <2>2. signaled[Rendered(Slot)] = FALSE
    BY <2>1, <1>0 DEF RenderedInv, RenderedAt, FrameCall, InCall
  <2>3. handed => signaled[Uploaded]
    BY <2>1 DEF UploadedInv, Waited, Taking, FrameCall, InCall
  <2>4. raised = {Rendered(Slot)}
    BY <2>1, <2>2
  <2>5. cleared \subseteq {Acquired(Slot), Uploaded} /\ (Acquired(Slot) \in cleared <=> signaled[Acquired(Slot)])
    BY <2>1, SemNames
  <2>6. Uploaded \in cleared <=> handed
    BY <2>1, <2>3, SemNames
  <2>7. c0 \in Call /\ c0.fence = FrameFence(Slot) /\ c0.cmd = Slot /\ c0.queue = Graphics
          /\ c0.needs = (IF handed THEN uploads ELSE 0)
    <3>1. (IF handed THEN uploads ELSE 0) \in 0 .. MaxUploads
      BY Numbers DEF TypeInv
    <3> QED
      BY <3>1, <2>1, NoCallFields, QueueNames DEF Call
  <2>8. c \in Call /\ c.fence = FrameFence(Slot) /\ c.cmd = Slot /\ c.queue = Graphics
          /\ c.needs = (IF handed THEN uploads ELSE 0) /\ c.waits = cleared /\ c.signals = raised
    <3>1. cleared \in SUBSET Sems /\ raised \in SUBSET Sems
      BY <2>1, <2>4, <2>5
    <3> HIDE DEF c0, cleared, raised
    <3> QED
      BY <3>1, <2>7 DEF Call
  <2>9. call' = [call EXCEPT ![Drawer] = c]
    BY <1>12 DEF SubmitFrame, TakeSemaphores
  <2>10. signaled' = [s \in Sems |-> IF s \in raised THEN TRUE ELSE IF s \in cleared THEN FALSE ELSE signaled[s]]
    BY <1>12 DEF SubmitFrame, TakeSemaphores
  <2> HIDE DEF c, cleared, raised, c0, W
  <2>11. /\ signaled' \in [Sems -> BOOLEAN]
         /\ ~signaled'[Acquired(Slot)] /\ signaled'[Rendered(Slot)]
         /\ signaled'[Uploaded] <=> signaled[Uploaded] /\ ~handed
         /\ \A s \in Sems \ {Acquired(Slot), Rendered(Slot), Uploaded} : signaled'[s] = signaled[s]
    BY <2>10, <2>1, <2>4, <2>5, <2>6, <1>0, SemNames
  <2>12. c.needs > 0 <=> Uploaded \in c.waits
    <3>1. handed => uploads > 0
      BY DEF UploadedInv, Waited
    <3> QED
      BY <3>1, <2>6, <2>8
  <2>13. FrameBatch(c, Slot)
    BY <2>12, <2>8, <2>4, <2>5 DEF FrameBatch
  <2>14. FrameTaken
    <3>1. pc' = [pc EXCEPT ![Drawer] = "lock"] /\ UNCHANGED <<frame, handed, reader, uploads, stale, submitted, submitlck, queue, payload, fence, uploadsDone>>
      BY <1>12 DEF SubmitFrame, Goto, appVars, driverVars
    <3> QED
      BY <3>1, <2>1, <2>8, <2>13, <2>4, <2>5, <2>6, <2>9, <2>11 DEF FrameTaken
  <2> QED
    BY <2>14 DEF SyncStep
<1>13. CASE PresentFrame
  <2> DEFINE W == {Rendered(Slot)}
             c0 == [NoCall EXCEPT !.queue = Graphics]
             cleared == {s \in W : signaled[s]}
             raised == {s \in {} : ~signaled[s] \/ s \in cleared}
             c == [c0 EXCEPT !.waits = cleared, !.signals = raised]
  <2>1. pc[Drawer] = "present" /\ Slot \in 0 .. Slots - 1 /\ Rendered(Slot) \in Sems
    BY <1>13, QueueTypes, SemNames DEF PresentFrame
  <2>2. signaled[Rendered(Slot)]
    BY <2>1, <1>0 DEF RenderedInv, RenderedAt
  <2>3. raised = {} /\ cleared = {Rendered(Slot)}
    BY <2>1, <2>2
  <2>4. c0 \in Call /\ c0.fence = None /\ c0.cmd = None /\ c0.queue = Graphics /\ c0.needs = 0
    BY <2>1, NoCallFields, QueueNames DEF Call
  <2>5. c \in Call /\ c.fence = None /\ c.cmd = None /\ c.queue = Graphics /\ c.needs = 0
          /\ c.waits = {Rendered(Slot)} /\ c.signals = {}
    <3>1. cleared \in SUBSET Sems /\ raised \in SUBSET Sems
      BY <2>1, <2>3
    <3> HIDE DEF c0, cleared, raised
    <3> QED
      BY <3>1, <2>3, <2>4 DEF Call
  <2>6. call' = [call EXCEPT ![Drawer] = c]
    BY <1>13 DEF PresentFrame, TakeSemaphores
  <2>7. signaled' = [s \in Sems |-> IF s \in raised THEN TRUE ELSE IF s \in cleared THEN FALSE ELSE signaled[s]]
    BY <1>13 DEF PresentFrame, TakeSemaphores
  <2> HIDE DEF c, cleared, raised, c0, W
  <2>8. signaled' = [signaled EXCEPT ![Rendered(Slot)] = FALSE]
    BY <2>7, <2>3, <2>1, <1>0
  <2>9. c = PresentBatch(Slot)
    <3> DEFINE d == PresentBatch(Slot)
    <3>1. d \in Call /\ d.fence = None /\ d.cmd = None /\ d.queue = Graphics /\ d.needs = 0
            /\ d.waits = {Rendered(Slot)} /\ d.signals = {}
      BY <2>1, PresentBatchFields
    <3> HIDE DEF d
    <3>2. c = d
      BY <2>5, <3>1, SameBatch
    <3> QED
      BY <3>2 DEF d
  <2>10. PresentTaken
    BY <1>13, <2>1, <2>6, <2>8, <2>9 DEF PresentTaken, PresentFrame, Goto, appVars, driverVars
  <2> QED
    BY <2>10 DEF SyncStep
<1>14. CASE SubmitUpload
  <2> DEFINE c0 == [NoCall EXCEPT !.fence = UploadFence, !.queue = Transfer]
             cleared == {s \in {} : signaled[s]}
             raised == {s \in {Uploaded} : ~signaled[s] \/ s \in cleared}
             c == [c0 EXCEPT !.waits = cleared, !.signals = raised]
  <2>1. pc[Loader] = "idle" /\ Uploaded \in Sems /\ UploadFence \in Fences /\ ~handed
    BY <1>14, SemNames, FenceNames DEF SubmitUpload
  <2>2. signaled[Uploaded] = FALSE
    BY <2>1, <1>0 DEF UploadedInv, Waited
  <2>3. cleared = {} /\ raised = {Uploaded}
    BY <2>1, <2>2
  <2>4. c0 \in Call /\ c0.fence = UploadFence /\ c0.cmd = None /\ c0.queue = Transfer /\ c0.needs = 0
    BY <2>1, NoCallFields, QueueNames DEF Call
  <2>5. c \in Call /\ c.fence = UploadFence /\ c.cmd = None /\ c.queue = Transfer /\ c.needs = 0
          /\ c.waits = {} /\ c.signals = {Uploaded}
    <3>1. cleared \in SUBSET Sems /\ raised \in SUBSET Sems
      BY <2>1, <2>3
    <3> HIDE DEF c0, cleared, raised
    <3> QED
      BY <3>1, <2>3, <2>4 DEF Call
  <2>6. call' = [call EXCEPT ![Loader] = c]
    BY <1>14 DEF SubmitUpload, TakeSemaphores
  <2>7. signaled' = [s \in Sems |-> IF s \in raised THEN TRUE ELSE IF s \in cleared THEN FALSE ELSE signaled[s]]
    BY <1>14 DEF SubmitUpload, TakeSemaphores
  <2> HIDE DEF c, cleared, raised, c0
  <2>8. signaled' = [signaled EXCEPT ![Uploaded] = TRUE]
    BY <2>7, <2>3, <2>1, <1>0
  <2>9. c = UploadBatch
    BY <2>5, <2>1, UploadBatchFields, SameBatch
  <2>10. UploadTaken
    BY <1>14, <2>1, <2>6, <2>8, <2>9 DEF UploadTaken, SubmitUpload, Goto, driverVars
  <2> QED
    BY <2>10 DEF SyncStep
<1>15. CASE HandOver
  BY <1>15 DEF SyncStep
<1>16. CASE WaitUpload
  <2>1. submitted[UploadFence] /\ UploadFence \in Fences
    BY <1>16, FenceNames DEF WaitUpload, FenceInv
  <2>2. fence[UploadFence] = "signaled" /\ fence' = [fence EXCEPT ![UploadFence] = "reset"]
    BY <1>16, <1>0, <2>1 DEF WaitUpload, WaitForFences
  <2>3. submitted' = [submitted EXCEPT ![UploadFence] = FALSE]
    BY <1>16, <1>0, <2>1 DEF WaitUpload, WaitForFences
  <2>4. UploadIsDone
    BY <1>16, <2>2, <2>3 DEF UploadIsDone, WaitUpload, Goto, appVars
  <2> QED
    BY <2>4 DEF SyncStep
<1>17. CASE \E t \in Threads : LockQueue(t)
  BY <1>17 DEF SyncStep
<1>18. CASE \E t \in Threads : Enqueue(t)
  <2>1. CASE Enqueue(Loader)
    <3>1. pc[Loader] = "enqueue" /\ call[Loader] = UploadBatch
      BY <2>1 DEF Enqueue, CallInv, InCall
    <3>2. queue' = [queue EXCEPT ![Transfer] = Append(T, UploadBatch)]
      BY <2>1, <3>1, UploadBatchFields DEF Enqueue, T
    <3>3. fence' = [fence EXCEPT ![UploadFence] = "pending"]
      BY <2>1, <3>1, <1>0, UploadBatchFields, FenceNames DEF Enqueue
    <3>4. UploadEnqueued
      BY <2>1, <3>1, <3>2, <3>3 DEF UploadEnqueued, Enqueue, Goto, appVars
    <3> QED
      BY <3>4 DEF SyncStep
  <2>2. CASE Enqueue(Drawer) /\ FrameCall
    <3>1. pc[Drawer] = "enqueue" /\ FrameBatch(call[Drawer], Slot) /\ Slot \in 0 .. Slots - 1
      BY <2>2, QueueTypes DEF Enqueue, CallInv
    <3>2. queue' = [queue EXCEPT ![Graphics] = Append(G, call[Drawer])]
      BY <2>2, <3>1 DEF Enqueue, G, FrameBatch
    <3>3. fence' = [fence EXCEPT ![FrameFence(Slot)] = "pending"]
      BY <2>2, <3>1, <1>0, FenceNames DEF Enqueue, FrameBatch
    <3>4. FrameEnqueued
      BY <2>2, <3>1, <3>2, <3>3 DEF FrameEnqueued, Enqueue, Goto, appVars
    <3> QED
      BY <3>4 DEF SyncStep
  <2>3. CASE Enqueue(Drawer) /\ ~FrameCall
    <3>1. pc[Drawer] = "enqueue" /\ PresentCall /\ call[Drawer] = PresentBatch(Slot) /\ Slot \in 0 .. Slots - 1
      BY <2>3, QueueTypes DEF Enqueue, CallInv, FrameCall, PresentCall, InCall
    <3>2. queue' = [queue EXCEPT ![Graphics] = Append(G, PresentBatch(Slot))]
      BY <2>3, <3>1, PresentBatchFields DEF Enqueue, G
    <3>3. fence' = fence
      BY <2>3, <3>1, <1>0, PresentBatchFields, FenceNames DEF Enqueue
    <3>4. PresentEnqueued
      BY <2>3, <3>1, <3>2, <3>3 DEF PresentEnqueued, Enqueue, Goto, appVars
    <3> QED
      BY <3>4 DEF SyncStep
  <2> QED
    BY <1>18, <2>1, <2>2, <2>3, ThreadNames
<1>19. CASE \E t \in Threads : Unlock(t)
  <2>1. CASE Unlock(Loader)
    <3>1. pc[Loader] = "unlock" /\ call[Loader] = UploadBatch /\ Loader # Drawer
      BY <2>1, ThreadNames DEF Unlock, CallInv, InCall
    <3>2. submitted' = [submitted EXCEPT ![UploadFence] = TRUE]
      BY <2>1, <3>1, <1>0, UploadBatchFields, FenceNames DEF Unlock
    <3>3. UNCHANGED <<frame, handed, reader, uploads, stale>>
      BY <2>1, <3>1, UploadBatchFields DEF Unlock
    <3>4. pc' = [pc EXCEPT ![Loader] = "handover"]
      BY <2>1, <3>1 DEF Unlock, Goto
    <3>5. UploadSubmitted
      BY <2>1, <3>1, <3>2, <3>3, <3>4 DEF UploadSubmitted, Unlock, driverVars
    <3> QED
      BY <3>5 DEF SyncStep
  <2>2. CASE Unlock(Drawer) /\ FrameCall
    <3>1. pc[Drawer] = "unlock" /\ FrameBatch(call[Drawer], Slot) /\ Slot \in 0 .. Slots - 1 /\ call[Drawer].cmd # None
      BY <2>2, QueueTypes DEF Unlock, CallInv, FrameCall
    <3>2. submitted' = [submitted EXCEPT ![FrameFence(Slot)] = TRUE]
      BY <2>2, <3>1, <1>0, FenceNames DEF Unlock, FrameBatch
    <3>3. pc' = [pc EXCEPT ![Drawer] = "present"]
      BY <2>2, <3>1, ThreadNames DEF Unlock, Goto
    <3>4. frame' = frame /\ handed' = (handed /\ ~Taking) /\ reader' = (IF Taking THEN Slot ELSE reader)
      BY <2>2, <3>1 DEF Unlock, Taking, TypeInv
    <3>5. FrameSubmitted
      BY <2>2, <3>1, <3>2, <3>3, <3>4 DEF FrameSubmitted, Unlock, driverVars
    <3> QED
      BY <3>5 DEF SyncStep
  <2>3. CASE Unlock(Drawer) /\ ~FrameCall
    <3>1. pc[Drawer] = "unlock" /\ PresentCall /\ call[Drawer] = PresentBatch(Slot) /\ Slot \in 0 .. Slots - 1
      BY <2>3, QueueTypes DEF Unlock, CallInv, FrameCall, PresentCall, InCall
    <3>0. call[Drawer].fence = None /\ call[Drawer].cmd = None /\ call[Drawer].needs = 0
      BY <3>1, PresentBatchFields
    <3>2. submitted' = submitted
      <4>1. submitted' = [f \in Fences |-> IF f = None THEN TRUE ELSE submitted[f]]
        BY <2>3, <3>0 DEF Unlock
      <4> QED
        BY <4>1, <1>0, FenceNames
    <3>3. pc' = [pc EXCEPT ![Drawer] = "poll"]
      BY <2>3, <3>1, <3>0, ThreadNames DEF Unlock, Goto
    <3>4. frame' = frame + 1 /\ handed' = handed /\ reader' = reader
      BY <2>3, <3>0 DEF Unlock
    <3>5. FramePresented
      BY <2>3, <3>1, <3>2, <3>3, <3>4 DEF FramePresented, Unlock, driverVars
    <3> QED
      BY <3>5 DEF SyncStep
  <2> QED
    BY <1>19, <2>1, <2>2, <2>3, ThreadNames
<1>20. CASE \E q \in Queues : Execute(q)
  <2>1. CASE Execute(Transfer)
    <3>0. T \in Seq(Call) /\ T # <<>> /\ Len(T) \in Nat /\ Len(T) <= 1
      BY <2>1, QueueTypes DEF Execute, T, QueueInv
    <3>1. T \in Seq(Call) /\ T # <<>> /\ Len(T) = 1 /\ T[1] = UploadBatch /\ Head(T) = UploadBatch /\ Tail(T) = <<>>
      <4>1. Len(T) = 1 /\ Head(T) = T[1] /\ Tail(T) = <<>>
        BY <3>0, TailFacts
      <4> QED
        BY <3>0, <4>1 DEF QueueInv
    <3>2. queue' = [queue EXCEPT ![Transfer] = <<>>]
      BY <2>1, <3>1 DEF Execute, T
    <3>3. payload' = [payload EXCEPT ![Uploaded] = "signaled"]
      BY <2>1, <3>1, <1>0, UploadBatchFields, SemNames DEF Execute, T
    <3>4. fence' = [fence EXCEPT ![UploadFence] = "signaled"]
      BY <2>1, <3>1, <1>0, UploadBatchFields, FenceNames DEF Execute, T
    <3>5. UploadExecuted
      BY <2>1, <3>1, <3>2, <3>3, <3>4 DEF UploadExecuted, Execute, appVars
    <3> QED
      BY <3>5 DEF SyncStep
  <2>2. CASE Execute(Graphics)
    <3>1. G \in Seq(Call) /\ G # <<>> /\ 1 \in 1 .. Len(G) /\ Head(G) = G[1] /\ G[1] \in Call
      BY <2>2, QueueTypes, TailFacts DEF Execute, G
    <3>2. GraphicsEntry(1)
      BY <3>1 DEF QueueInv
    <3>3. queue' = [queue EXCEPT ![Graphics] = Tail(G)]
      BY <2>2 DEF Execute, G
    <3>4. uploadsDone' = uploadsDone
      BY <2>2, QueueNames DEF Execute
    <3>5. /\ payload' \in [Sems -> {"idle", "engine", "signaled"}]
          /\ \A s \in Sems : payload'[s] = (IF s \in G[1].signals THEN "signaled"
                                            ELSE IF s \in G[1].waits THEN "idle" ELSE payload[s])
      <4>1. payload' = [s \in Sems |-> IF s \in G[1].signals THEN "signaled"
                                       ELSE IF s \in G[1].waits THEN "idle" ELSE payload[s]]
        BY <2>2, <3>1 DEF Execute, G
      <4> QED
        BY <4>1, <1>0
    <3>6. fence' = [f \in Fences |-> IF f = G[1].fence THEN "signaled" ELSE fence[f]]
      BY <2>2, <3>1 DEF Execute, G
    <3>7. \A s \in G[1].waits : payload[s] = "signaled"
      BY <2>2, <3>1 DEF Execute, G
    <3>8. UNCHANGED <<pc, frame, handed, reader, uploads, stale, call, signaled, submitted, submitlck>>
      BY <2>2 DEF Execute, appVars
    <3>9. CASE \E i \in 0 .. Slots - 1 : G[1] = PresentBatch(i) /\ payload[Rendered(i)] = "signaled"
      <4>1. PICK i \in 0 .. Slots - 1 : G[1] = PresentBatch(i) /\ payload[Rendered(i)] = "signaled"
        BY <3>9
      <4>2. payload' = [payload EXCEPT ![Rendered(i)] = "idle"]
        BY <4>1, <3>5, <1>0, PresentBatchFields, SemNames
      <4>3. fence' = fence
        BY <4>1, <3>6, <1>0, PresentBatchFields, FenceNames
      <4>4. PresentExecuted
        BY <4>1, <4>2, <4>3, <3>1, <3>3, <3>4, <3>8 DEF PresentExecuted
      <4> QED
        BY <4>4 DEF SyncStep
    <3>10. CASE \E i \in 0 .. Slots - 1 : FrameBatch(G[1], i)
      <4>1. PICK i \in 0 .. Slots - 1 : FrameBatch(G[1], i)
        BY <3>10
      <4>2. fence' = [fence EXCEPT ![FrameFence(i)] = "signaled"]
        BY <4>1, <3>6, <1>0, FenceNames DEF FrameBatch
      <4>3. FrameExecuted
        BY <4>1, <4>2, <3>1, <3>3, <3>4, <3>5, <3>7, <3>8 DEF FrameExecuted
      <4> QED
        BY <4>3 DEF SyncStep
    <3> QED
      BY <3>2, <3>9, <3>10 DEF GraphicsEntry
  <2> QED
    BY <1>20, <2>1, <2>2, QueueNames
<1>21. CASE ImageReady
  <2>1. CASE \E s \in Sems : payload[s] = "engine" /\ payload' = [payload EXCEPT ![s] = "signaled"] /\ UNCHANGED fence
    <3>1. PICK s \in Sems : payload[s] = "engine" /\ payload' = [payload EXCEPT ![s] = "signaled"] /\ UNCHANGED fence
      BY <2>1
    <3>2. \E i \in 0 .. Slots - 1 : s = Acquired(i)
      BY <3>1, SemNames DEF RenderedInv, RenderedAt, UploadedInv
    <3> QED
      BY <1>21, <3>1, <3>2 DEF ImageReady, appVars, ImageIsFree, SyncStep
  <2>2. CASE \E f \in Fences : fence[f] = "engine" /\ fence' = [fence EXCEPT ![f] = "signaled"] /\ UNCHANGED payload
    <3>1. PICK f \in Fences : fence[f] = "engine" /\ fence' = [fence EXCEPT ![f] = "signaled"] /\ UNCHANGED payload
      BY <2>2
    <3>2. f = AcquireFence
      BY <3>1, FenceNames DEF FenceInv, InUse
    <3> QED
      BY <1>21, <3>1, <3>2 DEF ImageReady, appVars, ImageIsFree, SyncStep
  <2> QED
    BY <1>21, <2>1, <2>2 DEF ImageReady
<1>22. CASE UNCHANGED vars
  BY <1>22 DEF vars, SyncStep
<1> QED
  BY <1>1, <1>2, <1>3, <1>4, <1>5, <1>6, <1>7, <1>8, <1>9, <1>10, <1>11, <1>12, <1>13, <1>14, <1>15, <1>16,
     <1>17, <1>18, <1>19, <1>20, <1>21, <1>22 DEF FramesNext
-----------------------------------------------------------------------------
(* Each step keeps the invariant.                                          *)

LEMMA EntriesStay ==
  ASSUME TypeInv, QueueInv, G' = G, Open => Open' /\ Slot' = Slot,
         \A i \in 0 .. Slots - 1 :
           /\ payload[Rendered(i)] = "signaled" => payload'[Rendered(i)] = "signaled"
           /\ fence[FrameFence(i)] = "pending" => fence'[FrameFence(i)] = "pending"
  PROVE  \A k \in 1 .. Len(G') : GraphicsEntry(k)'
<1>1. SUFFICES ASSUME NEW k \in 1 .. Len(G) PROVE GraphicsEntry(k)'
  OBVIOUS
<1>2. GraphicsEntry(k)
  BY DEF QueueInv
<1>3. CASE \E i \in 0 .. Slots - 1 :
             /\ G[k] = PresentBatch(i)
             /\ IF k = 1 THEN payload[Rendered(i)] = "signaled" ELSE G[k - 1].signals = {Rendered(i)}
  BY <1>3 DEF GraphicsEntry
<1>4. CASE \E i \in 0 .. Slots - 1 :
             /\ FrameBatch(G[k], i) /\ fence[FrameFence(i)] = "pending"
             /\ \A j \in 1 .. Len(G) : G[j].cmd = i => j = k
             /\ G[k].signals # {} =>
                  IF k = Len(G) THEN Open /\ i = Slot ELSE G[k + 1] = PresentBatch(i)
  <2>1. PICK i \in 0 .. Slots - 1 :
             /\ FrameBatch(G[k], i) /\ fence[FrameFence(i)] = "pending"
             /\ \A j \in 1 .. Len(G) : G[j].cmd = i => j = k
             /\ G[k].signals # {} =>
                  IF k = Len(G) THEN Open /\ i = Slot ELSE G[k + 1] = PresentBatch(i)
    BY <1>4
  <2>2. /\ FrameBatch(G'[k], i) /\ fence'[FrameFence(i)] = "pending"
        /\ \A j \in 1 .. Len(G') : G'[j].cmd = i => j = k
        /\ G'[k].signals # {} =>
             IF k = Len(G') THEN Open' /\ i = Slot' ELSE G'[k + 1] = PresentBatch(i)
    BY <2>1
  <2> QED
    BY <2>2 DEF GraphicsEntry, FrameBatch
<1> QED
  BY <1>2, <1>3, <1>4 DEF GraphicsEntry

LEMMA EntryFields ==
  ASSUME TypeInv, QueueInv, NEW k \in 1 .. Len(G)
  PROVE  \/ \E i \in 0 .. Slots - 1 :
              /\ FrameBatch(G[k], i) /\ G[k].cmd = i /\ G[k].needs \in 0 .. MaxUploads
              /\ fence[FrameFence(i)] = "pending"
         \/ \E i \in 0 .. Slots - 1 :
              /\ G[k] = PresentBatch(i) /\ G[k].waits = {Rendered(i)} /\ G[k].signals = {}
              /\ G[k].cmd = None /\ G[k].needs = 0
<1>1. GraphicsEntry(k)
  BY DEF QueueInv
<1>2. CASE \E i \in 0 .. Slots - 1 : G[k] = PresentBatch(i)
  BY <1>2, PresentBatchFields
<1>3. CASE \E i \in 0 .. Slots - 1 : FrameBatch(G[k], i) /\ fence[FrameFence(i)] = "pending"
  BY <1>3, CallFields DEF FrameBatch
<1> QED
  BY <1>1, <1>2, <1>3 DEF GraphicsEntry

LEMMA DrawerGoesKeep ==
  ASSUME SyncInv, NEW from, NEW to, DrawerGoes(from, to),
         \/ from = "poll" /\ to = "wait" /\ frame < MaxFrames /\ submitted[FrameFence(Slot)]
         \/ from = "poll" /\ to = "acquire" /\ frame < MaxFrames /\ ~submitted[FrameFence(Slot)]
         \/ from = "recreate" /\ to = "acquire"
         \/ from = "record" /\ to = "fill"
         \/ from = "fill" /\ to = "submit"
  PROVE  SyncInv'
<1> USE DEF SyncInv
<1>s. /\ DrawerGoes(from, to)
      /\ \/ from = "poll" /\ to = "wait" /\ frame < MaxFrames /\ submitted[FrameFence(Slot)]
         \/ from = "poll" /\ to = "acquire" /\ frame < MaxFrames /\ ~submitted[FrameFence(Slot)]
         \/ from = "recreate" /\ to = "acquire"
         \/ from = "record" /\ to = "fill"
         \/ from = "fill" /\ to = "submit"
  OBVIOUS
<1>t. /\ pc \in [Threads -> DrawerLabels \cup LoaderLabels] /\ call \in [Threads -> Call]
      /\ G \in Seq(Call) /\ T \in Seq(Call) /\ Len(G) \in Nat /\ Len(T) \in Nat /\ frame \in Nat
      /\ Slot \in 0 .. Slots - 1 /\ Slot # None /\ Drawer # Loader /\ Threads = {Drawer, Loader}
      /\ \A i \in 0 .. Slots - 1 : i # None
      /\ signaled \in [Sems -> BOOLEAN] /\ submitted \in [Fences -> BOOLEAN]
      /\ payload \in [Sems -> {"idle", "engine", "signaled"}]
      /\ fence \in [Fences -> {"reset", "pending", "engine", "signaled"}]
  BY QueueTypes, ThreadNames DEF TypeInv
<1>v. /\ G' = G /\ T' = T /\ Slot' = Slot /\ pc'[Drawer] = to /\ pc'[Loader] = pc[Loader]
      /\ ~InCall(Drawer) /\ ~InCall(Drawer)' /\ InCall(Loader)' = InCall(Loader)
      /\ ~FrameCall /\ ~FrameCall' /\ ~PresentCall /\ ~PresentCall'
      /\ ~Open /\ ~Open' /\ ~Taking /\ ~Taking'
  BY <1>s, <1>t DEF DrawerGoes, Slot, G, T, InCall, FrameCall, PresentCall, Open, Taking
<1>1. TypeInv'
  BY <1>v, <1>t, FenceNames, SemNames, <1>s, Numbers DEF TypeInv, DrawerLabels, LoaderLabels, DrawerGoes
<1>2. LockInv'
  BY <1>v, <1>t, ThreadNames, <1>s DEF LockInv, DrawerGoes
<1>3. CallInv'
  BY <1>v, <1>t, ThreadNames, <1>s DEF CallInv, DrawerGoes
<1>4. FenceInv'
  BY <1>v, <1>t, FenceNames, <1>s DEF FenceInv, InUse, DrawerGoes
<1>5. QueueInv'
  BY <1>v, <1>t, EntriesStay, FenceNames, SemNames, <1>s DEF QueueInv, DrawerGoes
<1>6. RenderedInv'
  BY <1>v, <1>t, SemNames, <1>s DEF RenderedInv, RenderedAt, DrawerGoes
<1>7. AcquiredInv'
  BY <1>v, <1>t, SemNames, <1>s DEF AcquiredInv, AcquiredAt, Waited, DrawerGoes
<1>8. UploadedInv'
  BY <1>v, <1>t, SemNames, <1>s DEF UploadedInv, Waited, DrawerGoes
<1> QED
  BY <1>1, <1>2, <1>3, <1>4, <1>5, <1>6, <1>7, <1>8

LEMMA FrameIsDoneKeeps ==
  ASSUME SyncInv, FrameIsDone
  PROVE  SyncInv'
<1> USE DEF SyncInv
<1>s. FrameIsDone
  OBVIOUS
<1>t. /\ pc \in [Threads -> DrawerLabels \cup LoaderLabels] /\ call \in [Threads -> Call]
      /\ G \in Seq(Call) /\ T \in Seq(Call) /\ Len(G) \in Nat /\ Len(T) \in Nat /\ frame \in Nat
      /\ Slot \in 0 .. Slots - 1 /\ Slot # None /\ Drawer # Loader /\ Threads = {Drawer, Loader}
      /\ \A i \in 0 .. Slots - 1 : i # None
      /\ signaled \in [Sems -> BOOLEAN] /\ submitted \in [Fences -> BOOLEAN]
      /\ payload \in [Sems -> {"idle", "engine", "signaled"}]
      /\ fence \in [Fences -> {"reset", "pending", "engine", "signaled"}]
  BY QueueTypes, ThreadNames DEF TypeInv
<1>v. /\ G' = G /\ T' = T /\ Slot' = Slot /\ pc'[Drawer] = "acquire" /\ pc'[Loader] = pc[Loader]
      /\ ~InCall(Drawer) /\ ~InCall(Drawer)' /\ InCall(Loader)' = InCall(Loader)
      /\ ~FrameCall /\ ~FrameCall' /\ ~PresentCall /\ ~PresentCall'
      /\ ~Open /\ ~Open' /\ ~Taking /\ ~Taking'
  BY <1>s, <1>t DEF FrameIsDone, Slot, G, T, InCall, FrameCall, PresentCall, Open, Taking
<1>u. /\ fence'[FrameFence(Slot)] = "reset" /\ \A f \in Fences \ {FrameFence(Slot)} : fence'[f] = fence[f]
      /\ ~submitted'[FrameFence(Slot)] /\ \A f \in Fences \ {FrameFence(Slot)} : submitted'[f] = submitted[f]
  BY <1>s, <1>t, FenceNames, SemNames DEF FrameIsDone
<1>1. TypeInv'
  BY <1>v, <1>u, <1>t, FenceNames, SemNames, <1>s, Numbers DEF TypeInv, DrawerLabels, LoaderLabels, FrameIsDone
<1>2. LockInv'
  BY <1>v, <1>u, <1>t, ThreadNames, <1>s DEF LockInv, FrameIsDone
<1>3. CallInv'
  BY <1>v, <1>u, <1>t, ThreadNames, <1>s DEF CallInv, FrameIsDone
<1>4. FenceInv'
  BY <1>v, <1>u, <1>t, FenceNames, <1>s DEF FenceInv, InUse, FrameIsDone
<1>5. QueueInv'
  BY <1>v, <1>u, <1>t, EntriesStay, FenceNames, SemNames, <1>s DEF QueueInv, FrameIsDone
<1>6. RenderedInv'
  BY <1>v, <1>u, <1>t, SemNames, <1>s DEF RenderedInv, RenderedAt, FrameIsDone
<1>7. AcquiredInv'
  BY <1>v, <1>u, <1>t, SemNames, <1>s DEF AcquiredInv, AcquiredAt, Waited, FrameIsDone
<1>8. UploadedInv'
  BY <1>v, <1>u, <1>t, SemNames, <1>s, EntryFields DEF UploadedInv, Waited, FrameIsDone
<1> QED
  BY <1>1, <1>2, <1>3, <1>4, <1>5, <1>6, <1>7, <1>8

LEMMA OutOfDateKeeps ==
  ASSUME SyncInv, OutOfDate
  PROVE  SyncInv'
<1> USE DEF SyncInv
<1>s. OutOfDate
  OBVIOUS
<1>t. /\ pc \in [Threads -> DrawerLabels \cup LoaderLabels] /\ call \in [Threads -> Call]
      /\ G \in Seq(Call) /\ T \in Seq(Call) /\ Len(G) \in Nat /\ Len(T) \in Nat /\ frame \in Nat
      /\ Slot \in 0 .. Slots - 1 /\ Slot # None /\ Drawer # Loader /\ Threads = {Drawer, Loader}
      /\ \A i \in 0 .. Slots - 1 : i # None
      /\ signaled \in [Sems -> BOOLEAN] /\ submitted \in [Fences -> BOOLEAN]
      /\ payload \in [Sems -> {"idle", "engine", "signaled"}]
      /\ fence \in [Fences -> {"reset", "pending", "engine", "signaled"}]
  BY QueueTypes, ThreadNames DEF TypeInv
<1>v. /\ G' = G /\ T' = T /\ Slot' = Slot /\ pc'[Drawer] = "recreate" /\ pc'[Loader] = pc[Loader]
      /\ ~InCall(Drawer) /\ ~InCall(Drawer)' /\ InCall(Loader)' = InCall(Loader)
      /\ ~FrameCall /\ ~FrameCall' /\ ~PresentCall /\ ~PresentCall'
      /\ ~Open /\ ~Open' /\ ~Taking /\ ~Taking'
  BY <1>s, <1>t DEF OutOfDate, Slot, G, T, InCall, FrameCall, PresentCall, Open, Taking
<1>1. TypeInv'
  BY <1>v, <1>t, FenceNames, SemNames, <1>s, Numbers DEF TypeInv, DrawerLabels, LoaderLabels, OutOfDate
<1>2. LockInv'
  BY <1>v, <1>t, ThreadNames, <1>s DEF LockInv, OutOfDate
<1>3. CallInv'
  BY <1>v, <1>t, ThreadNames, <1>s DEF CallInv, OutOfDate
<1>4. FenceInv'
  BY <1>v, <1>t, FenceNames, <1>s DEF FenceInv, InUse, OutOfDate
<1>5. QueueInv'
  BY <1>v, <1>t, EntriesStay, FenceNames, SemNames, <1>s DEF QueueInv, OutOfDate
<1>6. RenderedInv'
  BY <1>v, <1>t, SemNames, <1>s DEF RenderedInv, RenderedAt, OutOfDate
<1>7. AcquiredInv'
  BY <1>v, <1>t, SemNames, <1>s DEF AcquiredInv, AcquiredAt, Waited, OutOfDate
<1>8. UploadedInv'
  BY <1>v, <1>t, SemNames, <1>s DEF UploadedInv, Waited, OutOfDate
<1> QED
  BY <1>1, <1>2, <1>3, <1>4, <1>5, <1>6, <1>7, <1>8

LEMMA ImageIsThereKeeps ==
  ASSUME SyncInv, ImageIsThere
  PROVE  SyncInv'
<1> USE DEF SyncInv
<1>s. ImageIsThere
  OBVIOUS
<1>t. /\ pc \in [Threads -> DrawerLabels \cup LoaderLabels] /\ call \in [Threads -> Call]
      /\ G \in Seq(Call) /\ T \in Seq(Call) /\ Len(G) \in Nat /\ Len(T) \in Nat /\ frame \in Nat
      /\ Slot \in 0 .. Slots - 1 /\ Slot # None /\ Drawer # Loader /\ Threads = {Drawer, Loader}
      /\ \A i \in 0 .. Slots - 1 : i # None
      /\ signaled \in [Sems -> BOOLEAN] /\ submitted \in [Fences -> BOOLEAN]
      /\ payload \in [Sems -> {"idle", "engine", "signaled"}]
      /\ fence \in [Fences -> {"reset", "pending", "engine", "signaled"}]
  BY QueueTypes, ThreadNames DEF TypeInv
<1>v. /\ G' = G /\ T' = T /\ Slot' = Slot /\ pc'[Drawer] = "record" /\ pc'[Loader] = pc[Loader]
      /\ ~InCall(Drawer) /\ ~InCall(Drawer)' /\ InCall(Loader)' = InCall(Loader)
      /\ ~FrameCall /\ ~FrameCall' /\ ~PresentCall /\ ~PresentCall'
      /\ ~Open /\ ~Open' /\ ~Taking /\ ~Taking'
  BY <1>s, <1>t DEF ImageIsThere, Slot, G, T, InCall, FrameCall, PresentCall, Open, Taking
<1>u. /\ fence'[AcquireFence] = "reset" /\ \A f \in Fences \ {AcquireFence} : fence'[f] = fence[f]
      /\ ~submitted'[AcquireFence] /\ \A f \in Fences \ {AcquireFence} : submitted'[f] = submitted[f]
  BY <1>s, <1>t, FenceNames, SemNames DEF ImageIsThere
<1>1. TypeInv'
  BY <1>v, <1>u, <1>t, FenceNames, SemNames, <1>s, Numbers DEF TypeInv, DrawerLabels, LoaderLabels, ImageIsThere
<1>2. LockInv'
  BY <1>v, <1>u, <1>t, ThreadNames, <1>s DEF LockInv, ImageIsThere
<1>3. CallInv'
  BY <1>v, <1>u, <1>t, ThreadNames, <1>s DEF CallInv, ImageIsThere
<1>4. FenceInv'
  BY <1>v, <1>u, <1>t, FenceNames, <1>s DEF FenceInv, InUse, ImageIsThere
<1>5. QueueInv'
  BY <1>v, <1>u, <1>t, EntriesStay, FenceNames, SemNames, <1>s DEF QueueInv, ImageIsThere
<1>6. RenderedInv'
  BY <1>v, <1>u, <1>t, SemNames, <1>s DEF RenderedInv, RenderedAt, ImageIsThere
<1>7. AcquiredInv'
  BY <1>v, <1>u, <1>t, SemNames, <1>s DEF AcquiredInv, AcquiredAt, Waited, ImageIsThere
<1>8. UploadedInv'
  BY <1>v, <1>u, <1>t, SemNames, <1>s DEF UploadedInv, Waited, ImageIsThere
<1> QED
  BY <1>1, <1>2, <1>3, <1>4, <1>5, <1>6, <1>7, <1>8

LEMMA AcquireWithSemaphoreKeeps ==
  ASSUME SyncInv, AcquireWithSemaphore
  PROVE  SyncInv'
<1> USE DEF SyncInv
<1>s. AcquireWithSemaphore
  OBVIOUS
<1>t. /\ pc \in [Threads -> DrawerLabels \cup LoaderLabels] /\ call \in [Threads -> Call]
      /\ G \in Seq(Call) /\ T \in Seq(Call) /\ Len(G) \in Nat /\ Len(T) \in Nat /\ frame \in Nat
      /\ Slot \in 0 .. Slots - 1 /\ Slot # None /\ Drawer # Loader /\ Threads = {Drawer, Loader}
      /\ \A i \in 0 .. Slots - 1 : i # None
      /\ signaled \in [Sems -> BOOLEAN] /\ submitted \in [Fences -> BOOLEAN]
      /\ payload \in [Sems -> {"idle", "engine", "signaled"}]
      /\ fence \in [Fences -> {"reset", "pending", "engine", "signaled"}]
  BY QueueTypes, ThreadNames DEF TypeInv
<1>v. /\ G' = G /\ T' = T /\ Slot' = Slot /\ pc'[Drawer] = "record" /\ pc'[Loader] = pc[Loader]
      /\ ~InCall(Drawer) /\ ~InCall(Drawer)' /\ InCall(Loader)' = InCall(Loader)
      /\ ~FrameCall /\ ~FrameCall' /\ ~PresentCall /\ ~PresentCall'
      /\ ~Open /\ ~Open' /\ ~Taking /\ ~Taking'
  BY <1>s, <1>t DEF AcquireWithSemaphore, Goto, appVars, Slot, G, T, InCall, FrameCall, PresentCall, Open, Taking
<1>u. /\ signaled'[Acquired(Slot)] /\ \A s \in Sems \ {Acquired(Slot)} : signaled'[s] = signaled[s]
      /\ payload'[Acquired(Slot)] = "engine" /\ \A s \in Sems \ {Acquired(Slot)} : payload'[s] = payload[s]
  BY <1>s, <1>t, FenceNames, SemNames DEF AcquireWithSemaphore, Goto, appVars
<1>1. TypeInv'
  BY <1>v, <1>u, <1>t, FenceNames, SemNames, <1>s, Numbers DEF TypeInv, DrawerLabels, LoaderLabels, AcquireWithSemaphore, Goto, appVars
<1>2. LockInv'
  BY <1>v, <1>u, <1>t, ThreadNames, <1>s DEF LockInv, AcquireWithSemaphore, Goto, appVars
<1>3. CallInv'
  BY <1>v, <1>u, <1>t, ThreadNames, <1>s DEF CallInv, AcquireWithSemaphore, Goto, appVars
<1>4. FenceInv'
  BY <1>v, <1>u, <1>t, FenceNames, <1>s DEF FenceInv, InUse, AcquireWithSemaphore, Goto, appVars
<1>5. QueueInv'
  BY <1>v, <1>u, <1>t, EntriesStay, FenceNames, SemNames, <1>s DEF QueueInv, AcquireWithSemaphore, Goto, appVars
<1>6. RenderedInv'
  BY <1>v, <1>u, <1>t, SemNames, <1>s DEF RenderedInv, RenderedAt, AcquireWithSemaphore, Goto, appVars
<1>7. AcquiredInv'
  BY <1>v, <1>u, <1>t, SemNames, <1>s DEF AcquiredInv, AcquiredAt, Waited, AcquireWithSemaphore, Goto, appVars
<1>8. UploadedInv'
  BY <1>v, <1>u, <1>t, SemNames, <1>s DEF UploadedInv, Waited, AcquireWithSemaphore, Goto, appVars
<1> QED
  BY <1>1, <1>2, <1>3, <1>4, <1>5, <1>6, <1>7, <1>8

LEMMA AcquireWithFenceKeeps ==
  ASSUME SyncInv, AcquireWithFence
  PROVE  SyncInv'
<1> USE DEF SyncInv
<1>s. AcquireWithFence
  OBVIOUS
<1>t. /\ pc \in [Threads -> DrawerLabels \cup LoaderLabels] /\ call \in [Threads -> Call]
      /\ G \in Seq(Call) /\ T \in Seq(Call) /\ Len(G) \in Nat /\ Len(T) \in Nat /\ frame \in Nat
      /\ Slot \in 0 .. Slots - 1 /\ Slot # None /\ Drawer # Loader /\ Threads = {Drawer, Loader}
      /\ \A i \in 0 .. Slots - 1 : i # None
      /\ signaled \in [Sems -> BOOLEAN] /\ submitted \in [Fences -> BOOLEAN]
      /\ payload \in [Sems -> {"idle", "engine", "signaled"}]
      /\ fence \in [Fences -> {"reset", "pending", "engine", "signaled"}]
  BY QueueTypes, ThreadNames DEF TypeInv
<1>v. /\ G' = G /\ T' = T /\ Slot' = Slot /\ pc'[Drawer] = "waitimage" /\ pc'[Loader] = pc[Loader]
      /\ ~InCall(Drawer) /\ ~InCall(Drawer)' /\ InCall(Loader)' = InCall(Loader)
      /\ ~FrameCall /\ ~FrameCall' /\ ~PresentCall /\ ~PresentCall'
      /\ ~Open /\ ~Open' /\ ~Taking /\ ~Taking'
  BY <1>s, <1>t DEF AcquireWithFence, Goto, appVars, Slot, G, T, InCall, FrameCall, PresentCall, Open, Taking
<1>u. /\ fence'[AcquireFence] = "engine" /\ \A f \in Fences \ {AcquireFence} : fence'[f] = fence[f]
      /\ submitted'[AcquireFence] /\ \A f \in Fences \ {AcquireFence} : submitted'[f] = submitted[f]
  BY <1>s, <1>t, FenceNames, SemNames DEF AcquireWithFence, Goto, appVars
<1>1. TypeInv'
  BY <1>v, <1>u, <1>t, FenceNames, SemNames, <1>s, Numbers DEF TypeInv, DrawerLabels, LoaderLabels, AcquireWithFence, Goto, appVars
<1>2. LockInv'
  BY <1>v, <1>u, <1>t, ThreadNames, <1>s DEF LockInv, AcquireWithFence, Goto, appVars
<1>3. CallInv'
  BY <1>v, <1>u, <1>t, ThreadNames, <1>s DEF CallInv, AcquireWithFence, Goto, appVars
<1>4. FenceInv'
  BY <1>v, <1>u, <1>t, FenceNames, <1>s DEF FenceInv, InUse, AcquireWithFence, Goto, appVars
<1>5. QueueInv'
  BY <1>v, <1>u, <1>t, EntriesStay, FenceNames, SemNames, <1>s DEF QueueInv, AcquireWithFence, Goto, appVars
<1>6. RenderedInv'
  BY <1>v, <1>u, <1>t, SemNames, <1>s DEF RenderedInv, RenderedAt, AcquireWithFence, Goto, appVars
<1>7. AcquiredInv'
  BY <1>v, <1>u, <1>t, SemNames, <1>s DEF AcquiredInv, AcquiredAt, Waited, AcquireWithFence, Goto, appVars
<1>8. UploadedInv'
  BY <1>v, <1>u, <1>t, SemNames, <1>s DEF UploadedInv, Waited, AcquireWithFence, Goto, appVars
<1> QED
  BY <1>1, <1>2, <1>3, <1>4, <1>5, <1>6, <1>7, <1>8

LEMMA UploadIsDoneKeeps ==
  ASSUME SyncInv, UploadIsDone
  PROVE  SyncInv'
<1> USE DEF SyncInv
<1>s. UploadIsDone
  OBVIOUS
<1>t. /\ pc \in [Threads -> DrawerLabels \cup LoaderLabels] /\ call \in [Threads -> Call]
      /\ G \in Seq(Call) /\ T \in Seq(Call) /\ Len(G) \in Nat /\ Len(T) \in Nat /\ frame \in Nat
      /\ Slot \in 0 .. Slots - 1 /\ Slot # None /\ Drawer # Loader /\ Threads = {Drawer, Loader}
      /\ \A i \in 0 .. Slots - 1 : i # None
      /\ signaled \in [Sems -> BOOLEAN] /\ submitted \in [Fences -> BOOLEAN]
      /\ payload \in [Sems -> {"idle", "engine", "signaled"}]
      /\ fence \in [Fences -> {"reset", "pending", "engine", "signaled"}]
  BY QueueTypes, ThreadNames DEF TypeInv
<1>v. /\ G' = G /\ T' = T /\ Slot' = Slot /\ pc'[Loader] = "idle" /\ pc'[Drawer] = pc[Drawer] /\ call'[Drawer] = call[Drawer]
      /\ InCall(Drawer)' = InCall(Drawer)
      /\ FrameCall' = FrameCall /\ PresentCall' = PresentCall /\ Open' = Open /\ Taking' = Taking
  BY <1>s, <1>t DEF UploadIsDone, Slot, G, T, InCall, FrameCall, PresentCall, Open, Taking
<1>u. /\ fence'[UploadFence] = "reset" /\ \A f \in Fences \ {UploadFence} : fence'[f] = fence[f]
      /\ ~submitted'[UploadFence] /\ \A f \in Fences \ {UploadFence} : submitted'[f] = submitted[f]
  BY <1>s, <1>t, FenceNames, SemNames DEF UploadIsDone
<1>1. TypeInv'
  BY <1>v, <1>u, <1>t, FenceNames, SemNames, <1>s, Numbers DEF TypeInv, DrawerLabels, LoaderLabels, UploadIsDone
<1>2. LockInv'
  BY <1>v, <1>u, <1>t, ThreadNames, <1>s DEF LockInv, UploadIsDone
<1>3. CallInv'
  BY <1>v, <1>u, <1>t, ThreadNames, <1>s DEF CallInv, UploadIsDone, InCall
<1>4. FenceInv'
  BY <1>v, <1>u, <1>t, FenceNames, <1>s DEF FenceInv, InUse, UploadIsDone
<1>5. QueueInv'
  BY <1>v, <1>u, <1>t, EntriesStay, FenceNames, SemNames, <1>s DEF QueueInv, UploadIsDone
<1>6. RenderedInv'
  BY <1>v, <1>u, <1>t, SemNames, <1>s DEF RenderedInv, RenderedAt, UploadIsDone
<1>7. AcquiredInv'
  BY <1>v, <1>u, <1>t, SemNames, <1>s DEF AcquiredInv, AcquiredAt, Waited, UploadIsDone
<1>8. UploadedInv'
  BY <1>v, <1>u, <1>t, SemNames, <1>s DEF UploadedInv, Waited, UploadIsDone
<1> QED
  BY <1>1, <1>2, <1>3, <1>4, <1>5, <1>6, <1>7, <1>8

LEMMA HandOverKeeps ==
  ASSUME SyncInv, HandOver
  PROVE  SyncInv'
<1> USE DEF SyncInv
<1>s. HandOver
  OBVIOUS
<1>t. /\ pc \in [Threads -> DrawerLabels \cup LoaderLabels] /\ call \in [Threads -> Call]
      /\ G \in Seq(Call) /\ T \in Seq(Call) /\ Len(G) \in Nat /\ Len(T) \in Nat /\ frame \in Nat
      /\ Slot \in 0 .. Slots - 1 /\ Slot # None /\ Drawer # Loader /\ Threads = {Drawer, Loader}
      /\ \A i \in 0 .. Slots - 1 : i # None
      /\ signaled \in [Sems -> BOOLEAN] /\ submitted \in [Fences -> BOOLEAN]
      /\ payload \in [Sems -> {"idle", "engine", "signaled"}]
      /\ fence \in [Fences -> {"reset", "pending", "engine", "signaled"}]
  BY QueueTypes, ThreadNames DEF TypeInv
<1>v. /\ G' = G /\ T' = T /\ Slot' = Slot /\ pc'[Loader] = "wait" /\ pc'[Drawer] = pc[Drawer] /\ call'[Drawer] = call[Drawer]
      /\ InCall(Drawer)' = InCall(Drawer)
      /\ FrameCall' = FrameCall /\ PresentCall' = PresentCall /\ Open' = Open /\ Taking' = Taking
  BY <1>s, <1>t DEF HandOver, Goto, driverVars, Slot, G, T, InCall, FrameCall, PresentCall, Open, Taking
<1>1. TypeInv'
  BY <1>v, <1>t, FenceNames, SemNames, <1>s, Numbers DEF TypeInv, DrawerLabels, LoaderLabels, HandOver, Goto, driverVars
<1>2. LockInv'
  BY <1>v, <1>t, ThreadNames, <1>s DEF LockInv, HandOver, Goto, driverVars
<1>3. CallInv'
  BY <1>v, <1>t, ThreadNames, <1>s DEF CallInv, HandOver, Goto, InCall
<1>4. FenceInv'
  BY <1>v, <1>t, FenceNames, <1>s DEF FenceInv, InUse, HandOver, Goto, driverVars
<1>5. QueueInv'
  BY <1>v, <1>t, EntriesStay, FenceNames, SemNames, <1>s DEF QueueInv, HandOver, Goto, driverVars
<1>6. RenderedInv'
  BY <1>v, <1>t, SemNames, <1>s DEF RenderedInv, RenderedAt, HandOver, Goto, driverVars
<1>7. AcquiredInv'
  BY <1>v, <1>t, SemNames, <1>s DEF AcquiredInv, AcquiredAt, Waited, HandOver, Goto, driverVars
<1>8. UploadedInv'
  BY <1>v, <1>t, SemNames, <1>s DEF UploadedInv, Waited, HandOver, Goto, driverVars
<1> QED
  BY <1>1, <1>2, <1>3, <1>4, <1>5, <1>6, <1>7, <1>8

LEMMA UploadTakenKeeps ==
  ASSUME SyncInv, UploadTaken
  PROVE  SyncInv'
<1> USE DEF SyncInv
<1>s. UploadTaken
  OBVIOUS
<1>t. /\ pc \in [Threads -> DrawerLabels \cup LoaderLabels] /\ call \in [Threads -> Call]
      /\ G \in Seq(Call) /\ T \in Seq(Call) /\ Len(G) \in Nat /\ Len(T) \in Nat /\ frame \in Nat
      /\ Slot \in 0 .. Slots - 1 /\ Slot # None /\ Drawer # Loader /\ Threads = {Drawer, Loader}
      /\ \A i \in 0 .. Slots - 1 : i # None
      /\ signaled \in [Sems -> BOOLEAN] /\ submitted \in [Fences -> BOOLEAN]
      /\ payload \in [Sems -> {"idle", "engine", "signaled"}]
      /\ fence \in [Fences -> {"reset", "pending", "engine", "signaled"}]
  BY QueueTypes, ThreadNames DEF TypeInv
<1>v. /\ G' = G /\ T' = T /\ Slot' = Slot /\ pc'[Loader] = "lock" /\ pc'[Drawer] = pc[Drawer] /\ call'[Drawer] = call[Drawer]
      /\ InCall(Drawer)' = InCall(Drawer)
      /\ FrameCall' = FrameCall /\ PresentCall' = PresentCall /\ Open' = Open /\ Taking' = Taking
  BY <1>s, <1>t DEF UploadTaken, Slot, G, T, InCall, FrameCall, PresentCall, Open, Taking
<1>u. /\ signaled'[Uploaded] /\ \A s \in Sems \ {Uploaded} : signaled'[s] = signaled[s]
  BY <1>s, <1>t, FenceNames, SemNames DEF UploadTaken
<1>1. TypeInv'
  BY <1>v, <1>u, <1>t, FenceNames, SemNames, <1>s, UploadBatchFields, Numbers DEF TypeInv, DrawerLabels, LoaderLabels, UploadTaken
<1>2. LockInv'
  BY <1>v, <1>u, <1>t, ThreadNames, <1>s DEF LockInv, UploadTaken
<1>3. CallInv'
  BY <1>v, <1>u, <1>t, ThreadNames, <1>s, UploadBatchFields DEF CallInv, UploadTaken, InCall
<1>4. FenceInv'
  BY <1>v, <1>u, <1>t, FenceNames, <1>s DEF FenceInv, InUse, UploadTaken
<1>5. QueueInv'
  BY <1>v, <1>u, <1>t, EntriesStay, FenceNames, SemNames, <1>s DEF QueueInv, UploadTaken
<1>6. RenderedInv'
  BY <1>v, <1>u, <1>t, SemNames, <1>s DEF RenderedInv, RenderedAt, UploadTaken
<1>7. AcquiredInv'
  BY <1>v, <1>u, <1>t, SemNames, <1>s DEF AcquiredInv, AcquiredAt, Waited, UploadTaken
<1>8. UploadedInv'
<2>1. UploadedInv /\ ~handed /\ reader = None /\ pc[Loader] = "idle" /\ uploads' = uploads + 1 /\ ~Taking
  BY <1>s DEF UploadTaken, UploadedInv
<2>2. ASSUME NEW k \in 1 .. Len(G) PROVE Uploaded \notin G[k].waits
  <3>1. Uploaded \in G[k].waits => reader = G[k].cmd
    BY <2>1 DEF UploadedInv, Waited
  <3>2. Uploaded \in G[k].waits => G[k].cmd \in 0 .. Slots - 1
    BY EntryFields, SemNames
  <3> QED
    BY <3>1, <3>2, <2>1, <1>t
<2>5. uploads \in Nat /\ uploadsDone \in Nat
  BY Numbers DEF TypeInv
<2>3. payload[Uploaded] # "signaled" /\ T = <<>> /\ uploads = uploadsDone + Len(T)
  <3>1. payload[Uploaded] # "signaled" /\ T = <<>>
    BY <2>1, <2>2 DEF UploadedInv, Waited
  <3>2. uploads = uploadsDone + Len(T) + (IF pc[Loader] \in {"lock", "enqueue"} THEN 1 ELSE 0)
    BY <2>1 DEF UploadedInv, Waited
  <3> QED
    BY <3>1, <3>2, <2>1, <2>5, <1>t
<2>4. UNCHANGED <<handed, reader, payload, uploadsDone>> /\ pc'[Loader] = "lock"
  BY <1>s, <1>v DEF UploadTaken
<2> QED
  BY <1>v, <1>u, <1>t, <2>1, <2>2, <2>3, <2>4, <2>5 DEF UploadedInv, Waited
<1> QED
  BY <1>1, <1>2, <1>3, <1>4, <1>5, <1>6, <1>7, <1>8

LEMMA UploadSubmittedKeeps ==
  ASSUME SyncInv, UploadSubmitted
  PROVE  SyncInv'
<1> USE DEF SyncInv
<1>s. UploadSubmitted
  OBVIOUS
<1>t. /\ pc \in [Threads -> DrawerLabels \cup LoaderLabels] /\ call \in [Threads -> Call]
      /\ G \in Seq(Call) /\ T \in Seq(Call) /\ Len(G) \in Nat /\ Len(T) \in Nat /\ frame \in Nat
      /\ Slot \in 0 .. Slots - 1 /\ Slot # None /\ Drawer # Loader /\ Threads = {Drawer, Loader}
      /\ \A i \in 0 .. Slots - 1 : i # None
      /\ signaled \in [Sems -> BOOLEAN] /\ submitted \in [Fences -> BOOLEAN]
      /\ payload \in [Sems -> {"idle", "engine", "signaled"}]
      /\ fence \in [Fences -> {"reset", "pending", "engine", "signaled"}]
  BY QueueTypes, ThreadNames DEF TypeInv
<1>v. /\ G' = G /\ T' = T /\ Slot' = Slot /\ pc'[Loader] = "handover" /\ pc'[Drawer] = pc[Drawer] /\ call'[Drawer] = call[Drawer]
      /\ InCall(Drawer)' = InCall(Drawer)
      /\ FrameCall' = FrameCall /\ PresentCall' = PresentCall /\ Open' = Open /\ Taking' = Taking
  BY <1>s, <1>t DEF UploadSubmitted, Slot, G, T, InCall, FrameCall, PresentCall, Open, Taking
<1>u. /\ submitted'[UploadFence] /\ \A f \in Fences \ {UploadFence} : submitted'[f] = submitted[f]
  BY <1>s, <1>t, FenceNames, SemNames DEF UploadSubmitted
<1>1. TypeInv'
  BY <1>v, <1>u, <1>t, FenceNames, SemNames, <1>s, NoCallFields, Numbers DEF TypeInv, DrawerLabels, LoaderLabels, UploadSubmitted
<1>2. LockInv'
  BY <1>v, <1>u, <1>t, ThreadNames, <1>s DEF LockInv, UploadSubmitted
<1>3. CallInv'
  BY <1>v, <1>u, <1>t, ThreadNames, <1>s, NoCallFields DEF CallInv, UploadSubmitted, InCall
<1>4. FenceInv'
  BY <1>v, <1>u, <1>t, FenceNames, <1>s DEF FenceInv, InUse, UploadSubmitted
<1>5. QueueInv'
  BY <1>v, <1>u, <1>t, EntriesStay, FenceNames, SemNames, <1>s DEF QueueInv, UploadSubmitted
<1>6. RenderedInv'
  BY <1>v, <1>u, <1>t, SemNames, <1>s DEF RenderedInv, RenderedAt, UploadSubmitted
<1>7. AcquiredInv'
  BY <1>v, <1>u, <1>t, SemNames, <1>s DEF AcquiredInv, AcquiredAt, Waited, UploadSubmitted
<1>8. UploadedInv'
  BY <1>v, <1>u, <1>t, SemNames, <1>s DEF UploadedInv, Waited, UploadSubmitted
<1> QED
  BY <1>1, <1>2, <1>3, <1>4, <1>5, <1>6, <1>7, <1>8

LEMMA ImageIsFreeKeeps ==
  ASSUME SyncInv, ImageIsFree
  PROVE  SyncInv'
<1> USE DEF SyncInv
<1>s. ImageIsFree
  OBVIOUS
<1>t. /\ pc \in [Threads -> DrawerLabels \cup LoaderLabels] /\ call \in [Threads -> Call]
      /\ G \in Seq(Call) /\ T \in Seq(Call) /\ Len(G) \in Nat /\ Len(T) \in Nat /\ frame \in Nat
      /\ Slot \in 0 .. Slots - 1 /\ Slot # None /\ Drawer # Loader /\ Threads = {Drawer, Loader}
      /\ \A i \in 0 .. Slots - 1 : i # None
      /\ signaled \in [Sems -> BOOLEAN] /\ submitted \in [Fences -> BOOLEAN]
      /\ payload \in [Sems -> {"idle", "engine", "signaled"}]
      /\ fence \in [Fences -> {"reset", "pending", "engine", "signaled"}]
  BY QueueTypes, ThreadNames DEF TypeInv
<1>v. /\ G' = G /\ T' = T /\ Slot' = Slot /\ pc' = pc /\ call' = call /\ InCall(Drawer)' = InCall(Drawer) /\ InCall(Loader)' = InCall(Loader)
      /\ FrameCall' = FrameCall /\ PresentCall' = PresentCall /\ Open' = Open /\ Taking' = Taking
  BY <1>s, <1>t DEF ImageIsFree, Slot, G, T, InCall, FrameCall, PresentCall, Open, Taking
<1>1. TypeInv'
<2>0. TypeInv
  OBVIOUS
<2>1. CASE UNCHANGED payload
  BY <2>0, <2>1, <1>s, <1>t, FenceNames DEF TypeInv, ImageIsFree
<2>2. CASE UNCHANGED fence
  <3>1. payload' \in [Sems -> {"idle", "engine", "signaled"}]
    BY <2>2, <1>s, <1>t, SemNames DEF ImageIsFree
  <3> QED
    BY <2>0, <2>2, <3>1, <1>s DEF TypeInv, ImageIsFree
<2> QED
  BY <2>1, <2>2, <1>s DEF ImageIsFree
<1>2. LockInv'
  BY <1>v, <1>t, ThreadNames, <1>s DEF LockInv, ImageIsFree
<1>3. CallInv'
  BY <1>v, <1>t, ThreadNames, <1>s DEF CallInv, ImageIsFree
<1>4. FenceInv'
<2>1. \A i \in 0 .. Slots - 1 : fence'[FrameFence(i)] = fence[FrameFence(i)]
  BY <1>s, <1>t, FenceNames DEF ImageIsFree
<2>2. /\ fence'[UploadFence] = fence[UploadFence] /\ submitted' = submitted
      /\ fence'[AcquireFence] = fence[AcquireFence]
           \/ (fence[AcquireFence] = "engine" /\ fence'[AcquireFence] = "signaled")
  BY <1>s, <1>t, FenceNames DEF ImageIsFree
<2> QED
  BY <1>v, <1>t, <2>1, <2>2 DEF FenceInv, InUse
<1>5. QueueInv'
  BY <1>v, <1>t, EntriesStay, FenceNames, SemNames, <1>s DEF QueueInv, ImageIsFree
<1>6. RenderedInv'
  BY <1>v, <1>t, SemNames, <1>s DEF RenderedInv, RenderedAt, ImageIsFree
<1>7. AcquiredInv'
  BY <1>v, <1>t, SemNames, <1>s DEF AcquiredInv, AcquiredAt, Waited, ImageIsFree
<1>8. UploadedInv'
  BY <1>v, <1>t, SemNames, <1>s DEF UploadedInv, Waited, ImageIsFree
<1> QED
  BY <1>1, <1>2, <1>3, <1>4, <1>5, <1>6, <1>7, <1>8

LEMMA PresentAppended ==
  ASSUME TypeInv, QueueInv, RenderedInv, Open, G' = Append(G, PresentBatch(Slot)),
         UNCHANGED <<payload, fence>>
  PROVE  \A k \in 1 .. Len(G') : GraphicsEntry(k)'
<1> DEFINE n == Len(G)
<1>1. /\ G \in Seq(Call) /\ n \in Nat /\ Slot \in 0 .. Slots - 1 /\ PresentBatch(Slot) \in Call
      /\ PresentBatch(Slot).cmd = None /\ \A i \in 0 .. Slots - 1 : i # None
  BY QueueTypes, PresentBatchFields
<1>2. /\ Len(G') = n + 1 /\ G'[n + 1] = PresentBatch(Slot)
      /\ \A k \in 1 .. n : G'[k] = G[k]
  BY <1>1, AppendFacts
<1>3. ASSUME NEW k \in {n + 1} PROVE GraphicsEntry(k)'
  <2>1. IF n = 0 THEN payload[Rendered(Slot)] = "signaled" ELSE G[n].signals = {Rendered(Slot)}
    BY <1>1, EmptyFacts DEF RenderedInv, RenderedAt
  <2>2. \E i \in 0 .. Slots - 1 :
          /\ G'[k] = PresentBatch(i)
          /\ IF k = 1 THEN payload'[Rendered(i)] = "signaled" ELSE G'[k - 1].signals = {Rendered(i)}
    BY <1>1, <1>2, <1>3, <2>1
  <2> QED
    BY <2>2 DEF GraphicsEntry
<1>4. ASSUME NEW k \in 1 .. n PROVE GraphicsEntry(k)'
  <2>1. GraphicsEntry(k)
    BY DEF QueueInv
  <2>2. CASE \E i \in 0 .. Slots - 1 :
               /\ G[k] = PresentBatch(i)
               /\ IF k = 1 THEN payload[Rendered(i)] = "signaled" ELSE G[k - 1].signals = {Rendered(i)}
    BY <2>2, <1>1, <1>2 DEF GraphicsEntry
  <2>3. CASE \E i \in 0 .. Slots - 1 :
               /\ FrameBatch(G[k], i) /\ fence[FrameFence(i)] = "pending"
               /\ \A j \in 1 .. Len(G) : G[j].cmd = i => j = k
               /\ G[k].signals # {} =>
                    IF k = Len(G) THEN Open /\ i = Slot ELSE G[k + 1] = PresentBatch(i)
    <3>1. PICK i \in 0 .. Slots - 1 :
               /\ FrameBatch(G[k], i) /\ fence[FrameFence(i)] = "pending"
               /\ \A j \in 1 .. Len(G) : G[j].cmd = i => j = k
               /\ G[k].signals # {} =>
                    IF k = Len(G) THEN Open /\ i = Slot ELSE G[k + 1] = PresentBatch(i)
      BY <2>3
    <3>2. \A j \in 1 .. n + 1 : G'[j].cmd = i => j = k
      <4>1. G'[n + 1].cmd # i
        BY <3>1, <1>1, <1>2
      <4>2. \A j \in 1 .. n : G'[j].cmd = i => j = k
        BY <3>1, <1>2
      <4>3. \A j \in 1 .. n + 1 : j = n + 1 \/ j \in 1 .. n
        BY <1>1
      <4> QED
        BY <4>1, <4>2, <4>3
    <3>3. G'[k].signals # {} => G'[k + 1] = PresentBatch(i) /\ k # n + 1
      BY <3>1, <1>1, <1>2
    <3>4. FrameBatch(G'[k], i) /\ fence'[FrameFence(i)] = "pending"
      BY <3>1, <1>2
    <3> QED
      BY <3>2, <3>3, <3>4, <1>2 DEF GraphicsEntry, FrameBatch
  <2> QED
    BY <2>1, <2>2, <2>3 DEF GraphicsEntry
<1> QED
  BY <1>1, <1>2, <1>3, <1>4

LEMMA FrameAppended ==
  ASSUME TypeInv, QueueInv, ~Open, NEW c \in Call, NEW i \in 0 .. Slots - 1, FrameBatch(c, i),
         c.signals # {} => Open' /\ i = Slot', G' = Append(G, c), UNCHANGED payload,
         fence[FrameFence(i)] # "pending", fence'[FrameFence(i)] = "pending",
         \A j \in 0 .. Slots - 1 : j # i => fence'[FrameFence(j)] = fence[FrameFence(j)]
  PROVE  \A k \in 1 .. Len(G') : GraphicsEntry(k)'
<1> DEFINE n == Len(G)
<1>1. G \in Seq(Call) /\ n \in Nat /\ c.cmd = i /\ \A j \in 0 .. Slots - 1 : j # None
  BY QueueTypes DEF FrameBatch
<1>2. /\ Len(G') = n + 1 /\ G'[n + 1] = c
      /\ \A k \in 1 .. n : G'[k] = G[k]
  BY <1>1, AppendFacts
<1>3. \A k \in 1 .. n : G[k].cmd # i
  BY EntryFields, <1>1
<1>4. ASSUME NEW k \in {n + 1} PROVE GraphicsEntry(k)'
  <2>1. /\ FrameBatch(G'[k], i) /\ fence'[FrameFence(i)] = "pending"
        /\ \A j \in 1 .. Len(G') : G'[j].cmd = i => j = k
        /\ G'[k].signals # {} =>
             IF k = Len(G') THEN Open' /\ i = Slot' ELSE G'[k + 1] = PresentBatch(i)
    BY <1>1, <1>2, <1>3, <1>4
  <2> QED
    BY <2>1 DEF GraphicsEntry, FrameBatch
<1>5. ASSUME NEW k \in 1 .. n PROVE GraphicsEntry(k)'
  <2>1. GraphicsEntry(k)
    BY DEF QueueInv
  <2>2. CASE \E j \in 0 .. Slots - 1 :
               /\ G[k] = PresentBatch(j)
               /\ IF k = 1 THEN payload[Rendered(j)] = "signaled" ELSE G[k - 1].signals = {Rendered(j)}
    BY <2>2, <1>1, <1>2 DEF GraphicsEntry
  <2>3. CASE \E j \in 0 .. Slots - 1 :
               /\ FrameBatch(G[k], j) /\ fence[FrameFence(j)] = "pending"
               /\ \A l \in 1 .. Len(G) : G[l].cmd = j => l = k
               /\ G[k].signals # {} =>
                    IF k = Len(G) THEN Open /\ j = Slot ELSE G[k + 1] = PresentBatch(j)
    <3>1. PICK j \in 0 .. Slots - 1 :
               /\ FrameBatch(G[k], j) /\ fence[FrameFence(j)] = "pending"
               /\ \A l \in 1 .. Len(G) : G[l].cmd = j => l = k
               /\ G[k].signals # {} =>
                    IF k = Len(G) THEN Open /\ j = Slot ELSE G[k + 1] = PresentBatch(j)
      BY <2>3
    <3>2. j # i
      BY <3>1, <1>3 DEF FrameBatch
    <3>3. \A l \in 1 .. n + 1 : G'[l].cmd = j => l = k
      BY <3>1, <3>2, <1>1, <1>2
    <3>4. G'[k].signals # {} => G'[k + 1] = PresentBatch(j) /\ k # n + 1
      BY <3>1, <1>1, <1>2
    <3>5. FrameBatch(G'[k], j) /\ fence'[FrameFence(j)] = "pending"
      BY <3>1, <3>2, <1>2
    <3> QED
      BY <3>3, <3>4, <3>5, <1>2 DEF GraphicsEntry, FrameBatch
  <2> QED
    BY <2>1, <2>2, <2>3 DEF GraphicsEntry
<1> QED
  BY <1>1, <1>2, <1>4, <1>5

\* The first batch leaves the queue.
LEMMA BatchDropped ==
  ASSUME TypeInv, QueueInv, G # <<>>, G' = Tail(G), Open' = Open, Slot' = Slot,
         \A i \in 0 .. Slots - 1 : G[1].signals = {Rendered(i)} => payload'[Rendered(i)] = "signaled",
         \A i \in 0 .. Slots - 1 : G[1].cmd # i => fence'[FrameFence(i)] = fence[FrameFence(i)]
  PROVE  \A k \in 1 .. Len(G') : GraphicsEntry(k)'
<1> DEFINE n == Len(G)
<1>1. /\ G \in Seq(Call) /\ n \in Nat /\ n > 0 /\ Len(G') = n - 1
      /\ \A k \in 1 .. n - 1 : G'[k] = G[k + 1]
  BY QueueTypes, TailFacts
<1>2. SUFFICES ASSUME NEW k \in 1 .. n - 1 PROVE GraphicsEntry(k)'
  BY <1>1
<1>3. GraphicsEntry(k + 1)
  BY <1>1, <1>2 DEF QueueInv
<1>4. CASE \E j \in 0 .. Slots - 1 :
             /\ G[k + 1] = PresentBatch(j)
             /\ IF k + 1 = 1 THEN payload[Rendered(j)] = "signaled" ELSE G[k + 1 - 1].signals = {Rendered(j)}
  <2>1. PICK j \in 0 .. Slots - 1 : G[k + 1] = PresentBatch(j) /\ G[k].signals = {Rendered(j)}
    BY <1>4
  <2>2. /\ G'[k] = PresentBatch(j)
        /\ IF k = 1 THEN payload'[Rendered(j)] = "signaled" ELSE G'[k - 1].signals = {Rendered(j)}
    BY <2>1, <1>1, <1>2
  <2> QED
    BY <2>2 DEF GraphicsEntry
<1>5. CASE \E j \in 0 .. Slots - 1 :
             /\ FrameBatch(G[k + 1], j) /\ fence[FrameFence(j)] = "pending"
             /\ \A l \in 1 .. Len(G) : G[l].cmd = j => l = k + 1
             /\ G[k + 1].signals # {} =>
                  IF k + 1 = Len(G) THEN Open /\ j = Slot ELSE G[k + 1 + 1] = PresentBatch(j)
  <2>1. PICK j \in 0 .. Slots - 1 :
             /\ FrameBatch(G[k + 1], j) /\ fence[FrameFence(j)] = "pending"
             /\ \A l \in 1 .. Len(G) : G[l].cmd = j => l = k + 1
             /\ G[k + 1].signals # {} =>
                  IF k + 1 = Len(G) THEN Open /\ j = Slot ELSE G[k + 1 + 1] = PresentBatch(j)
    BY <1>5
  <2>0. /\ 1 \in 1 .. Len(G) /\ k \in Nat /\ k > 0 /\ k + 1 # 1 /\ k + 1 \in 1 .. Len(G)
        /\ Len(G') = Len(G) - 1 /\ k + 1 = Len(G) <=> k = Len(G')
        /\ \A l \in 1 .. Len(G') : l + 1 \in 1 .. Len(G) /\ G'[l] = G[l + 1]
        /\ k + 1 # Len(G) => k + 1 \in 1 .. Len(G')
    <3>1. k \in Nat /\ k > 0 /\ k <= n - 1 /\ n \in Nat /\ n > 0 /\ Len(G) = n /\ Len(G') = n - 1
      BY <1>1, <1>2
    <3>2. \A l \in 1 .. n - 1 : G'[l] = G[l + 1]
      BY <1>1
    <3> HIDE DEF n
    <3>3. /\ 1 \in 1 .. n /\ k + 1 # 1 /\ k + 1 \in 1 .. n /\ (k + 1 = n <=> k = n - 1)
          /\ \A l \in 1 .. n - 1 : l + 1 \in 1 .. n
          /\ k + 1 # n => k + 1 \in 1 .. n - 1
      BY <3>1
    <3> QED
      BY <3>1, <3>2, <3>3, Zenon
  <2>2. G[1].cmd # j
    BY <2>1, <2>0
  <2>3. FrameBatch(G'[k], j) /\ fence'[FrameFence(j)] = "pending"
    BY <2>1, <2>2, <1>1, <1>2
  <2>4. ASSUME NEW l \in 1 .. Len(G'), G'[l].cmd = j PROVE l = k
    <3>1. l + 1 = k + 1
      BY <2>1, <2>0, <2>4
    <3> QED
      BY <3>1, <1>2
  <2>5. G'[k].signals # {} => IF k = Len(G') THEN Open' /\ j = Slot' ELSE G'[k + 1] = PresentBatch(j)
    BY <2>1, <2>0
  <2> QED
    BY <2>3, <2>4, <2>5 DEF GraphicsEntry, FrameBatch
<1> QED
  BY <1>3, <1>4, <1>5 DEF GraphicsEntry

LEMMA WaitedAppended ==
  ASSUME TypeInv, NEW c \in Call, G' = Append(G, c), NEW s
  PROVE  Waited(s)' <=> Waited(s) \/ s \in c.waits
<1>1. /\ Len(G') = Len(G) + 1 /\ G'[Len(G) + 1] = c /\ Len(G) \in Nat
      /\ \A k \in 1 .. Len(G) : G'[k] = G[k]
  BY QueueTypes, AppendFacts
<1>2. CASE \E k \in 1 .. Len(G) : s \in G[k].waits
  <2>1. PICK k \in 1 .. Len(G) : s \in G[k].waits
    BY <1>2
  <2>2. k \in 1 .. Len(G') /\ s \in G'[k].waits
    BY <1>1, <2>1
  <2> QED
    BY <1>2, <2>2 DEF Waited
<1>3. CASE s \in c.waits
  <2>1. Len(G) + 1 \in 1 .. Len(G') /\ s \in G'[Len(G) + 1].waits
    BY <1>1, <1>3
  <2> QED
    BY <1>3, <2>1 DEF Waited
<1>4. ASSUME NEW k \in 1 .. Len(G'), s \in G'[k].waits
      PROVE  Waited(s) \/ s \in c.waits
  <2>1. k \in 1 .. Len(G) \/ k = Len(G) + 1
    BY <1>1
  <2> QED
    BY <1>1, <1>4, <2>1 DEF Waited
<1> QED
  BY <1>2, <1>3, <1>4 DEF Waited

LEMMA WaitedDropped ==
  ASSUME TypeInv, G # <<>>, G' = Tail(G), NEW s
  PROVE  Waited(s) <=> Waited(s)' \/ s \in G[1].waits
<1>1. /\ Len(G') = Len(G) - 1 /\ Len(G) \in Nat /\ Len(G) > 0
      /\ \A k \in 1 .. Len(G) - 1 : G'[k] = G[k + 1]
  BY QueueTypes, TailFacts
<1>2. ASSUME NEW k \in 1 .. Len(G'), s \in G'[k].waits
      PROVE  Waited(s)
  <2>1. k + 1 \in 1 .. Len(G) /\ s \in G[k + 1].waits
    BY <1>1, <1>2
  <2> QED
    BY <2>1 DEF Waited
<1>3. CASE s \in G[1].waits
  <2>1. 1 \in 1 .. Len(G)
    BY <1>1
  <2> QED
    BY <1>3, <2>1 DEF Waited
<1>4. ASSUME NEW k \in 1 .. Len(G), s \in G[k].waits
      PROVE  Waited(s)' \/ s \in G[1].waits
  <2>1. CASE k = 1
    BY <1>4, <2>1
  <2>2. CASE k # 1
    <3>1. k - 1 \in 1 .. Len(G') /\ G'[k - 1] = G[k - 1 + 1] /\ k - 1 + 1 = k
      BY <1>1, <2>2
    <3>2. s \in G'[k - 1].waits
      BY <1>4, <3>1
    <3> QED
      BY <3>1, <3>2 DEF Waited
  <2> QED
    BY <2>1, <2>2
<1> QED
  BY <1>2, <1>3, <1>4 DEF Waited

LEMMA DrawerLocksKeep ==
  ASSUME SyncInv, LockQueue(Drawer)
  PROVE  SyncInv'
<1> USE DEF SyncInv
<1>s. LockQueue(Drawer)
  OBVIOUS
<1>t. /\ pc \in [Threads -> DrawerLabels \cup LoaderLabels] /\ call \in [Threads -> Call]
      /\ G \in Seq(Call) /\ T \in Seq(Call) /\ Len(G) \in Nat /\ Len(T) \in Nat /\ frame \in Nat
      /\ Slot \in 0 .. Slots - 1 /\ Slot # None /\ Drawer # Loader /\ Threads = {Drawer, Loader}
      /\ \A i \in 0 .. Slots - 1 : i # None
      /\ signaled \in [Sems -> BOOLEAN] /\ submitted \in [Fences -> BOOLEAN]
      /\ payload \in [Sems -> {"idle", "engine", "signaled"}]
      /\ fence \in [Fences -> {"reset", "pending", "engine", "signaled"}]
      /\ queue \in [Queues -> Seq(Call)] /\ Graphics \in Queues /\ Transfer \in Queues /\ Graphics # Transfer
  BY QueueNames,  QueueTypes, ThreadNames DEF TypeInv
<1>v. /\ G' = G /\ T' = T /\ Slot' = Slot /\ pc'[Drawer] = "enqueue" /\ pc'[Loader] = pc[Loader] /\ pc[Drawer] = "lock"
      /\ submitlck = None /\ submitlck' = Drawer /\ call' = call
      /\ InCall(Drawer) /\ InCall(Drawer)' /\ InCall(Loader)' = InCall(Loader)
      /\ FrameCall' = FrameCall /\ PresentCall' = PresentCall /\ Open' = Open /\ Taking' = Taking
  BY <1>s, <1>t DEF LockQueue, Goto, appVars, driverVars, Slot, G, T, InCall, FrameCall, PresentCall, Open, Taking
<1>1. TypeInv'
  BY <1>v, <1>t, FenceNames, SemNames, <1>s, Numbers DEF TypeInv, DrawerLabels, LoaderLabels, LockQueue, Goto, appVars, driverVars
<1>2. LockInv'
  BY <1>v, <1>t, ThreadNames, <1>s DEF LockInv, LockQueue, Goto, appVars, driverVars
<1>3. CallInv'
  BY <1>v, <1>t, ThreadNames, <1>s DEF CallInv, LockQueue, Goto, appVars, driverVars
<1>4. FenceInv'
  BY <1>v, <1>t, FenceNames, <1>s DEF FenceInv, InUse, LockQueue, Goto, appVars, driverVars
<1>5. QueueInv'
  BY <1>v, <1>t, EntriesStay, FenceNames, SemNames, <1>s DEF QueueInv, LockQueue, Goto, appVars, driverVars
<1>6. RenderedInv'
  BY <1>v, <1>t, SemNames, <1>s DEF RenderedInv, RenderedAt, LockQueue, Goto, appVars, driverVars
<1>7. AcquiredInv'
  BY <1>v, <1>t, SemNames, <1>s DEF AcquiredInv, AcquiredAt, Waited, LockQueue, Goto, appVars, driverVars
<1>8. UploadedInv'
  BY <1>v, <1>t, SemNames, <1>s DEF UploadedInv, Waited, LockQueue, Goto, appVars, driverVars
<1> QED
  BY <1>1, <1>2, <1>3, <1>4, <1>5, <1>6, <1>7, <1>8

LEMMA LoaderLocksKeep ==
  ASSUME SyncInv, LockQueue(Loader)
  PROVE  SyncInv'
<1> USE DEF SyncInv
<1>s. LockQueue(Loader)
  OBVIOUS
<1>t. /\ pc \in [Threads -> DrawerLabels \cup LoaderLabels] /\ call \in [Threads -> Call]
      /\ G \in Seq(Call) /\ T \in Seq(Call) /\ Len(G) \in Nat /\ Len(T) \in Nat /\ frame \in Nat
      /\ Slot \in 0 .. Slots - 1 /\ Slot # None /\ Drawer # Loader /\ Threads = {Drawer, Loader}
      /\ \A i \in 0 .. Slots - 1 : i # None
      /\ signaled \in [Sems -> BOOLEAN] /\ submitted \in [Fences -> BOOLEAN]
      /\ payload \in [Sems -> {"idle", "engine", "signaled"}]
      /\ fence \in [Fences -> {"reset", "pending", "engine", "signaled"}]
      /\ queue \in [Queues -> Seq(Call)] /\ Graphics \in Queues /\ Transfer \in Queues /\ Graphics # Transfer
  BY QueueNames,  QueueTypes, ThreadNames DEF TypeInv
<1>v. /\ G' = G /\ T' = T /\ Slot' = Slot /\ pc'[Loader] = "enqueue" /\ pc'[Drawer] = pc[Drawer] /\ pc[Loader] = "lock"
      /\ submitlck = None /\ submitlck' = Loader /\ call' = call
      /\ InCall(Loader) /\ InCall(Loader)' /\ InCall(Drawer)' = InCall(Drawer)
      /\ FrameCall' = FrameCall /\ PresentCall' = PresentCall /\ Open' = Open /\ Taking' = Taking
  BY <1>s, <1>t DEF LockQueue, Goto, appVars, driverVars, Slot, G, T, InCall, FrameCall, PresentCall, Open, Taking
<1>1. TypeInv'
  BY <1>v, <1>t, FenceNames, SemNames, <1>s, Numbers DEF TypeInv, DrawerLabels, LoaderLabels, LockQueue, Goto, appVars, driverVars
<1>2. LockInv'
  BY <1>v, <1>t, ThreadNames, <1>s DEF LockInv, LockQueue, Goto, appVars, driverVars
<1>3. CallInv'
  BY <1>v, <1>t, ThreadNames, <1>s DEF CallInv, LockQueue, Goto, appVars, driverVars
<1>4. FenceInv'
  BY <1>v, <1>t, FenceNames, <1>s DEF FenceInv, InUse, LockQueue, Goto, appVars, driverVars
<1>5. QueueInv'
  BY <1>v, <1>t, EntriesStay, FenceNames, SemNames, <1>s DEF QueueInv, LockQueue, Goto, appVars, driverVars
<1>6. RenderedInv'
  BY <1>v, <1>t, SemNames, <1>s DEF RenderedInv, RenderedAt, LockQueue, Goto, appVars, driverVars
<1>7. AcquiredInv'
  BY <1>v, <1>t, SemNames, <1>s DEF AcquiredInv, AcquiredAt, Waited, LockQueue, Goto, appVars, driverVars
<1>8. UploadedInv'
  BY <1>v, <1>t, SemNames, <1>s DEF UploadedInv, Waited, LockQueue, Goto, appVars, driverVars
<1> QED
  BY <1>1, <1>2, <1>3, <1>4, <1>5, <1>6, <1>7, <1>8

LEMMA PresentTakenKeeps ==
  ASSUME SyncInv, PresentTaken
  PROVE  SyncInv'
<1> USE DEF SyncInv
<1>s. PresentTaken
  OBVIOUS
<1>t. /\ pc \in [Threads -> DrawerLabels \cup LoaderLabels] /\ call \in [Threads -> Call]
      /\ G \in Seq(Call) /\ T \in Seq(Call) /\ Len(G) \in Nat /\ Len(T) \in Nat /\ frame \in Nat
      /\ Slot \in 0 .. Slots - 1 /\ Slot # None /\ Drawer # Loader /\ Threads = {Drawer, Loader}
      /\ \A i \in 0 .. Slots - 1 : i # None
      /\ signaled \in [Sems -> BOOLEAN] /\ submitted \in [Fences -> BOOLEAN]
      /\ payload \in [Sems -> {"idle", "engine", "signaled"}]
      /\ fence \in [Fences -> {"reset", "pending", "engine", "signaled"}]
      /\ queue \in [Queues -> Seq(Call)] /\ Graphics \in Queues /\ Transfer \in Queues /\ Graphics # Transfer
  BY QueueNames,  QueueTypes, ThreadNames DEF TypeInv
<1>v. /\ G' = G /\ T' = T /\ Slot' = Slot /\ pc'[Drawer] = "lock" /\ pc'[Loader] = pc[Loader] /\ call'[Drawer] = PresentBatch(Slot) /\ call'[Loader] = call[Loader]
      /\ ~InCall(Drawer) /\ InCall(Drawer)' /\ InCall(Loader)' = InCall(Loader)
      /\ ~FrameCall /\ ~PresentCall /\ ~FrameCall' /\ PresentCall' /\ Open /\ Open' /\ ~Taking /\ ~Taking'
      /\ PresentBatch(Slot)' = PresentBatch(Slot) /\ PresentBatch(Slot) \in Call /\ PresentBatch(Slot).waits = {Rendered(Slot)}
  BY <1>s, <1>t, PresentBatchFields DEF PresentTaken, Slot, G, T, InCall, FrameCall, PresentCall, Open, Taking
<1>u. /\ ~signaled'[Rendered(Slot)] /\ \A s \in Sems \ {Rendered(Slot)} : signaled'[s] = signaled[s]
  BY <1>s, <1>t, FenceNames, SemNames DEF PresentTaken
<1>1. TypeInv'
  BY <1>v, <1>u, <1>t, FenceNames, SemNames, <1>s, Numbers DEF TypeInv, DrawerLabels, LoaderLabels, PresentTaken
<1>2. LockInv'
  BY <1>v, <1>u, <1>t, ThreadNames, <1>s DEF LockInv, PresentTaken
<1>3. CallInv'
  BY <1>v, <1>u, <1>t, ThreadNames, <1>s DEF CallInv, PresentTaken
<1>4. FenceInv'
  BY <1>v, <1>u, <1>t, FenceNames, <1>s DEF FenceInv, InUse, PresentTaken
<1>5. QueueInv'
  BY <1>v, <1>u, <1>t, EntriesStay, FenceNames, SemNames, <1>s DEF QueueInv, PresentTaken
<1>6. RenderedInv'
  BY <1>v, <1>u, <1>t, SemNames, <1>s DEF RenderedInv, RenderedAt, PresentTaken
<1>7. AcquiredInv'
<2>1. \A i \in 0 .. Slots - 1 :
        /\ Acquired(i) \notin call'[Drawer].waits
        /\ signaled'[Acquired(i)] = signaled[Acquired(i)]
  BY <1>v, <1>u, <1>t, SemNames
<2>2. pc[Drawer] = "present" /\ UNCHANGED payload
  BY <1>s DEF PresentTaken
<2> QED
  BY <1>v, <1>t, <2>1, <2>2 DEF AcquiredInv, AcquiredAt, Waited
<1>8. UploadedInv'
<2>1. /\ signaled'[Uploaded] = signaled[Uploaded] /\ pc[Drawer] = "present" /\ pc'[Drawer] = "lock"
      /\ UNCHANGED <<handed, reader, uploads, uploadsDone, payload>>
  BY <1>u, SemNames, <1>s, <1>v, <1>t DEF PresentTaken
<2>2. Waited(Uploaded)' = Waited(Uploaded)
  BY <1>v DEF Waited
<2> QED
  BY <1>v, <2>1, <2>2 DEF UploadedInv
<1> QED
  BY <1>1, <1>2, <1>3, <1>4, <1>5, <1>6, <1>7, <1>8

LEMMA UploadEnqueuedKeeps ==
  ASSUME SyncInv, UploadEnqueued
  PROVE  SyncInv'
<1> USE DEF SyncInv
<1>s. UploadEnqueued
  OBVIOUS
<1>t. /\ pc \in [Threads -> DrawerLabels \cup LoaderLabels] /\ call \in [Threads -> Call]
      /\ G \in Seq(Call) /\ T \in Seq(Call) /\ Len(G) \in Nat /\ Len(T) \in Nat /\ frame \in Nat
      /\ Slot \in 0 .. Slots - 1 /\ Slot # None /\ Drawer # Loader /\ Threads = {Drawer, Loader}
      /\ \A i \in 0 .. Slots - 1 : i # None
      /\ signaled \in [Sems -> BOOLEAN] /\ submitted \in [Fences -> BOOLEAN]
      /\ payload \in [Sems -> {"idle", "engine", "signaled"}]
      /\ fence \in [Fences -> {"reset", "pending", "engine", "signaled"}]
      /\ queue \in [Queues -> Seq(Call)] /\ Graphics \in Queues /\ Transfer \in Queues /\ Graphics # Transfer
  BY QueueNames,  QueueTypes, ThreadNames DEF TypeInv
<1>v. /\ G' = G /\ T' = Append(T, UploadBatch) /\ Slot' = Slot /\ pc'[Loader] = "unlock" /\ pc'[Drawer] = pc[Drawer]
      /\ call' = call /\ InCall(Drawer)' = InCall(Drawer) /\ InCall(Loader) /\ InCall(Loader)'
      /\ FrameCall' = FrameCall /\ PresentCall' = PresentCall /\ Open' = Open /\ Taking' = Taking
  BY <1>s, <1>t, AppendFacts, UploadBatchFields DEF UploadEnqueued, Slot, G, T, InCall, FrameCall, PresentCall, Open, Taking
<1>u. /\ fence'[UploadFence] = "pending" /\ \A f \in Fences \ {UploadFence} : fence'[f] = fence[f]
  BY <1>s, <1>t, FenceNames, SemNames DEF UploadEnqueued
<1>1. TypeInv'
  BY <1>v, <1>u, <1>t, FenceNames, SemNames, <1>s, UploadBatchFields, AppendFacts, Numbers DEF TypeInv, DrawerLabels, LoaderLabels, UploadEnqueued
<1>2. LockInv'
  BY <1>v, <1>u, <1>t, ThreadNames, <1>s DEF LockInv, UploadEnqueued
<1>3. CallInv'
  BY <1>v, <1>u, <1>t, ThreadNames, <1>s DEF CallInv, UploadEnqueued
<1>4. FenceInv'
<2>1. /\ \A i \in 0 .. Slots - 1 : fence'[FrameFence(i)] = fence[FrameFence(i)]
      /\ fence'[AcquireFence] = fence[AcquireFence] /\ submitted' = submitted
  BY <1>s, <1>u, FenceNames DEF UploadEnqueued
<2>2. pc[Loader] = "enqueue"
  BY <1>s DEF UploadEnqueued
<2> QED
  BY <1>v, <1>u, <1>t, <2>1, <2>2 DEF FenceInv, InUse
<1>5. QueueInv'
  BY <1>v, <1>u, <1>t, EntriesStay, FenceNames, SemNames, <1>s, EntriesStay, UploadBatchFields, AppendFacts DEF QueueInv, UploadEnqueued, UploadedInv, FenceInv, InUse
<1>6. RenderedInv'
  BY <1>v, <1>u, <1>t, SemNames, <1>s DEF RenderedInv, RenderedAt, UploadEnqueued
<1>7. AcquiredInv'
  BY <1>v, <1>u, <1>t, SemNames, <1>s DEF AcquiredInv, AcquiredAt, Waited, UploadEnqueued
<1>8. UploadedInv'
<2>1. /\ pc[Loader] = "enqueue" /\ ~handed /\ reader = None /\ ~Taking
      /\ UNCHANGED <<handed, reader, payload, uploads, uploadsDone, signaled>>
  BY <1>s DEF UploadEnqueued, UploadedInv
<2>2. ASSUME NEW k \in 1 .. Len(G) PROVE Uploaded \notin G[k].waits
  <3>1. Uploaded \in G[k].waits => reader = G[k].cmd
    BY <2>1 DEF UploadedInv, Waited
  <3>2. Uploaded \in G[k].waits => G[k].cmd \in 0 .. Slots - 1
    BY EntryFields, SemNames
  <3> QED
    BY <3>1, <3>2, <2>1, <1>t
<2>3. payload[Uploaded] # "signaled"
  BY <2>1, <2>2 DEF UploadedInv, Waited
<2>4. T' # <<>> /\ Len(T') = Len(T) + 1
  BY <1>v, <1>t, AppendFacts, UploadBatchFields
<2>5. uploads = uploadsDone + Len(T) + 1
  BY <2>1 DEF UploadedInv, Waited
<2>6. uploads' = uploadsDone' + Len(T') + (IF pc'[Loader] \in {"lock", "enqueue"} THEN 1 ELSE 0)
  <3>1. uploads \in Nat /\ uploadsDone \in Nat
    BY Numbers DEF TypeInv
  <3> QED
    BY <3>1, <2>1, <2>4, <2>5, <1>v, <1>t
<2>7. uploads > 0
  BY <2>1 DEF UploadedInv, Waited
<2> QED
  BY <1>v, <2>1, <2>2, <2>3, <2>4, <2>6, <2>7 DEF UploadedInv, Waited
<1> QED
  BY <1>1, <1>2, <1>3, <1>4, <1>5, <1>6, <1>7, <1>8

LEMMA FrameSubmittedKeeps ==
  ASSUME SyncInv, FrameSubmitted
  PROVE  SyncInv'
<1> USE DEF SyncInv
<1>s. FrameSubmitted
  OBVIOUS
<1>t. /\ pc \in [Threads -> DrawerLabels \cup LoaderLabels] /\ call \in [Threads -> Call]
      /\ G \in Seq(Call) /\ T \in Seq(Call) /\ Len(G) \in Nat /\ Len(T) \in Nat /\ frame \in Nat
      /\ Slot \in 0 .. Slots - 1 /\ Slot # None /\ Drawer # Loader /\ Threads = {Drawer, Loader}
      /\ \A i \in 0 .. Slots - 1 : i # None
      /\ signaled \in [Sems -> BOOLEAN] /\ submitted \in [Fences -> BOOLEAN]
      /\ payload \in [Sems -> {"idle", "engine", "signaled"}]
      /\ fence \in [Fences -> {"reset", "pending", "engine", "signaled"}]
      /\ queue \in [Queues -> Seq(Call)] /\ Graphics \in Queues /\ Transfer \in Queues /\ Graphics # Transfer
  BY QueueNames,  QueueTypes, ThreadNames DEF TypeInv
<1>v. /\ G' = G /\ T' = T /\ Slot' = Slot /\ pc'[Drawer] = "present" /\ pc'[Loader] = pc[Loader] /\ call'[Drawer] = NoCall /\ call'[Loader] = call[Loader]
      /\ InCall(Drawer) /\ ~InCall(Drawer)' /\ InCall(Loader)' = InCall(Loader)
      /\ FrameCall /\ ~PresentCall /\ ~FrameCall' /\ ~PresentCall' /\ Open /\ Open' /\ ~Taking'
  BY <1>s, <1>t DEF FrameSubmitted, Slot, G, T, InCall, FrameCall, PresentCall, Open, Taking
<1>u. /\ submitted'[FrameFence(Slot)] /\ \A f \in Fences \ {FrameFence(Slot)} : submitted'[f] = submitted[f]
  BY <1>s, <1>t, FenceNames, SemNames DEF FrameSubmitted
<1>1. TypeInv'
  BY <1>v, <1>u, <1>t, FenceNames, SemNames, <1>s, NoCallFields, Numbers DEF TypeInv, DrawerLabels, LoaderLabels, FrameSubmitted
<1>2. LockInv'
  BY <1>v, <1>u, <1>t, ThreadNames, <1>s DEF LockInv, FrameSubmitted
<1>3. CallInv'
  BY <1>v, <1>u, <1>t, ThreadNames, <1>s DEF CallInv, FrameSubmitted
<1>4. FenceInv'
  BY <1>v, <1>u, <1>t, FenceNames, <1>s DEF FenceInv, InUse, FrameSubmitted
<1>5. QueueInv'
  BY <1>v, <1>u, <1>t, EntriesStay, FenceNames, SemNames, <1>s DEF QueueInv, FrameSubmitted
<1>6. RenderedInv'
  BY <1>v, <1>u, <1>t, SemNames, <1>s DEF RenderedInv, RenderedAt, FrameSubmitted
<1>7. AcquiredInv'
  BY <1>v, <1>u, <1>t, SemNames, <1>s DEF AcquiredInv, AcquiredAt, Waited, FrameSubmitted
<1>8. UploadedInv'
<2>1. /\ pc[Drawer] = "unlock" /\ handed' = (handed /\ ~Taking) /\ reader' = (IF Taking THEN Slot ELSE reader)
      /\ UNCHANGED <<payload, uploads, uploadsDone, signaled>>
  BY <1>s DEF FrameSubmitted
<2>2. CASE ~Taking
  BY <1>v, <2>1, <2>2 DEF UploadedInv, Waited
<2>3. CASE Taking
  <3>1. /\ handed /\ call[Drawer].needs = uploads /\ ~handed' /\ reader' = Slot /\ reader = None
        /\ pc[Loader] \notin {"lock", "enqueue", "unlock", "handover"}
    BY <2>1, <2>3 DEF UploadedInv, Waited
  <3>2. ASSUME NEW k \in 1 .. Len(G), Uploaded \in G[k].waits PROVE G[k].cmd = Slot /\ G[k].needs = uploads
    <4>1. reader = G[k].cmd \/ G[k].cmd = Slot
      BY <3>2 DEF UploadedInv, Waited
    <4>2. G[k].cmd \in 0 .. Slots - 1
      BY <3>2, EntryFields, SemNames
    <4> QED
      BY <4>1, <4>2, <3>1, <3>2, <1>t DEF UploadedInv, Waited
  <3>3. payload[Uploaded] = "signaled" \/ T # <<>> <=> \E k \in 1 .. Len(G) : Uploaded \in G[k].waits
    BY <3>1, <2>1, <2>3 DEF UploadedInv, Waited
  <3>4. /\ ~signaled[Uploaded] /\ payload[Uploaded] # "engine" /\ ~(payload[Uploaded] = "signaled" /\ T # <<>>)
        /\ uploads = uploadsDone + Len(T) + (IF pc[Loader] \in {"lock", "enqueue"} THEN 1 ELSE 0)
        /\ uploads > 0
    BY <3>1, <2>3 DEF UploadedInv, Waited
  <3> QED
    BY <1>v, <2>1, <2>3, <3>1, <3>2, <3>3, <3>4 DEF UploadedInv, Waited
<2> QED
  BY <2>2, <2>3
<1> QED
  BY <1>1, <1>2, <1>3, <1>4, <1>5, <1>6, <1>7, <1>8

LEMMA FramePresentedKeeps ==
  ASSUME SyncInv, FramePresented
  PROVE  SyncInv'
<1> USE DEF SyncInv
<1>s. FramePresented
  OBVIOUS
<1>t. /\ pc \in [Threads -> DrawerLabels \cup LoaderLabels] /\ call \in [Threads -> Call]
      /\ G \in Seq(Call) /\ T \in Seq(Call) /\ Len(G) \in Nat /\ Len(T) \in Nat /\ frame \in Nat
      /\ Slot \in 0 .. Slots - 1 /\ Slot # None /\ Drawer # Loader /\ Threads = {Drawer, Loader}
      /\ \A i \in 0 .. Slots - 1 : i # None
      /\ signaled \in [Sems -> BOOLEAN] /\ submitted \in [Fences -> BOOLEAN]
      /\ payload \in [Sems -> {"idle", "engine", "signaled"}]
      /\ fence \in [Fences -> {"reset", "pending", "engine", "signaled"}]
      /\ queue \in [Queues -> Seq(Call)] /\ Graphics \in Queues /\ Transfer \in Queues /\ Graphics # Transfer
  BY QueueNames,  QueueTypes, ThreadNames DEF TypeInv
<1>v. /\ G' = G /\ T' = T /\ pc'[Drawer] = "poll" /\ pc'[Loader] = pc[Loader] /\ call'[Drawer] = NoCall /\ call'[Loader] = call[Loader]
      /\ InCall(Drawer) /\ ~InCall(Drawer)' /\ InCall(Loader)' = InCall(Loader)
      /\ ~FrameCall /\ PresentCall /\ ~FrameCall' /\ ~PresentCall' /\ ~Open /\ ~Open' /\ ~Taking /\ ~Taking'
  BY <1>s, <1>t DEF FramePresented, Slot, G, T, InCall, FrameCall, PresentCall, Open, Taking
<1>1. TypeInv'
  BY <1>v, <1>t, FenceNames, SemNames, <1>s, NoCallFields, Numbers DEF TypeInv, DrawerLabels, LoaderLabels, FramePresented
<1>2. LockInv'
  BY <1>v, <1>t, ThreadNames, <1>s DEF LockInv, FramePresented
<1>3. CallInv'
  BY <1>v, <1>t, ThreadNames, <1>s DEF CallInv, FramePresented
<1>4. FenceInv'
  BY <1>v, <1>t, FenceNames, <1>s DEF FenceInv, InUse, FramePresented
<1>5. QueueInv'
  BY <1>v, <1>t, EntriesStay, FenceNames, SemNames, <1>s DEF QueueInv, FramePresented
<1>6. RenderedInv'
  BY <1>v, <1>t, SemNames, <1>s DEF RenderedInv, RenderedAt, FramePresented
<1>7. AcquiredInv'
  BY <1>v, <1>t, SemNames, <1>s DEF AcquiredInv, AcquiredAt, Waited, FramePresented
<1>8. UploadedInv'
  BY <1>v, <1>t, SemNames, <1>s DEF UploadedInv, Waited, FramePresented
<1> QED
  BY <1>1, <1>2, <1>3, <1>4, <1>5, <1>6, <1>7, <1>8

LEMMA UploadExecutedKeeps ==
  ASSUME SyncInv, UploadExecuted
  PROVE  SyncInv'
<1> USE DEF SyncInv
<1>s. UploadExecuted
  OBVIOUS
<1>t. /\ pc \in [Threads -> DrawerLabels \cup LoaderLabels] /\ call \in [Threads -> Call]
      /\ G \in Seq(Call) /\ T \in Seq(Call) /\ Len(G) \in Nat /\ Len(T) \in Nat /\ frame \in Nat
      /\ Slot \in 0 .. Slots - 1 /\ Slot # None /\ Drawer # Loader /\ Threads = {Drawer, Loader}
      /\ \A i \in 0 .. Slots - 1 : i # None
      /\ signaled \in [Sems -> BOOLEAN] /\ submitted \in [Fences -> BOOLEAN]
      /\ payload \in [Sems -> {"idle", "engine", "signaled"}]
      /\ fence \in [Fences -> {"reset", "pending", "engine", "signaled"}]
      /\ queue \in [Queues -> Seq(Call)] /\ Graphics \in Queues /\ Transfer \in Queues /\ Graphics # Transfer
  BY QueueNames,  QueueTypes, ThreadNames DEF TypeInv
<1>v. /\ G' = G /\ T' = <<>> /\ Slot' = Slot /\ pc' = pc /\ call' = call
      /\ InCall(Drawer)' = InCall(Drawer) /\ InCall(Loader)' = InCall(Loader)
      /\ FrameCall' = FrameCall /\ PresentCall' = PresentCall /\ Open' = Open /\ Taking' = Taking
  BY <1>s, <1>t DEF UploadExecuted, Slot, G, T, InCall, FrameCall, PresentCall, Open, Taking
<1>u. /\ fence'[UploadFence] = "signaled" /\ \A f \in Fences \ {UploadFence} : fence'[f] = fence[f]
      /\ payload'[Uploaded] = "signaled" /\ \A s \in Sems \ {Uploaded} : payload'[s] = payload[s]
  BY <1>s, <1>t, FenceNames, SemNames DEF UploadExecuted
<1>1. TypeInv'
<2>1. uploadsDone' \in 0 .. MaxUploads
  <3>1. /\ uploads = uploadsDone + Len(T) + (IF pc[Loader] \in {"lock", "enqueue"} THEN 1 ELSE 0)
        /\ Len(T) = 1 /\ uploadsDone' = uploadsDone + 1 /\ uploads \in 0 .. MaxUploads /\ uploadsDone \in 0 .. MaxUploads
    BY <1>s DEF UploadExecuted, UploadedInv, Waited, TypeInv
  <3> QED
    BY <3>1, Numbers
<2>2. queue' \in [Queues -> Seq(Call)] /\ payload' \in [Sems -> {"idle", "engine", "signaled"}]
        /\ fence' \in [Fences -> {"reset", "pending", "engine", "signaled"}]
  BY <1>s, <1>t, SemNames, FenceNames DEF UploadExecuted
<2> QED
  BY <1>s, <1>v, <2>1, <2>2 DEF TypeInv, UploadExecuted
<1>2. LockInv'
  BY <1>v, <1>u, <1>t, ThreadNames, <1>s DEF LockInv, UploadExecuted
<1>3. CallInv'
  BY <1>v, <1>u, <1>t, ThreadNames, <1>s DEF CallInv, UploadExecuted
<1>4. FenceInv'
<2>1. /\ \A i \in 0 .. Slots - 1 : fence'[FrameFence(i)] = fence[FrameFence(i)]
      /\ fence'[AcquireFence] = fence[AcquireFence] /\ submitted' = submitted
  BY <1>s, <1>u, FenceNames DEF UploadExecuted
<2>2. fence[UploadFence] = "pending"
  BY <1>s DEF UploadExecuted, QueueInv
<2> QED
  BY <1>v, <1>u, <1>t, <2>1, <2>2 DEF FenceInv, InUse
<1>5. QueueInv'
  BY <1>v, <1>u, <1>t, EntriesStay, FenceNames, SemNames, <1>s DEF QueueInv, UploadExecuted
<1>6. RenderedInv'
  BY <1>v, <1>u, <1>t, SemNames, <1>s DEF RenderedInv, RenderedAt, UploadExecuted
<1>7. AcquiredInv'
<2>1. \A i \in 0 .. Slots - 1 : payload'[Acquired(i)] = payload[Acquired(i)]
  BY <1>u, SemNames
<2>2. signaled' = signaled
  BY <1>s DEF UploadExecuted
<2> QED
  BY <1>v, <2>1, <2>2 DEF AcquiredInv, AcquiredAt, Waited
<1>8. UploadedInv'
<2>1. /\ T # <<>> /\ Len(T) = 1 /\ Len(T') = 0 /\ uploadsDone' = uploadsDone + 1 /\ T' = <<>>
      /\ UNCHANGED <<handed, reader, uploads, signaled>>
  BY <1>s, <1>v DEF UploadExecuted
<2>2. uploads' = uploadsDone' + Len(T') + (IF pc'[Loader] \in {"lock", "enqueue"} THEN 1 ELSE 0)
  <3>1. uploads = uploadsDone + Len(T) + (IF pc[Loader] \in {"lock", "enqueue"} THEN 1 ELSE 0)
    BY DEF UploadedInv, Waited
  <3>2. uploads \in Nat /\ uploadsDone \in Nat
    BY Numbers DEF TypeInv
  <3>3. pc'[Loader] = pc[Loader] /\ uploads' = uploads
    BY <1>v, <2>1
  <3>4. PICK n \in {0, 1} : n = (IF pc[Loader] \in {"lock", "enqueue"} THEN 1 ELSE 0)
    OBVIOUS
  <3>5. uploads = uploadsDone + 1 + n
    BY <3>1, <3>4, <2>1
  <3>6. uploads = uploadsDone' + 0 + n
    BY <3>5, <3>2, <3>4, <2>1
  <3> QED
    BY <3>3, <3>4, <3>6, <2>1
<2> QED
  BY <1>v, <1>u, <2>1, <2>2 DEF UploadedInv, Waited
<1> QED
  BY <1>1, <1>2, <1>3, <1>4, <1>5, <1>6, <1>7, <1>8

LEMMA CreatingKeeps ==
  ASSUME SyncInv, Creating
  PROVE  SyncInv'
<1> USE DEF SyncInv
<1>s. PICK c \in Call :
         /\ pc[Drawer] = "poll" /\ frame = 0 /\ G = <<>> /\ ~submitted[FrameFence(0)]
         /\ FrameBatch(c, 0) /\ c.waits = {} /\ c.signals = {} /\ c.needs = 0
         /\ queue' = [queue EXCEPT ![Graphics] = Append(G, c)]
         /\ fence' = [fence EXCEPT ![FrameFence(0)] = "pending"]
         /\ submitted' = [submitted EXCEPT ![FrameFence(0)] = TRUE]
         /\ UNCHANGED <<pc, frame, handed, reader, uploads, stale, call, signaled, submitlck, payload, uploadsDone>>
  BY DEF Creating
<1>t. /\ pc \in [Threads -> DrawerLabels \cup LoaderLabels] /\ call \in [Threads -> Call]
      /\ G \in Seq(Call) /\ T \in Seq(Call) /\ Len(G) \in Nat /\ Len(T) \in Nat /\ frame \in Nat
      /\ Slot \in 0 .. Slots - 1 /\ Slot # None /\ Drawer # Loader /\ Threads = {Drawer, Loader}
      /\ \A j \in 0 .. Slots - 1 : j # None
      /\ signaled \in [Sems -> BOOLEAN] /\ submitted \in [Fences -> BOOLEAN]
      /\ payload \in [Sems -> {"idle", "engine", "signaled"}]
      /\ fence \in [Fences -> {"reset", "pending", "engine", "signaled"}]
      /\ queue \in [Queues -> Seq(Call)] /\ Graphics \in Queues /\ Transfer \in Queues /\ Graphics # Transfer
  BY QueueNames,  QueueTypes, ThreadNames DEF TypeInv
<1>v. /\ G' = Append(G, c) /\ Len(G) = 0 /\ Len(G') = 1 /\ G'[1] = c /\ T' = T /\ Slot' = Slot /\ pc' = pc /\ Slot = 0 /\ G' # <<>>
      /\ call' = call /\ InCall(Drawer)' = InCall(Drawer) /\ InCall(Loader)' = InCall(Loader)
      /\ FrameCall' = FrameCall /\ PresentCall' = PresentCall /\ Open' = Open /\ Taking' = Taking
      /\ ~Open /\ ~InCall(Drawer)
  BY <1>s, <1>t, AppendFacts, Numbers DEF Slot, Slot, G, T, InCall, FrameCall, PresentCall, Open, Taking
<1>u. /\ fence'[FrameFence(0)] = "pending" /\ \A f \in Fences \ {FrameFence(0)} : fence'[f] = fence[f]
      /\ submitted'[FrameFence(0)] /\ \A f \in Fences \ {FrameFence(0)} : submitted'[f] = submitted[f]
  BY <1>s, <1>t, FenceNames, SemNames, Numbers DEF Slot
<1>1. TypeInv'
  BY <1>v, <1>u, <1>t, FenceNames, SemNames, <1>s, AppendFacts, Numbers DEF TypeInv, DrawerLabels, LoaderLabels, Slot
<1>2. LockInv'
  BY <1>v, <1>u, <1>t, ThreadNames, <1>s DEF LockInv, Slot
<1>3. CallInv'
  BY <1>v, <1>u, <1>t, ThreadNames, <1>s DEF CallInv, Slot
<1>4. FenceInv'
<2>1. /\ \A j \in 0 .. Slots - 1 : j # 0 => /\ fence'[FrameFence(j)] = fence[FrameFence(j)]
                                           /\ submitted'[FrameFence(j)] = submitted[FrameFence(j)]
      /\ fence'[AcquireFence] = fence[AcquireFence] /\ fence'[UploadFence] = fence[UploadFence]
      /\ submitted'[AcquireFence] = submitted[AcquireFence] /\ submitted'[UploadFence] = submitted[UploadFence]
  BY <1>u, FenceNames, Numbers
<2>2. pc[Drawer] = "poll" /\ UNCHANGED pc /\ ~FrameCall
  BY <1>s, <1>v DEF FrameCall
<2> QED
  BY <1>v, <1>u, <1>t, <2>1, <2>2 DEF FenceInv, InUse
<1>5. QueueInv'
<2>1. fence[FrameFence(0)] = "reset"
  BY <1>v, <1>s, Numbers DEF FenceInv
<2>2. \A k \in 1 .. Len(G') : GraphicsEntry(k)'
  <3>1. \A j \in 0 .. Slots - 1 : j # 0 => fence'[FrameFence(j)] = fence[FrameFence(j)]
    BY <1>u, FenceNames, Numbers
  <3>2. 0 \in 0 .. Slots - 1 /\ fence'[FrameFence(0)] = "pending" /\ UNCHANGED payload
    BY <1>u, <1>s, Numbers
  <3> QED
    BY <2>1, <3>1, <3>2, <1>v, <1>s, FrameAppended
<2>3. UploadFence # FrameFence(0) /\ fence'[UploadFence] = fence[UploadFence]
  BY <1>u, FenceNames, Numbers
<2> QED
  BY <1>v, <2>2, <2>3 DEF QueueInv
<1>6. RenderedInv'
  BY <1>v, <1>u, <1>t, SemNames, <1>s DEF RenderedInv, RenderedAt, Slot
<1>7. AcquiredInv'
  BY <1>v, <1>u, <1>t, SemNames, <1>s, SemNames DEF AcquiredInv, AcquiredAt, Waited, Slot
<1>8. UploadedInv'
  BY <1>v, <1>u, <1>t, SemNames, <1>s, SemNames DEF UploadedInv, Waited, FrameBatch
<1> QED
  BY <1>1, <1>2, <1>3, <1>4, <1>5, <1>6, <1>7, <1>8

LEMMA FrameTakenKeeps ==
  ASSUME SyncInv, FrameTaken
  PROVE  SyncInv'
<1> USE DEF SyncInv
<1>s. PICK c \in Call :
         /\ pc[Drawer] = "submit" /\ pc' = [pc EXCEPT ![Drawer] = "lock"]
         /\ FrameBatch(c, Slot) /\ c.signals = {Rendered(Slot)}
         /\ Acquired(Slot) \in c.waits <=> signaled[Acquired(Slot)]
         /\ Uploaded \in c.waits <=> handed
         /\ c.needs = (IF handed THEN uploads ELSE 0)
         /\ call' = [call EXCEPT ![Drawer] = c]
         /\ signaled' \in [Sems -> BOOLEAN]
         /\ ~signaled'[Acquired(Slot)] /\ signaled'[Rendered(Slot)]
         /\ signaled'[Uploaded] <=> signaled[Uploaded] /\ ~handed
         /\ \A s \in Sems \ {Acquired(Slot), Rendered(Slot), Uploaded} : signaled'[s] = signaled[s]
         /\ UNCHANGED <<frame, handed, reader, uploads, stale, submitted, submitlck, queue, payload, fence, uploadsDone>>
  BY DEF FrameTaken
<1>t. /\ pc \in [Threads -> DrawerLabels \cup LoaderLabels] /\ call \in [Threads -> Call]
      /\ G \in Seq(Call) /\ T \in Seq(Call) /\ Len(G) \in Nat /\ Len(T) \in Nat /\ frame \in Nat
      /\ Slot \in 0 .. Slots - 1 /\ Slot # None /\ Drawer # Loader /\ Threads = {Drawer, Loader}
      /\ \A j \in 0 .. Slots - 1 : j # None
      /\ signaled \in [Sems -> BOOLEAN] /\ submitted \in [Fences -> BOOLEAN]
      /\ payload \in [Sems -> {"idle", "engine", "signaled"}]
      /\ fence \in [Fences -> {"reset", "pending", "engine", "signaled"}]
      /\ queue \in [Queues -> Seq(Call)] /\ Graphics \in Queues /\ Transfer \in Queues /\ Graphics # Transfer
  BY QueueNames,  QueueTypes, ThreadNames DEF TypeInv
<1>v. /\ G' = G /\ T' = T /\ Slot' = Slot /\ pc'[Drawer] = "lock" /\ pc'[Loader] = pc[Loader] /\ call'[Drawer] = c /\ call'[Loader] = call[Loader]
      /\ ~InCall(Drawer) /\ InCall(Drawer)' /\ InCall(Loader)' = InCall(Loader) /\ c.cmd = Slot
      /\ ~FrameCall /\ ~PresentCall /\ FrameCall' /\ ~PresentCall' /\ ~Open /\ ~Open' /\ ~Taking /\ Taking' = (c.needs > 0)
  BY <1>s, <1>t DEF FrameBatch, Slot, G, T, InCall, FrameCall, PresentCall, Open, Taking
<1>1. TypeInv'
  BY <1>v, <1>t, FenceNames, SemNames, <1>s, Numbers DEF TypeInv, DrawerLabels, LoaderLabels, FrameBatch
<1>2. LockInv'
  BY <1>v, <1>t, ThreadNames, <1>s DEF LockInv, FrameBatch
<1>3. CallInv'
  BY <1>v, <1>t, ThreadNames, <1>s DEF CallInv, FrameBatch
<1>4. FenceInv'
  BY <1>v, <1>t, FenceNames, <1>s DEF FenceInv, InUse, FrameBatch
<1>5. QueueInv'
  BY <1>v, <1>t, EntriesStay, FenceNames, SemNames, <1>s DEF QueueInv, FrameBatch
<1>6. RenderedInv'
  BY <1>v, <1>t, SemNames, <1>s, SemNames DEF RenderedInv, RenderedAt, RenderedInv, RenderedAt
<1>7. AcquiredInv'
<2>1. SUFFICES ASSUME NEW j \in 0 .. Slots - 1 PROVE AcquiredAt(j)'
  BY DEF AcquiredInv
<2>2. AcquiredAt(j)
  BY DEF AcquiredInv
<2>3. Waited(Acquired(j))' <=> Waited(Acquired(j))
  BY <1>v DEF Waited
<2>4. UNCHANGED payload /\ pc[Drawer] = "submit" /\ Acquired(j) # Rendered(Slot) /\ Acquired(j) # Uploaded /\ Acquired(j) \in Sems
  BY <1>s, <1>t, <2>1, SemNames
<2>5. CASE j = Slot
  BY <1>v, <1>s, <2>2, <2>3, <2>4, <2>5 DEF AcquiredAt
<2>6. CASE j # Slot
  <3>1. Acquired(j) # Acquired(Slot)
    BY <1>t, <2>1, <2>6, SemNames
  <3>2. signaled'[Acquired(j)] = signaled[Acquired(j)] /\ Acquired(j) \notin c.waits
    BY <1>s, <2>4, <3>1 DEF FrameBatch
  <3> QED
    BY <1>v, <2>2, <2>3, <2>4, <2>6, <3>2 DEF AcquiredAt
<2> QED
  BY <2>5, <2>6
<1>8. UploadedInv'
  BY <1>v, <1>t, SemNames, <1>s, SemNames, Numbers DEF UploadedInv, Waited, TypeInv
<1> QED
  BY <1>1, <1>2, <1>3, <1>4, <1>5, <1>6, <1>7, <1>8

LEMMA FrameEnqueuedKeeps ==
  ASSUME SyncInv, FrameEnqueued
  PROVE  SyncInv'
<1> USE DEF SyncInv
<1>s. FrameEnqueued
  OBVIOUS
<1>t. /\ pc \in [Threads -> DrawerLabels \cup LoaderLabels] /\ call \in [Threads -> Call]
      /\ G \in Seq(Call) /\ T \in Seq(Call) /\ Len(G) \in Nat /\ Len(T) \in Nat /\ frame \in Nat
      /\ Slot \in 0 .. Slots - 1 /\ Slot # None /\ Drawer # Loader /\ Threads = {Drawer, Loader}
      /\ \A j \in 0 .. Slots - 1 : j # None
      /\ signaled \in [Sems -> BOOLEAN] /\ submitted \in [Fences -> BOOLEAN]
      /\ payload \in [Sems -> {"idle", "engine", "signaled"}]
      /\ fence \in [Fences -> {"reset", "pending", "engine", "signaled"}]
      /\ queue \in [Queues -> Seq(Call)] /\ Graphics \in Queues /\ Transfer \in Queues /\ Graphics # Transfer
  BY QueueNames,  QueueTypes, ThreadNames DEF TypeInv
<1>v. /\ G' = Append(G, call[Drawer]) /\ Len(G') = Len(G) + 1 /\ G'[Len(G) + 1] = call[Drawer]
      /\ \A k \in 1 .. Len(G) : G'[k] = G[k]
      /\ G' # <<>> /\ T' = T /\ Slot' = Slot /\ pc'[Drawer] = "unlock" /\ pc'[Loader] = pc[Loader] /\ call' = call
      /\ InCall(Drawer) /\ InCall(Drawer)' /\ InCall(Loader)' = InCall(Loader)
      /\ FrameCall /\ ~PresentCall /\ FrameCall' /\ ~PresentCall' /\ ~Open /\ Open' /\ Taking' = Taking
      /\ FrameBatch(call[Drawer], Slot) /\ call[Drawer].signals = {Rendered(Slot)} /\ call[Drawer].cmd = Slot /\ call[Drawer] \in Call
  BY <1>s, <1>t, AppendFacts DEF FrameEnqueued, CallInv, FrameBatch, Slot, G, T, InCall, FrameCall, PresentCall, Open, Taking
<1>u. /\ fence'[FrameFence(Slot)] = "pending" /\ \A f \in Fences \ {FrameFence(Slot)} : fence'[f] = fence[f]
  BY <1>s, <1>t, FenceNames, SemNames DEF FrameEnqueued, CallInv, FrameBatch
<1>1. TypeInv'
  BY <1>v, <1>u, <1>t, FenceNames, SemNames, <1>s, AppendFacts, Numbers DEF TypeInv, DrawerLabels, LoaderLabels, FrameEnqueued
<1>2. LockInv'
  BY <1>v, <1>u, <1>t, ThreadNames, <1>s DEF LockInv, FrameEnqueued, CallInv, FrameBatch
<1>3. CallInv'
  BY <1>v, <1>u, <1>t, ThreadNames, <1>s DEF CallInv, FrameEnqueued, CallInv, FrameBatch
<1>4. FenceInv'
  BY <1>v, <1>u, <1>t, FenceNames, <1>s DEF FenceInv, InUse, FrameEnqueued, CallInv, FrameBatch
<1>5. QueueInv'
  BY <1>v, <1>u, <1>t, EntriesStay, FenceNames, SemNames, <1>s, FrameAppended DEF QueueInv, FrameEnqueued, FenceInv
<1>6. RenderedInv'
  BY <1>v, <1>u, <1>t, SemNames, <1>s DEF RenderedInv, RenderedAt, FrameEnqueued, CallInv, FrameBatch
<1>7. AcquiredInv'
<2>1. SUFFICES ASSUME NEW j \in 0 .. Slots - 1 PROVE AcquiredAt(j)'
  BY DEF AcquiredInv
<2>2. AcquiredAt(j)
  BY DEF AcquiredInv
<2>3. Waited(Acquired(j))' <=> Waited(Acquired(j)) \/ Acquired(j) \in call[Drawer].waits
  BY <1>v, WaitedAppended
<2>4. UNCHANGED <<payload, signaled>> /\ pc[Drawer] = "enqueue"
  BY <1>s DEF FrameEnqueued
<2> QED
  BY <1>v, <2>2, <2>3, <2>4 DEF AcquiredAt
<1>8. UploadedInv'
<2>1. UNCHANGED <<payload, signaled, handed, reader, uploads, uploadsDone>> /\ pc[Drawer] = "enqueue"
  BY <1>s DEF FrameEnqueued
<2>2. Waited(Uploaded)' <=> Waited(Uploaded) \/ Uploaded \in call[Drawer].waits
  BY <1>v, WaitedAppended
<2>3. Uploaded \in call[Drawer].waits <=> Taking
  BY <1>v DEF FrameBatch, Taking
<2>4. ASSUME NEW k \in 1 .. Len(G'), Uploaded \in G'[k].waits
      PROVE  G'[k].needs = uploads /\ (reader = G'[k].cmd \/ (Taking /\ G'[k].cmd = Slot))
  <3>1. CASE k \in 1 .. Len(G)
    BY <1>v, <2>1, <2>4, <3>1 DEF UploadedInv
  <3>2. CASE k = Len(G) + 1
    BY <1>v, <2>3, <2>4, <3>2 DEF UploadedInv
  <3> QED
    BY <3>1, <3>2, <1>v, <1>t
<2>5. Taking => handed
  BY DEF UploadedInv
<2> QED
  BY <1>v, <2>1, <2>2, <2>3, <2>4, <2>5 DEF UploadedInv
<1> QED
  BY <1>1, <1>2, <1>3, <1>4, <1>5, <1>6, <1>7, <1>8

LEMMA PresentEnqueuedKeeps ==
  ASSUME SyncInv, PresentEnqueued
  PROVE  SyncInv'
<1> USE DEF SyncInv
<1>s. PresentEnqueued
  OBVIOUS
<1>t. /\ pc \in [Threads -> DrawerLabels \cup LoaderLabels] /\ call \in [Threads -> Call]
      /\ G \in Seq(Call) /\ T \in Seq(Call) /\ Len(G) \in Nat /\ Len(T) \in Nat /\ frame \in Nat
      /\ Slot \in 0 .. Slots - 1 /\ Slot # None /\ Drawer # Loader /\ Threads = {Drawer, Loader}
      /\ \A j \in 0 .. Slots - 1 : j # None
      /\ signaled \in [Sems -> BOOLEAN] /\ submitted \in [Fences -> BOOLEAN]
      /\ payload \in [Sems -> {"idle", "engine", "signaled"}]
      /\ fence \in [Fences -> {"reset", "pending", "engine", "signaled"}]
      /\ queue \in [Queues -> Seq(Call)] /\ Graphics \in Queues /\ Transfer \in Queues /\ Graphics # Transfer
  BY QueueNames,  QueueTypes, ThreadNames DEF TypeInv
<1>v. /\ G' = Append(G, PresentBatch(Slot)) /\ Len(G') = Len(G) + 1 /\ G'[Len(G) + 1] = PresentBatch(Slot)
      /\ \A k \in 1 .. Len(G) : G'[k] = G[k]
      /\ G' # <<>> /\ T' = T /\ Slot' = Slot /\ pc'[Drawer] = "unlock" /\ pc'[Loader] = pc[Loader] /\ call' = call
      /\ InCall(Drawer) /\ InCall(Drawer)' /\ InCall(Loader)' = InCall(Loader)
      /\ ~FrameCall /\ PresentCall /\ ~FrameCall' /\ PresentCall' /\ Open /\ ~Open' /\ ~Taking /\ ~Taking'
      /\ PresentBatch(Slot) \in Call /\ PresentBatch(Slot).waits = {Rendered(Slot)} /\ PresentBatch(Slot).signals = {} /\ PresentBatch(Slot).cmd = None
  BY <1>s, <1>t, AppendFacts, PresentBatchFields DEF PresentEnqueued, Slot, G, T, InCall, FrameCall, PresentCall, Open, Taking
<1>1. TypeInv'
  BY <1>v, <1>t, FenceNames, SemNames, <1>s, AppendFacts, Numbers DEF TypeInv, DrawerLabels, LoaderLabels, PresentEnqueued
<1>2. LockInv'
  BY <1>v, <1>t, ThreadNames, <1>s DEF LockInv, PresentEnqueued
<1>3. CallInv'
  BY <1>v, <1>t, ThreadNames, <1>s DEF CallInv, PresentEnqueued
<1>4. FenceInv'
  BY <1>v, <1>t, FenceNames, <1>s DEF FenceInv, InUse, PresentEnqueued
<1>5. QueueInv'
  BY <1>v, <1>t, EntriesStay, FenceNames, SemNames, <1>s, PresentAppended DEF QueueInv, PresentEnqueued
<1>6. RenderedInv'
  BY <1>v, <1>t, SemNames, <1>s DEF RenderedInv, RenderedAt, PresentEnqueued
<1>7. AcquiredInv'
<2>1. SUFFICES ASSUME NEW j \in 0 .. Slots - 1 PROVE AcquiredAt(j)'
  BY DEF AcquiredInv
<2>2. AcquiredAt(j)
  BY DEF AcquiredInv
<2>3. Waited(Acquired(j))' <=> Waited(Acquired(j))
  <3>1. Waited(Acquired(j))' <=> Waited(Acquired(j)) \/ Acquired(j) \in PresentBatch(Slot).waits
    BY <1>v, WaitedAppended
  <3> QED
    BY <3>1, <1>v, <1>t, <2>1, SemNames
<2>4. UNCHANGED <<payload, signaled>> /\ pc[Drawer] = "enqueue" /\ call[Drawer].waits = {Rendered(Slot)}
  BY <1>s, <1>v DEF PresentEnqueued, CallInv
<2>5. Acquired(j) # Rendered(Slot)
  BY <1>t, <2>1, SemNames
<2> QED
  BY <1>v, <2>2, <2>3, <2>4, <2>5 DEF AcquiredAt
<1>8. UploadedInv'
<2>1. UNCHANGED <<payload, signaled, handed, reader, uploads, uploadsDone>> /\ pc[Drawer] = "enqueue"
  BY <1>s DEF PresentEnqueued
<2>0. Uploaded # Rendered(Slot)
  BY <1>t, SemNames
<2>2. Waited(Uploaded)' <=> Waited(Uploaded)
  BY <1>v, <2>0, WaitedAppended
<2>4. ASSUME NEW k \in 1 .. Len(G'), Uploaded \in G'[k].waits
      PROVE  G'[k].needs = uploads /\ reader = G'[k].cmd
  <3>1. CASE k \in 1 .. Len(G)
    BY <1>v, <2>1, <2>4, <3>1 DEF UploadedInv
  <3>2. CASE k = Len(G) + 1
    BY <1>v, <2>0, <2>4, <3>2
  <3> QED
    BY <3>1, <3>2, <1>v, <1>t
<2> QED
  BY <1>v, <2>1, <2>2, <2>4 DEF UploadedInv
<1> QED
  BY <1>1, <1>2, <1>3, <1>4, <1>5, <1>6, <1>7, <1>8

LEMMA FrameExecutedKeeps ==
  ASSUME SyncInv, FrameExecuted
  PROVE  SyncInv'
<1> USE DEF SyncInv
<1>s. PICK i \in 0 .. Slots - 1 :
         /\ G # <<>> /\ FrameBatch(G[1], i) /\ \A s \in G[1].waits : payload[s] = "signaled"
         /\ queue' = [queue EXCEPT ![Graphics] = Tail(G)]
         /\ payload' \in [Sems -> {"idle", "engine", "signaled"}]
         /\ \A s \in Sems : payload'[s] = (IF s \in G[1].signals THEN "signaled"
                                            ELSE IF s \in G[1].waits THEN "idle" ELSE payload[s])
         /\ fence' = [fence EXCEPT ![FrameFence(i)] = "signaled"]
         /\ UNCHANGED <<pc, frame, handed, reader, uploads, stale, call, signaled, submitted, submitlck, uploadsDone>>
  BY DEF FrameExecuted
<1>t. /\ pc \in [Threads -> DrawerLabels \cup LoaderLabels] /\ call \in [Threads -> Call]
      /\ G \in Seq(Call) /\ T \in Seq(Call) /\ Len(G) \in Nat /\ Len(T) \in Nat /\ frame \in Nat
      /\ Slot \in 0 .. Slots - 1 /\ Slot # None /\ Drawer # Loader /\ Threads = {Drawer, Loader}
      /\ \A j \in 0 .. Slots - 1 : j # None
      /\ signaled \in [Sems -> BOOLEAN] /\ submitted \in [Fences -> BOOLEAN]
      /\ payload \in [Sems -> {"idle", "engine", "signaled"}]
      /\ fence \in [Fences -> {"reset", "pending", "engine", "signaled"}]
      /\ queue \in [Queues -> Seq(Call)] /\ Graphics \in Queues /\ Transfer \in Queues /\ Graphics # Transfer
  BY QueueNames,  QueueTypes, ThreadNames DEF TypeInv
<1>v. /\ G' = Tail(G) /\ Len(G) > 0 /\ Len(G') = Len(G) - 1 /\ \A k \in 1 .. Len(G) - 1 : G'[k] = G[k + 1]
      /\ G' = <<>> <=> Len(G) = 1
      /\ T' = T /\ Slot' = Slot /\ pc' = pc
      /\ call' = call /\ InCall(Drawer)' = InCall(Drawer) /\ InCall(Loader)' = InCall(Loader)
      /\ FrameCall' = FrameCall /\ PresentCall' = PresentCall /\ Open' = Open /\ Taking' = Taking
  BY <1>s, <1>t, TailFacts DEF FrameBatch, Slot, G, T, InCall, FrameCall, PresentCall, Open, Taking
<1>u. /\ fence'[FrameFence(i)] = "signaled" /\ \A f \in Fences \ {FrameFence(i)} : fence'[f] = fence[f]
  BY <1>s, <1>t, FenceNames, SemNames DEF FrameBatch
<1>f. /\ fence[FrameFence(i)] = "pending" /\ G[1].cmd = i /\ 1 \in 1 .. Len(G)
      /\ \A k \in 1 .. Len(G) : G[k].cmd = i => k = 1
      /\ G[1].signals # {} => IF Len(G) = 1 THEN Open /\ i = Slot ELSE G[2] = PresentBatch(i)
  <2>1. 1 \in 1 .. Len(G) /\ G[1].cmd = i /\ i # None
    BY <1>s, <1>v, <1>t DEF FrameBatch
  <2>2. GraphicsEntry(1)
    BY <2>1 DEF QueueInv
  <2>3. \A j \in 0 .. Slots - 1 : G[1] # PresentBatch(j)
    BY <2>1, PresentBatchFields
  <2>4. \A j \in 0 .. Slots - 1 : FrameBatch(G[1], j) => j = i
    BY <2>1 DEF FrameBatch
  <2> QED
    BY <2>1, <2>2, <2>3, <2>4 DEF GraphicsEntry
<1>1. TypeInv'
  BY <1>v, <1>u, <1>t, FenceNames, SemNames, <1>s, TailFacts, Numbers DEF TypeInv, DrawerLabels, LoaderLabels, FrameBatch
<1>2. LockInv'
  BY <1>v, <1>u, <1>t, ThreadNames, <1>s DEF LockInv, FrameBatch
<1>3. CallInv'
  BY <1>v, <1>u, <1>t, ThreadNames, <1>s DEF CallInv, FrameBatch
<1>4. FenceInv'
<2>1. /\ \A j \in 0 .. Slots - 1 : j # i => fence'[FrameFence(j)] = fence[FrameFence(j)]
      /\ fence'[FrameFence(i)] = "signaled" /\ submitted' = submitted
      /\ fence'[AcquireFence] = fence[AcquireFence] /\ fence'[UploadFence] = fence[UploadFence]
  BY <1>s, <1>u, FenceNames
<2>2. fence[FrameFence(i)] = "pending"
  BY <1>f
<2>3. \A j \in 0 .. Slots - 1 : InUse(FrameFence(j))' = InUse(FrameFence(j)) /\ (fence'[FrameFence(j)] = "reset" <=> fence[FrameFence(j)] = "reset")
  BY <2>1, <2>2 DEF InUse
<2>4. InUse(UploadFence)' = InUse(UploadFence)
  BY <2>1 DEF InUse
<2> QED
  BY <1>v, <1>t, <2>1, <2>3, <2>4 DEF FenceInv
<1>5. QueueInv'
  BY <1>v, <1>u, <1>t, EntriesStay, FenceNames, SemNames, <1>s, BatchDropped DEF QueueInv, FrameBatch
<1>6. RenderedInv'
<2>1. SUFFICES ASSUME NEW j \in 0 .. Slots - 1 PROVE RenderedAt(j)'
  BY DEF RenderedInv
<2>2. RenderedAt(j)
  BY DEF RenderedInv
<2>3. /\ payload'[Rendered(j)] = IF Rendered(j) \in G[1].signals THEN "signaled" ELSE payload[Rendered(j)]
      /\ Rendered(j) \in G[1].signals => j = i /\ G[1].signals = {Rendered(i)}
      /\ G[1].signals = {Rendered(i)} => Rendered(i) \in G[1].signals
  BY <1>s, <2>1, SemNames DEF FrameBatch
<2>4. payload[Rendered(j)] # "signaled"
  BY <1>v, <1>f, <1>t, <2>1, <2>2, PresentBatchFields DEF RenderedAt
<2>5. payload'[Rendered(j)] = "signaled" =>
        IF G' = <<>> THEN Open' /\ j = Slot' ELSE G'[1] = PresentBatch(j)
  BY <1>v, <1>f, <2>3, <2>4
<2>6. Open' /\ j = Slot' =>
        IF G' = <<>> THEN payload'[Rendered(j)] = "signaled" ELSE G'[Len(G')].signals = {Rendered(j)}
  <3>1. ASSUME Open, j = Slot PROVE G[Len(G)].signals = {Rendered(j)}
    BY <1>v, <1>s, <2>2, <3>1 DEF RenderedAt
  <3>2. CASE Len(G) = 1
    BY <1>v, <2>3, <3>1, <3>2
  <3>3. CASE Len(G) # 1
    <4>1. G'[Len(G')] = G[Len(G)] /\ G' # <<>>
      BY <1>v, <1>t, <3>3
    <4> QED
      BY <1>v, <3>1, <4>1
  <3> QED
    BY <3>2, <3>3
<2>7. UNCHANGED <<signaled, pc>>
  BY <1>s
<2> QED
  BY <1>v, <2>2, <2>3, <2>5, <2>6, <2>7 DEF RenderedAt
<1>7. AcquiredInv'
<2>1. SUFFICES ASSUME NEW j \in 0 .. Slots - 1 PROVE AcquiredAt(j)'
  BY DEF AcquiredInv
<2>2. AcquiredAt(j)
  BY DEF AcquiredInv
<2>3. UNCHANGED <<signaled, pc, call>> /\ Acquired(j) \notin G[1].signals
  BY <1>s, <2>1, SemNames DEF FrameBatch
<2>4. Waited(Acquired(j)) <=> Waited(Acquired(j))' \/ Acquired(j) \in G[1].waits
  BY <1>s, <1>v, WaitedDropped
<2>5. CASE Acquired(j) \notin G[1].waits
  <3>1. payload'[Acquired(j)] = payload[Acquired(j)]
    BY <1>s, <2>1, <2>3, <2>5, SemNames
  <3> QED
    BY <1>v, <2>2, <2>3, <2>4, <2>5, <3>1 DEF AcquiredAt
<2>6. CASE Acquired(j) \in G[1].waits
  <3>1. payload'[Acquired(j)] = "idle" /\ j = i
    BY <1>s, <2>1, <2>3, <2>6, SemNames DEF FrameBatch
  <3>2. ~signaled[Acquired(j)]
    BY <1>f, <3>1, <2>2 DEF AcquiredAt, FenceInv
  <3>3. ~(pc[Drawer] \in {"lock", "enqueue"} /\ Acquired(j) \in call[Drawer].waits)
    <4>1. SUFFICES ASSUME pc[Drawer] \in {"lock", "enqueue"}, Acquired(j) \in call[Drawer].waits PROVE FALSE
      OBVIOUS
    <4>2. CASE FrameCall
      <5>1. j = Slot
        BY <4>1, <4>2, <1>t, <2>1, SemNames DEF CallInv, FrameBatch
      <5> QED
        BY <4>1, <4>2, <5>1, <3>1, <1>f DEF FenceInv
    <4>3. CASE PresentCall
      BY <4>1, <4>3, <1>t, <2>1, SemNames, PresentBatchFields DEF CallInv
    <4> QED
      BY <4>1, <4>2, <4>3 DEF FrameCall, PresentCall, InCall
  <3>4. ~Waited(Acquired(j))'
    <4>1. SUFFICES ASSUME NEW k \in 1 .. Len(G) - 1, Acquired(j) \in G[k + 1].waits PROVE FALSE
      BY <1>v, <1>t DEF Waited
    <4>0. k + 1 \in 1 .. Len(G) /\ k + 1 # 1
      BY <1>t, <4>1
    <4>2. G[k + 1].cmd = j
      BY <4>0, <4>1, <2>1, EntryFields, SemNames DEF FrameBatch
    <4> QED
      BY <4>0, <4>2, <3>1, <1>f
  <3> QED
    BY <1>v, <2>2, <2>3, <3>1, <3>2, <3>3, <3>4 DEF AcquiredAt
<2> QED
  BY <2>5, <2>6
<1>8. UploadedInv'
<2>1. UNCHANGED <<signaled, handed, reader, uploads, uploadsDone, pc, call>> /\ Uploaded \notin G[1].signals
  BY <1>s, SemNames DEF FrameBatch
<2>2. Waited(Uploaded) <=> Waited(Uploaded)' \/ Uploaded \in G[1].waits
  BY <1>s, <1>v, WaitedDropped
<2>3. ASSUME NEW k \in 1 .. Len(G'), Uploaded \in G'[k].waits
      PROVE  G'[k].needs = uploads /\ (reader = G'[k].cmd \/ (Taking /\ pc[Drawer] = "unlock" /\ G'[k].cmd = Slot))
  <3>1. k + 1 \in 1 .. Len(G) /\ G'[k] = G[k + 1]
    BY <1>v, <1>t, <2>3
  <3> QED
    BY <2>3, <3>1 DEF UploadedInv
<2>4. CASE Uploaded \notin G[1].waits
  <3>1. payload'[Uploaded] = payload[Uploaded]
    BY <1>s, <2>1, <2>4, SemNames
  <3> QED
    BY <1>v, <2>1, <2>2, <2>3, <2>4, <3>1 DEF UploadedInv
<2>5. CASE Uploaded \in G[1].waits
  <3>1. payload'[Uploaded] = "idle" /\ payload[Uploaded] = "signaled" /\ T = <<>>
    BY <1>s, <2>1, <2>5, SemNames DEF UploadedInv
  <3>2. reader = i \/ (Taking /\ pc[Drawer] = "unlock" /\ i = Slot)
    BY <1>f, <2>5 DEF UploadedInv
  <3>3. ~(pc[Loader] \in {"unlock", "handover"}) /\ ~(handed /\ ~(Taking /\ pc[Drawer] = "unlock"))
    BY <3>2, <1>t DEF UploadedInv
  <3>4. ~Waited(Uploaded)'
    <4>1. SUFFICES ASSUME NEW k \in 1 .. Len(G) - 1, Uploaded \in G[k + 1].waits PROVE FALSE
      BY <1>v, <1>t DEF Waited
    <4>2. k + 1 \in 1 .. Len(G) /\ k + 1 # 1
      BY <1>t, <4>1
    <4>3. reader = G[k + 1].cmd \/ (Taking /\ pc[Drawer] = "unlock" /\ G[k + 1].cmd = Slot)
      BY <4>1, <4>2 DEF UploadedInv
    <4>4. G[k + 1].cmd \in 0 .. Slots - 1 /\ (Taking => reader = None)
      BY <4>1, <4>2, EntryFields, SemNames DEF UploadedInv
    <4>5. G[k + 1].cmd = i
      BY <3>2, <4>3, <4>4, <1>t
    <4> QED
      BY <4>2, <4>5, <1>f
  <3> QED
    BY <1>v, <2>1, <2>3, <3>1, <3>3, <3>4 DEF UploadedInv
<2> QED
  BY <2>4, <2>5
<1> QED
  BY <1>1, <1>2, <1>3, <1>4, <1>5, <1>6, <1>7, <1>8

LEMMA PresentExecutedKeeps ==
  ASSUME SyncInv, PresentExecuted
  PROVE  SyncInv'
<1> USE DEF SyncInv
<1>s. PICK i \in 0 .. Slots - 1 :
         /\ G # <<>> /\ G[1] = PresentBatch(i) /\ payload[Rendered(i)] = "signaled"
         /\ queue' = [queue EXCEPT ![Graphics] = Tail(G)]
         /\ payload' = [payload EXCEPT ![Rendered(i)] = "idle"]
         /\ UNCHANGED <<pc, frame, handed, reader, uploads, stale, call, signaled, submitted, submitlck, fence, uploadsDone>>
  BY DEF PresentExecuted
<1>t. /\ pc \in [Threads -> DrawerLabels \cup LoaderLabels] /\ call \in [Threads -> Call]
      /\ G \in Seq(Call) /\ T \in Seq(Call) /\ Len(G) \in Nat /\ Len(T) \in Nat /\ frame \in Nat
      /\ Slot \in 0 .. Slots - 1 /\ Slot # None /\ Drawer # Loader /\ Threads = {Drawer, Loader}
      /\ \A j \in 0 .. Slots - 1 : j # None
      /\ signaled \in [Sems -> BOOLEAN] /\ submitted \in [Fences -> BOOLEAN]
      /\ payload \in [Sems -> {"idle", "engine", "signaled"}]
      /\ fence \in [Fences -> {"reset", "pending", "engine", "signaled"}]
      /\ queue \in [Queues -> Seq(Call)] /\ Graphics \in Queues /\ Transfer \in Queues /\ Graphics # Transfer
  BY QueueNames,  QueueTypes, ThreadNames DEF TypeInv
<1>v. /\ G' = Tail(G) /\ Len(G) > 0 /\ Len(G') = Len(G) - 1 /\ \A k \in 1 .. Len(G) - 1 : G'[k] = G[k + 1]
      /\ G' = <<>> <=> Len(G) = 1
      /\ T' = T /\ Slot' = Slot /\ pc' = pc
      /\ call' = call /\ InCall(Drawer)' = InCall(Drawer) /\ InCall(Loader)' = InCall(Loader)
      /\ FrameCall' = FrameCall /\ PresentCall' = PresentCall /\ Open' = Open /\ Taking' = Taking
      /\ G[1].signals = {} /\ G[1].waits = {Rendered(i)}
  BY <1>s, <1>t, TailFacts, PresentBatchFields DEF PresentBatch, Slot, G, T, InCall, FrameCall, PresentCall, Open, Taking
<1>u. /\ payload'[Rendered(i)] = "idle" /\ \A s \in Sems \ {Rendered(i)} : payload'[s] = payload[s]
  BY <1>s, <1>t, FenceNames, SemNames DEF PresentBatch
<1>1. TypeInv'
  BY <1>v, <1>u, <1>t, FenceNames, SemNames, <1>s, TailFacts, Numbers DEF TypeInv, DrawerLabels, LoaderLabels, FrameBatch
<1>2. LockInv'
  BY <1>v, <1>u, <1>t, ThreadNames, <1>s DEF LockInv, PresentBatch
<1>3. CallInv'
  BY <1>v, <1>u, <1>t, ThreadNames, <1>s DEF CallInv, PresentBatch
<1>4. FenceInv'
  BY <1>v, <1>u, <1>t, FenceNames, <1>s DEF FenceInv, InUse, PresentBatch
<1>5. QueueInv'
  BY <1>v, <1>u, <1>t, EntriesStay, FenceNames, SemNames, <1>s, BatchDropped DEF QueueInv, PresentBatch
<1>6. RenderedInv'
<2>1. SUFFICES ASSUME NEW j \in 0 .. Slots - 1 PROVE RenderedAt(j)'
  BY DEF RenderedInv
<2>2. RenderedAt(j)
  BY DEF RenderedInv
<2>3. payload'[Rendered(j)] # "signaled" /\ payload'[Rendered(j)] # "engine"
  <3>1. CASE j = i
    BY <3>1, <1>u
  <3>2. CASE j # i
    <4>1. Rendered(j) # Rendered(i) /\ Rendered(j) \in Sems
      BY <2>1, <3>2, SemNames
    <4>2. PresentBatch(j) # PresentBatch(i)
      BY <2>1, <4>1, PresentBatchFields
    <4> QED
      BY <4>1, <4>2, <1>s, <1>u, <2>2 DEF RenderedAt
  <3> QED
    BY <3>1, <3>2
<2>4. Open' /\ j = Slot' =>
        IF G' = <<>> THEN payload'[Rendered(j)] = "signaled" ELSE G'[Len(G')].signals = {Rendered(j)}
  <3>1. SUFFICES ASSUME Open, j = Slot PROVE G' # <<>> /\ G'[Len(G')].signals = {Rendered(j)}
    BY <1>v
  <3>2. G[Len(G)].signals = {Rendered(j)}
    BY <1>s, <2>2, <3>1 DEF RenderedAt
  <3>3. Len(G) # 1
    BY <1>v, <3>2
  <3>4. G'[Len(G')] = G[Len(G)] /\ G' # <<>>
    BY <1>v, <1>t, <3>3
  <3> QED
    BY <3>2, <3>4
<2>5. UNCHANGED <<signaled, pc>>
  BY <1>s
<2> QED
  BY <1>v, <2>2, <2>3, <2>4, <2>5 DEF RenderedAt
<1>7. AcquiredInv'
<2>1. SUFFICES ASSUME NEW j \in 0 .. Slots - 1 PROVE AcquiredAt(j)'
  BY DEF AcquiredInv
<2>2. AcquiredAt(j)
  BY DEF AcquiredInv
<2>3. UNCHANGED <<signaled, pc, call>> /\ Acquired(j) # Rendered(i) /\ Acquired(j) \in Sems
  BY <1>s, <2>1, SemNames
<2>4. Waited(Acquired(j)) <=> Waited(Acquired(j))'
  BY <1>s, <1>v, <2>3, WaitedDropped
<2>5. payload'[Acquired(j)] = payload[Acquired(j)]
  BY <1>u, <2>3
<2> QED
  BY <1>v, <2>2, <2>3, <2>4, <2>5 DEF AcquiredAt
<1>8. UploadedInv'
<2>1. UNCHANGED <<signaled, handed, reader, uploads, uploadsDone, pc, call>> /\ Uploaded # Rendered(i) /\ Uploaded \in Sems
  BY <1>s, SemNames
<2>2. Waited(Uploaded) <=> Waited(Uploaded)'
  BY <1>s, <1>v, <2>1, WaitedDropped
<2>3. ASSUME NEW k \in 1 .. Len(G'), Uploaded \in G'[k].waits
      PROVE  G'[k].needs = uploads /\ (reader = G'[k].cmd \/ (Taking /\ pc[Drawer] = "unlock" /\ G'[k].cmd = Slot))
  <3>1. k + 1 \in 1 .. Len(G) /\ G'[k] = G[k + 1]
    BY <1>v, <1>t, <2>3
  <3> QED
    BY <2>3, <3>1 DEF UploadedInv
<2>4. payload'[Uploaded] = payload[Uploaded]
  BY <1>u, <2>1
<2> QED
  BY <1>v, <2>1, <2>2, <2>3, <2>4 DEF UploadedInv
<1> QED
  BY <1>1, <1>2, <1>3, <1>4, <1>5, <1>6, <1>7, <1>8

LEMMA NothingKeeps ==
  ASSUME SyncInv, UNCHANGED syncVars
  PROVE  SyncInv'
<1> USE DEF SyncInv
<1>1. UNCHANGED <<pc, frame, handed, reader, uploads, stale, call, signaled, submitted, submitlck,
                  queue, payload, fence, uploadsDone>>
  BY DEF syncVars, appVars, driverVars
<1>2. /\ G' = G /\ T' = T /\ Slot' = Slot /\ InCall(Drawer)' = InCall(Drawer) /\ InCall(Loader)' = InCall(Loader)
      /\ FrameCall' = FrameCall /\ PresentCall' = PresentCall /\ Open' = Open /\ Taking' = Taking
  BY <1>1 DEF G, T, Slot, InCall, FrameCall, PresentCall, Open, Taking
<1>3. TypeInv' /\ LockInv'
  BY <1>1 DEF TypeInv, LockInv
<1>4. CallInv'
  BY <1>1, <1>2, ThreadNames DEF CallInv
<1>5. FenceInv'
  BY <1>1, <1>2 DEF FenceInv, InUse
<1>6. QueueInv'
  BY <1>1, <1>2, EntriesStay DEF QueueInv
<1>7. RenderedInv' /\ AcquiredInv'
  BY <1>1, <1>2 DEF RenderedInv, RenderedAt, AcquiredInv, AcquiredAt, Waited
<1>8. UploadedInv'
  BY <1>1, <1>2 DEF UploadedInv, Waited
<1> QED
  BY <1>3, <1>4, <1>5, <1>6, <1>7, <1>8

LEMMA SyncKept ==
  ASSUME SyncInv, [FramesNext]_vars
  PROVE  SyncInv'
<1>1. SyncStep
  BY SyncSteps
<1>2. CASE DrawerMoves
  <2>1. CASE DrawerGoes("poll", "wait") /\ frame < MaxFrames /\ submitted[FrameFence(Slot)]
    BY <2>1, DrawerGoesKeep
  <2>2. CASE DrawerGoes("poll", "acquire") /\ frame < MaxFrames /\ ~submitted[FrameFence(Slot)]
    BY <2>2, DrawerGoesKeep
  <2>3. CASE DrawerGoes("recreate", "acquire")
    BY <2>3, DrawerGoesKeep
  <2>4. CASE DrawerGoes("record", "fill")
    BY <2>4, DrawerGoesKeep
  <2>5. CASE DrawerGoes("fill", "submit")
    BY <2>5, DrawerGoesKeep
  <2> QED
    BY <1>2, <2>1, <2>2, <2>3, <2>4, <2>5 DEF DrawerMoves
<1>3. CASE \E t \in Threads : LockQueue(t)
  BY <1>3, ThreadNames, DrawerLocksKeep, LoaderLocksKeep
<1> QED
  BY <1>1, <1>2, <1>3, NothingKeeps, FrameIsDoneKeeps, OutOfDateKeeps, ImageIsThereKeeps, UploadIsDoneKeeps,
     AcquireWithSemaphoreKeeps, AcquireWithFenceKeeps, CreatingKeeps, FrameTakenKeeps, PresentTakenKeeps,
     UploadTakenKeeps, FrameEnqueuedKeeps, PresentEnqueuedKeeps, UploadEnqueuedKeeps, FrameSubmittedKeeps,
     FramePresentedKeeps, UploadSubmittedKeeps, HandOverKeeps, FrameExecutedKeeps, PresentExecutedKeeps,
     UploadExecutedKeeps, ImageIsFreeKeeps DEF SyncStep

LEMMA SyncStarts ==
  ASSUME FramesInit
  PROVE  SyncInv
<1>1. Init
  BY DEF FramesInit
<1>2. /\ pc[Drawer] = "poll" /\ pc[Loader] = "idle" /\ G = <<>> /\ T = <<>> /\ Len(G) = 0 /\ Len(T) = 0
      /\ ~InCall(Drawer) /\ ~InCall(Loader) /\ ~FrameCall /\ ~PresentCall /\ ~Open /\ ~Taking
  BY <1>1, ThreadNames, QueueNames DEF Init, G, T, InCall, FrameCall, PresentCall, Open, Taking
<1>3. TypeInv
  <2>1. call \in [Threads -> Call] /\ queue \in [Queues -> Seq(Call)]
    BY <1>1, NoCallFields DEF Init
  <2>2. pc \in [Threads -> DrawerLabels \cup LoaderLabels]
    BY <1>1 DEF Init, DrawerLabels, LoaderLabels
  <2>3. /\ frame \in 0 .. MaxFrames /\ uploads \in 0 .. MaxUploads
        /\ stale \in 0 .. MaxStale /\ uploadsDone \in 0 .. MaxUploads
    BY <1>1, Numbers DEF Init
  <2>4. /\ handed \in BOOLEAN /\ reader \in 0 .. Slots - 1 \cup {None}
        /\ signaled \in [Sems -> BOOLEAN] /\ submitted \in [Fences -> BOOLEAN]
        /\ payload \in [Sems -> {"idle", "engine", "signaled"}]
        /\ fence \in [Fences -> {"reset", "pending", "engine", "signaled"}]
    BY <1>1 DEF Init
  <2>5. pc[Drawer] \in DrawerLabels /\ pc[Loader] \in LoaderLabels
    BY <1>2 DEF DrawerLabels, LoaderLabels
  <2> QED
    BY <1>2, <2>1, <2>2, <2>3, <2>4, <2>5 DEF TypeInv
<1>4. LockInv
  BY <1>1, <1>2, ThreadNames DEF Init, LockInv
<1>5. CallInv
  BY <1>1, <1>2, ThreadNames DEF Init, CallInv
<1>6. FenceInv
  BY <1>1, <1>2, FenceNames DEF Init, FenceInv
<1>7. QueueInv
  BY <1>2 DEF QueueInv
<1>8. RenderedInv
  BY <1>1, <1>2, SemNames DEF Init, RenderedInv, RenderedAt
<1>9. AcquiredInv
  BY <1>1, <1>2, SemNames DEF Init, AcquiredInv, AcquiredAt, Waited
<1>10. UploadedInv
  BY <1>1, <1>2, SemNames DEF Init, UploadedInv, Waited
<1> QED
  BY <1>3, <1>4, <1>5, <1>6, <1>7, <1>8, <1>9, <1>10 DEF SyncInv
-----------------------------------------------------------------------------
(* What the invariant says of the driver.                                  *)

LEMMA PlacesAre ==
  ASSUME TypeInv, NEW s
  PROVE  /\ \A x : x \in Places <=> \/ \E k \in 1 .. Len(G) : x = <<Graphics, k>>
                                    \/ \E k \in 1 .. Len(T) : x = <<Transfer, k>>
         /\ \A x : x \in Waits(s) <=> \/ \E k \in 1 .. Len(G) : x = <<Graphics, k>> /\ s \in G[k].waits
                                      \/ \E k \in 1 .. Len(T) : x = <<Transfer, k>> /\ s \in T[k].waits
         /\ \A x : x \in Signals(s) <=> \/ \E k \in 1 .. Len(G) : x = <<Graphics, k>> /\ s \in G[k].signals
                                        \/ \E k \in 1 .. Len(T) : x = <<Transfer, k>> /\ s \in T[k].signals
         /\ IsFiniteSet(Waits(s)) /\ IsFiniteSet(Signals(s))
<1>1. DOMAIN G = 1 .. Len(G) /\ DOMAIN T = 1 .. Len(T) /\ Len(G) \in Nat /\ Len(T) \in Nat
  BY QueueTypes
<1>2. \A x : x \in Places <=> x \in ({Graphics} \X (1 .. Len(G))) \/ x \in ({Transfer} \X (1 .. Len(T)))
  BY <1>1, QueueNames DEF Places, G, T
<1>3. \A x : x \in Places <=> \/ \E k \in 1 .. Len(G) : x = <<Graphics, k>>
                              \/ \E k \in 1 .. Len(T) : x = <<Transfer, k>>
  BY <1>2
<1>4. IsFiniteSet(Places)
  <2>1. IsFiniteSet(1 .. Len(G)) /\ IsFiniteSet(1 .. Len(T)) /\ IsFiniteSet({Graphics}) /\ IsFiniteSet({Transfer})
    <3>1. 1 \in Int /\ Len(G) \in Int /\ Len(T) \in Int
      BY <1>1
    <3>2. IsFiniteSet(1 .. Len(G)) /\ IsFiniteSet(1 .. Len(T))
      BY <3>1, FS_Interval
    <3> QED
      BY <3>2, FS_Singleton
  <2>2. IsFiniteSet({Graphics} \X (1 .. Len(G))) /\ IsFiniteSet({Transfer} \X (1 .. Len(T)))
    BY <2>1, FS_Product
  <2>3. Places = ({Graphics} \X (1 .. Len(G))) \cup ({Transfer} \X (1 .. Len(T)))
    BY <1>2
  <2> QED
    BY <2>2, <2>3, FS_Union
<1>5. IsFiniteSet(Waits(s)) /\ IsFiniteSet(Signals(s))
  <2>1. Waits(s) \in SUBSET Places /\ Signals(s) \in SUBSET Places
    BY DEF Waits, Signals
  <2> QED
    BY <1>4, <2>1, FS_Subset
<1>6. /\ \A k : <<Graphics, k>>[1] = Graphics /\ <<Graphics, k>>[2] = k
      /\ \A k : <<Transfer, k>>[1] = Transfer /\ <<Transfer, k>>[2] = k
      /\ queue[Graphics] = G /\ queue[Transfer] = T
  BY DEF G, T
<1>7. \A x : x \in Waits(s) <=> x \in Places /\ s \in queue[x[1]][x[2]].waits
  BY DEF Waits
<1>8. \A x : x \in Signals(s) <=> x \in Places /\ s \in queue[x[1]][x[2]].signals
  BY DEF Signals
<1> QED
  BY <1>3, <1>5, <1>6, <1>7, <1>8

\* Which semaphores the batches of the queues name.
LEMMA BatchSemaphores ==
  ASSUME SyncInv
  PROVE  /\ \A k \in 1 .. Len(G) : /\ Uploaded \notin G[k].signals
                                   /\ \A i \in 0 .. Slots - 1 : Acquired(i) \notin G[k].signals
                                   /\ \A i \in 0 .. Slots - 1 : Rendered(i) \in G[k].waits <=> G[k] = PresentBatch(i)
                                   /\ \A i \in 0 .. Slots - 1 : Rendered(i) \in G[k].signals <=> G[k].signals = {Rendered(i)}
                                   /\ \A i \in 0 .. Slots - 1 : Acquired(i) \in G[k].waits => G[k].cmd = i
         /\ \A k \in 1 .. Len(T) : T[k].waits = {} /\ T[k].signals = {Uploaded}
<1>1. ASSUME NEW k \in 1 .. Len(G)
      PROVE  /\ Uploaded \notin G[k].signals
             /\ \A i \in 0 .. Slots - 1 : Acquired(i) \notin G[k].signals
             /\ \A i \in 0 .. Slots - 1 : Rendered(i) \in G[k].waits <=> G[k] = PresentBatch(i)
             /\ \A i \in 0 .. Slots - 1 : Rendered(i) \in G[k].signals <=> G[k].signals = {Rendered(i)}
             /\ \A i \in 0 .. Slots - 1 : Acquired(i) \in G[k].waits => G[k].cmd = i
  <2>1. CASE \E j \in 0 .. Slots - 1 : FrameBatch(G[k], j)
    <3>1. PICK j \in 0 .. Slots - 1 : FrameBatch(G[k], j)
      BY <2>1
    <3>2. /\ G[k].signals \subseteq {Rendered(j)} /\ G[k].waits \subseteq {Acquired(j), Uploaded} /\ G[k].cmd = j /\ j # None
      BY <3>1, Numbers DEF FrameBatch
    <3>3. \A i \in 0 .. Slots - 1 : G[k] # PresentBatch(i)
      BY <3>2, PresentBatchFields
    <3> QED
      BY <3>2, <3>3, SemNames
  <2>2. CASE \E j \in 0 .. Slots - 1 : G[k] = PresentBatch(j)
    <3>1. PICK j \in 0 .. Slots - 1 : G[k] = PresentBatch(j) /\ G[k].waits = {Rendered(j)} /\ G[k].signals = {}
      BY <2>2, PresentBatchFields
    <3>2. \A i \in 0 .. Slots - 1 : G[k] = PresentBatch(i) => Rendered(i) \in G[k].waits
      BY PresentBatchFields
    <3>3. \A i \in 0 .. Slots - 1 : Rendered(i) \in G[k].waits => i = j
      BY <3>1, SemNames
    <3> QED
      BY <3>1, <3>2, <3>3, SemNames
  <2> QED
    BY <2>1, <2>2, EntryFields DEF SyncInv
<1>2. \A k \in 1 .. Len(T) : T[k].waits = {} /\ T[k].signals = {Uploaded}
  BY UploadBatchFields DEF SyncInv, QueueInv
<1> QED
  BY <1>1, <1>2

LEMMA OneFrameWaits ==
  ASSUME SyncInv, NEW s \in Sems, NEW i \in 0 .. Slots - 1, s = Acquired(i) \/ s = Uploaded
  PROVE  /\ \A j, k \in 1 .. Len(G) : s \in G[j].waits /\ s \in G[k].waits => j = k
         /\ Cardinality(Waits(s)) = IF Waited(s) THEN 1 ELSE 0
         /\ Waits(s) # {} <=> Waited(s)
<1> USE DEF SyncInv
<1>1. ASSUME NEW j \in 1 .. Len(G), NEW k \in 1 .. Len(G), s \in G[j].waits, s \in G[k].waits
      PROVE  j = k
  <2>1. /\ \E l \in 0 .. Slots - 1 : G[j].cmd = l
        /\ \A l \in 0 .. Slots - 1 : G[j].cmd = l => \A m \in 1 .. Len(G) : G[m].cmd = l => m = j
    <3>1. \A l \in 0 .. Slots - 1 : s # Rendered(l)
      BY SemNames
    <3>2. \A l \in 0 .. Slots - 1 : G[j] # PresentBatch(l)
      BY <1>1, <3>1, PresentBatchFields
    <3>3. GraphicsEntry(j)
      BY DEF QueueInv
    <3> QED
      BY <3>2, <3>3 DEF GraphicsEntry, FrameBatch
  <2>2. G[j].cmd = G[k].cmd
    <3>1. CASE s = Acquired(i)
      BY <1>1, <3>1, BatchSemaphores
    <3>2. CASE s = Uploaded
      <4>1. /\ reader = G[j].cmd \/ (Taking /\ pc[Drawer] = "unlock" /\ G[j].cmd = Slot)
            /\ reader = G[k].cmd \/ (Taking /\ pc[Drawer] = "unlock" /\ G[k].cmd = Slot)
            /\ Taking => reader = None
        BY <1>1, <3>2 DEF UploadedInv
      <4>2. \A m \in 1 .. Len(G) : s \in G[m].waits => G[m].cmd # None
        BY <3>2, EntryFields, SemNames, Numbers
      <4> QED
        BY <1>1, <4>1, <4>2
    <3> QED
      BY <3>1, <3>2
  <2> QED
    BY <1>1, <2>1, <2>2
<1>2. \A x : x \in Waits(s) <=> \E k \in 1 .. Len(G) : x = <<Graphics, k>> /\ s \in G[k].waits
  BY PlacesAre, BatchSemaphores
<1>3. CASE ~Waited(s)
  <2>1. Waits(s) = {}
    BY <1>2, <1>3 DEF Waited
  <2> QED
    BY <1>1, <1>3, <2>1, FS_EmptySet
<1>4. CASE Waited(s)
  <2>1. PICK k \in 1 .. Len(G) : s \in G[k].waits
    BY <1>4 DEF Waited
  <2>2. Waits(s) = {<<Graphics, k>>}
    BY <1>1, <1>2, <2>1
  <2> QED
    BY <1>1, <1>4, <2>2, FS_Singleton
<1> QED
  BY <1>3, <1>4

\* Each presentation that waits follows the signal it waits for, but the first.
LEMMA RenderedPairs ==
  ASSUME SyncInv, NEW i \in 0 .. Slots - 1
  PROVE  LET s == Rendered(i)
             first == IF G # <<>> /\ G[1] = PresentBatch(i) THEN 1 ELSE 0
             last == IF G # <<>> /\ G[Len(G)].signals = {s} THEN 1 ELSE 0
         IN  Cardinality(Waits(s)) + last = Cardinality(Signals(s)) + first
<1> DEFINE s == Rendered(i)
           n == Len(G)
           W == Waits(s) \ {<<Graphics, 1>>}
           S == Signals(s) \ {<<Graphics, n>>}
           f == [x \in S |-> <<Graphics, x[2] + 1>>]
<1> USE DEF SyncInv
<1>1. /\ G \in Seq(Call) /\ n \in Nat /\ (G = <<>> <=> n = 0) /\ s \in Sems /\ s # Uploaded
  BY QueueTypes, EmptyFacts, SemNames
<1>2. \A x : x \in Waits(s) <=> \E k \in 1 .. n : x = <<Graphics, k>> /\ G[k] = PresentBatch(i)
  BY PlacesAre, BatchSemaphores
<1>3. \A x : x \in Signals(s) <=> \E k \in 1 .. n : x = <<Graphics, k>> /\ G[k].signals = {s}
  BY <1>1, PlacesAre, BatchSemaphores
<1>4. IsFiniteSet(Waits(s)) /\ IsFiniteSet(Signals(s))
  BY PlacesAre
<1>5. /\ \A k : <<Graphics, k>>[2] = k
      /\ \A j, k : <<Graphics, j>> = <<Graphics, k>> => j = k
  OBVIOUS
<1> HIDE DEF s, n
<1>6. \A x : x \in S <=> \E k \in 1 .. n - 1 : x = <<Graphics, k>> /\ G[k].signals = {s}
  <2>1. \A k : k \in 1 .. n - 1 <=> k \in 1 .. n /\ k # n
    BY <1>1
  <2>2. \A x : x \in S <=> x \in Signals(s) /\ x # <<Graphics, n>>
    OBVIOUS
  <2> HIDE DEF S
  <2> QED
    BY <2>1, <2>2, <1>3, <1>5
<1>7. \A x : x \in W <=> \E k \in 2 .. n : x = <<Graphics, k>> /\ G[k] = PresentBatch(i)
  BY <1>1, <1>2, <1>5
<1>8. ASSUME NEW k \in 1 .. n - 1
      PROVE  G[k].signals = {s} <=> G[k + 1] = PresentBatch(i)
  <2>1. k \in 1 .. n /\ k + 1 \in 1 .. n /\ k # n /\ k + 1 # 1 /\ k + 1 - 1 = k
    BY <1>1, <1>8
  <2>2. ASSUME G[k].signals = {s} PROVE G[k + 1] = PresentBatch(i)
    <3>1. \A j \in 0 .. Slots - 1 : G[k] # PresentBatch(j)
      BY <2>2, PresentBatchFields
    <3>2. \A j \in 0 .. Slots - 1 : FrameBatch(G[k], j) => j = i
      BY <2>2, SemNames DEF FrameBatch, s
    <3>3. GraphicsEntry(k)
      BY <2>1 DEF QueueInv, n
    <3> QED
      BY <2>1, <2>2, <3>1, <3>2, <3>3 DEF GraphicsEntry, n
  <2>3. ASSUME G[k + 1] = PresentBatch(i) PROVE G[k].signals = {s}
    <3>1. \A j \in 0 .. Slots - 1 : G[k + 1] = PresentBatch(j) => j = i
      <4>1. PresentBatch(i).waits = {Rendered(i)} /\ \A j \in 0 .. Slots - 1 : PresentBatch(j).waits = {Rendered(j)}
        BY PresentBatchFields
      <4>2. \A j \in 0 .. Slots - 1 : Rendered(j) = Rendered(i) => j = i
        BY SemNames
      <4> QED
        BY <2>3, <4>1, <4>2
    <3>2. \A j \in 0 .. Slots - 1 : ~FrameBatch(G[k + 1], j)
      BY <2>3, PresentBatchFields, Numbers DEF FrameBatch
    <3>3. GraphicsEntry(k + 1)
      BY <2>1 DEF QueueInv, n
    <3> QED
      BY <2>1, <3>1, <3>2, <3>3 DEF GraphicsEntry, s
  <2> QED
    BY <2>2, <2>3
<1>9. IsFiniteSet(W) /\ IsFiniteSet(S) /\ Cardinality(W) = Cardinality(S)
  <2>1. IsFiniteSet(W) /\ IsFiniteSet(S)
    BY <1>4, FS_RemoveElement
  <2>2. f \in Bijection(S, W)
    <3> HIDE DEF S, W
    <3>1. ASSUME NEW x \in S PROVE f[x] \in W
      <4>1. PICK k \in 1 .. n - 1 : x = <<Graphics, k>> /\ G[k].signals = {s}
        BY <1>6, <3>1
      <4>2. f[x] = <<Graphics, k + 1>> /\ k + 1 \in 2 .. n
        BY <1>1, <1>5, <4>1, <3>1
      <4> QED
        BY <1>7, <1>8, <4>1, <4>2
    <3>2. ASSUME NEW x \in S, NEW y \in S, f[x] = f[y] PROVE x = y
      <4>1. PICK k \in 1 .. n - 1 : x = <<Graphics, k>>
        BY <1>6, <3>2
      <4>2. PICK m \in 1 .. n - 1 : y = <<Graphics, m>>
        BY <1>6, <3>2
      <4>3. f[x] = <<Graphics, k + 1>> /\ f[y] = <<Graphics, m + 1>>
        BY <1>5, <4>1, <4>2, <3>2
      <4>4. k + 1 = m + 1
        BY <3>2, <4>3, <1>5
      <4> QED
        BY <1>1, <4>1, <4>2, <4>4
    <3>3. ASSUME NEW y \in W PROVE \E x \in S : f[x] = y
      <4>1. PICK k \in 2 .. n : y = <<Graphics, k>> /\ G[k] = PresentBatch(i)
        BY <1>7, <3>3
      <4>2. k - 1 \in 1 .. n - 1 /\ k - 1 + 1 = k
        BY <1>1, <4>1
      <4>3. G[k - 1].signals = {s}
        BY <1>8, <4>1, <4>2
      <4>4. <<Graphics, k - 1>> \in S
        BY <1>6, <4>2, <4>3
      <4>5. f[<<Graphics, k - 1>>] = y
        BY <1>5, <4>1, <4>2, <4>4
      <4> QED
        BY <4>4, <4>5
    <3>4. f \in [S -> W]
      BY <3>1
    <3> HIDE DEF f
    <3> QED
      BY <3>2, <3>3, <3>4 DEF Bijection, Injection, Surjection, IsInjective
  <2> QED
    BY <2>1, <2>2, FS_Bijection DEF ExistsBijection
<1>10. Cardinality(W) = Cardinality(Waits(s)) - (IF G # <<>> /\ G[1] = PresentBatch(i) THEN 1 ELSE 0)
  <2>1. <<Graphics, 1>> \in Waits(s) <=> G # <<>> /\ G[1] = PresentBatch(i)
    BY <1>1, <1>2, <1>5
  <2>2. Cardinality(W) = IF <<Graphics, 1>> \in Waits(s) THEN Cardinality(Waits(s)) - 1 ELSE Cardinality(Waits(s))
    BY <1>4, FS_RemoveElement
  <2>3. Cardinality(Waits(s)) \in Nat
    BY <1>4, FS_CardinalityType
  <2> QED
    BY <2>1, <2>2, <2>3
<1>11. Cardinality(S) = Cardinality(Signals(s)) - (IF G # <<>> /\ G[n].signals = {s} THEN 1 ELSE 0)
  <2>1. <<Graphics, n>> \in Signals(s) <=> G # <<>> /\ G[n].signals = {s}
    <3>1. <<Graphics, n>> \in Signals(s) => n \in 1 .. n /\ G[n].signals = {s}
      BY <1>3, <1>5
    <3>2. n \in 1 .. n <=> G # <<>>
      BY <1>1
    <3> QED
      BY <1>3, <3>1, <3>2
  <2>2. Cardinality(S) = IF <<Graphics, n>> \in Signals(s) THEN Cardinality(Signals(s)) - 1 ELSE Cardinality(Signals(s))
    BY <1>4, FS_RemoveElement
  <2>3. Cardinality(Signals(s)) \in Nat
    BY <1>4, FS_CardinalityType
  <2> QED
    BY <2>1, <2>2, <2>3
<1>12. Cardinality(Waits(s)) \in Nat /\ Cardinality(Signals(s)) \in Nat
  BY <1>4, FS_CardinalityType
<1> HIDE DEF W, S
<1> DEFINE first == IF G # <<>> /\ G[1] = PresentBatch(i) THEN 1 ELSE 0
           last == IF G # <<>> /\ G[n].signals = {s} THEN 1 ELSE 0
<1>13. first \in Nat /\ last \in Nat
  OBVIOUS
<1>14. Cardinality(W) = Cardinality(Waits(s)) - first /\ Cardinality(S) = Cardinality(Signals(s)) - last
  BY <1>10, <1>11
<1>15. Cardinality(Waits(s)) + last = Cardinality(Signals(s)) + first
  <2> HIDE DEF first, last
  <2>1. Cardinality(Waits(s)) - first = Cardinality(Signals(s)) - last
    BY <1>9, <1>14, Zenon
  <2> QED
    BY <2>1, <1>12, <1>13
<1> QED
  BY <1>15 DEF s, n

LEMMA RenderedFollows ==
  ASSUME SyncInv, NEW i \in 0 .. Slots - 1, \A c \in Calls : Rendered(i) \notin c.waits \cup c.signals
  PROVE  (IF signaled[Rendered(i)] THEN 1 ELSE 0) + Cardinality(Waits(Rendered(i)))
           = (IF payload[Rendered(i)] = "idle" THEN 0 ELSE 1) + Cardinality(Signals(Rendered(i)))
<1> DEFINE s == Rendered(i)
           first == IF G # <<>> /\ G[1] = PresentBatch(i) THEN 1 ELSE 0
           last == IF G # <<>> /\ G[Len(G)].signals = {s} THEN 1 ELSE 0
<1> USE DEF SyncInv
<1>1. Cardinality(Waits(s)) + last = Cardinality(Signals(s)) + first
  BY RenderedPairs
<1>2. Cardinality(Waits(s)) \in Nat /\ Cardinality(Signals(s)) \in Nat
  BY PlacesAre, FS_CardinalityType
<1>3. RenderedAt(i) /\ payload[s] \in {"idle", "engine", "signaled"} /\ pc[Drawer] \in DrawerLabels
  BY SemNames DEF RenderedInv, TypeInv
<1>4. G # <<>> /\ G[1] = PresentBatch(i) => payload[s] = "signaled"
  <2>1. SUFFICES ASSUME G # <<>>, G[1] = PresentBatch(i) PROVE payload[s] = "signaled"
    OBVIOUS
  <2>2. 1 \in 1 .. Len(G)
    BY <2>1, QueueTypes, EmptyFacts
  <2>3. GraphicsEntry(1)
    BY <2>2 DEF QueueInv
  <2>4. \A j \in 0 .. Slots - 1 : ~FrameBatch(G[1], j)
    BY <2>1, PresentBatchFields, Numbers DEF FrameBatch
  <2>5. \A j \in 0 .. Slots - 1 : G[1] = PresentBatch(j) => j = i
    <3>1. PresentBatch(i).waits = {Rendered(i)} /\ \A j \in 0 .. Slots - 1 : PresentBatch(j).waits = {Rendered(j)}
      BY PresentBatchFields
    <3>2. \A j \in 0 .. Slots - 1 : Rendered(j) = Rendered(i) => j = i
      BY SemNames
    <3> QED
      BY <2>1, <3>1, <3>2
  <2> QED
    BY <2>3, <2>4, <2>5 DEF GraphicsEntry
<1>5. G # <<>> /\ G[Len(G)].signals = {s} => Open /\ i = Slot
  <2>1. SUFFICES ASSUME G # <<>>, G[Len(G)].signals = {s} PROVE Open /\ i = Slot
    OBVIOUS
  <2>2. Len(G) \in 1 .. Len(G)
    BY <2>1, QueueTypes, EmptyFacts
  <2>3. GraphicsEntry(Len(G))
    BY <2>2 DEF QueueInv
  <2>4. \A j \in 0 .. Slots - 1 : G[Len(G)] # PresentBatch(j)
    BY <2>1, PresentBatchFields
  <2>5. \A j \in 0 .. Slots - 1 : FrameBatch(G[Len(G)], j) => j = i
    BY <2>1, SemNames DEF FrameBatch
  <2> QED
    BY <2>1, <2>3, <2>4, <2>5 DEF GraphicsEntry
<1>6. ASSUME i = Slot, pc[Drawer] \in {"lock", "enqueue"} PROVE FALSE
  <2>1. call[Drawer] \in Calls
    BY <1>6, ThreadNames DEF Calls
  <2>2. CASE FrameCall
    BY <1>6, <2>1, <2>2 DEF CallInv
  <2>3. CASE ~FrameCall
    <3>1. PresentCall
      BY <1>6, <2>3 DEF PresentCall, FrameCall, InCall
    <3> QED
      BY <1>6, <2>1, <3>1, PresentBatchFields DEF CallInv
  <2> QED
    BY <2>2, <2>3
<1>7. signaled[s] <=> Open /\ i = Slot
  BY <1>3, <1>6 DEF RenderedAt, Open, FrameCall, PresentCall, InCall
<1>8. CASE G = <<>>
  <2>1. (payload[s] = "idle") <=> ~signaled[s]
    BY <1>3, <1>7, <1>8 DEF RenderedAt
  <2> QED
    BY <1>1, <1>2, <1>8, <2>1
<1>9. CASE G # <<>>
  <2>1. (payload[s] = "idle") <=> G[1] # PresentBatch(i)
    BY <1>3, <1>4, <1>9 DEF RenderedAt
  <2>2. signaled[s] <=> G[Len(G)].signals = {s}
    BY <1>3, <1>5, <1>7, <1>9 DEF RenderedAt
  <2> QED
    BY <1>1, <1>2, <1>9, <2>1, <2>2
<1> QED
  BY <1>8, <1>9

LEMMA AcquiredFollows ==
  ASSUME SyncInv, NEW i \in 0 .. Slots - 1, \A c \in Calls : Acquired(i) \notin c.waits \cup c.signals
  PROVE  (IF signaled[Acquired(i)] THEN 1 ELSE 0) + Cardinality(Waits(Acquired(i)))
           = (IF payload[Acquired(i)] = "idle" THEN 0 ELSE 1) + Cardinality(Signals(Acquired(i)))
<1> DEFINE s == Acquired(i)
<1> USE DEF SyncInv
<1>1. s \in Sems /\ s # Uploaded
  BY SemNames
<1>2. Cardinality(Waits(s)) = IF Waited(s) THEN 1 ELSE 0
  BY <1>1, OneFrameWaits
<1>3. Signals(s) = {}
  BY <1>1, PlacesAre, BatchSemaphores
<1>4. ~(pc[Drawer] \in {"lock", "enqueue"} /\ s \in call[Drawer].waits)
  BY ThreadNames DEF Calls
<1>5. ~(signaled[s] /\ Waited(s))
  <2>1. SUFFICES ASSUME signaled[s], NEW k \in 1 .. Len(G), s \in G[k].waits PROVE FALSE
    BY DEF Waited
  <2>2. i = Slot /\ fence[FrameFence(i)] = "reset"
    BY <2>1 DEF AcquiredInv, AcquiredAt, FenceInv
  <2>3. G[k].cmd = i
    BY <2>1, BatchSemaphores
  <2> QED
    BY <2>2, <2>3, EntryFields, Numbers
<1>6. payload[s] # "idle" <=> signaled[s] \/ Waited(s)
  BY <1>4 DEF AcquiredInv, AcquiredAt
<1> QED
  BY <1>2, <1>3, <1>5, <1>6, FS_EmptySet

LEMMA UploadedFollows ==
  ASSUME SyncInv, \A c \in Calls : Uploaded \notin c.waits \cup c.signals
  PROVE  (IF signaled[Uploaded] THEN 1 ELSE 0) + Cardinality(Waits(Uploaded))
           = (IF payload[Uploaded] = "idle" THEN 0 ELSE 1) + Cardinality(Signals(Uploaded))
<1> DEFINE s == Uploaded
<1> USE DEF SyncInv
<1>1. Cardinality(Waits(s)) = IF Waited(s) THEN 1 ELSE 0
  BY SemNames, Numbers, OneFrameWaits
<1>2. Cardinality(Signals(s)) = IF T # <<>> THEN 1 ELSE 0
  <2>1. \A x : x \in Signals(s) <=> \E k \in 1 .. Len(T) : x = <<Transfer, k>>
    BY PlacesAre, BatchSemaphores
  <2>2. CASE T = <<>>
    <3>1. Len(T) = 0
      BY <2>2
    <3>2. Signals(s) = {}
      BY <2>1, <3>1
    <3> QED
      BY <2>2, <3>2, FS_EmptySet
  <2>3. CASE T # <<>>
    <3>1. Len(T) = 1
      <4>1. Len(T) <= 1 /\ Len(T) \in Nat
        BY QueueTypes DEF QueueInv
      <4>2. Len(T) # 0
        BY <2>3, QueueTypes, EmptyFacts
      <4>3. \A n \in Nat : n <= 1 /\ n # 0 => n = 1
        OBVIOUS
      <4> QED
        BY <4>1, <4>2, <4>3, Zenon
    <3>2. Signals(s) = {<<Transfer, 1>>}
      BY <2>1, <3>1
    <3> QED
      BY <2>3, <3>2, FS_Singleton
  <2> QED
    BY <2>2, <2>3
<1>3. pc[Loader] \notin {"lock", "enqueue"}
  <2>1. SUFFICES ASSUME pc[Loader] \in {"lock", "enqueue"} PROVE FALSE
    OBVIOUS
  <2>2. call[Loader] \in Calls /\ call[Loader] = UploadBatch
    BY <2>1, ThreadNames DEF Calls, CallInv, InCall
  <2> QED
    BY <2>2, UploadBatchFields
<1>4. Taking => pc[Drawer] = "unlock"
  <2>1. SUFFICES ASSUME Taking, pc[Drawer] \in {"lock", "enqueue"} PROVE FALSE
    BY DEF Taking, FrameCall, InCall
  <2>2. call[Drawer] \in Calls
    BY <2>1, ThreadNames DEF Calls
  <2> QED
    BY <2>1, <2>2 DEF CallInv, FrameBatch, Taking
<1>5. Waited(s) => reader # None \/ Taking
  <2>1. SUFFICES ASSUME NEW k \in 1 .. Len(G), s \in G[k].waits PROVE reader # None \/ Taking
    BY DEF Waited
  <2>2. G[k].cmd # None
    BY <2>1, EntryFields, SemNames, Numbers
  <2> QED
    BY <2>1, <2>2 DEF UploadedInv
<1>6. /\ signaled[s] <=> pc[Loader] \in {"unlock", "handover"} \/ (handed /\ ~Taking)
      /\ payload[s] = "signaled" \/ T # <<>> <=>
           pc[Loader] \in {"unlock", "handover"} \/ (handed /\ ~Taking) \/ Waited(s)
      /\ ~(payload[s] = "signaled" /\ T # <<>>) /\ payload[s] # "engine"
      /\ payload[s] \in {"idle", "engine", "signaled"}
  BY <1>3, <1>4, SemNames DEF UploadedInv, TypeInv
<1>7. ~(signaled[s] /\ Waited(s))
  BY <1>5, <1>6 DEF UploadedInv
<1> QED
  BY <1>1, <1>2, <1>6, <1>7

LEMMA FlagsFollow ==
  ASSUME SyncInv
  PROVE  FlagsFollowDriver
BY RenderedFollows, AcquiredFollows, UploadedFollows, SemNames DEF FlagsFollowDriver

LEMMA WaitsAnswered ==
  ASSUME SyncInv
  PROVE  WaitsAreAnswered
<1> USE DEF SyncInv
<1>1. ASSUME NEW i \in 0 .. Slots - 1, Waits(Rendered(i)) # {}
      PROVE  payload[Rendered(i)] # "idle" \/ Signals(Rendered(i)) # {}
  <2> DEFINE s == Rendered(i)
  <2>1. PICK k \in 1 .. Len(G) : G[k] = PresentBatch(i)
    BY <1>1, PlacesAre, BatchSemaphores
  <2>2. GraphicsEntry(k)
    BY DEF QueueInv
  <2>3. \A j \in 0 .. Slots - 1 : ~FrameBatch(G[k], j)
    BY <2>1, PresentBatchFields, Numbers DEF FrameBatch
  <2>4. \A j \in 0 .. Slots - 1 : G[k] = PresentBatch(j) => j = i
    <3>1. PresentBatch(i).waits = {Rendered(i)} /\ \A j \in 0 .. Slots - 1 : PresentBatch(j).waits = {Rendered(j)}
      BY PresentBatchFields
    <3>2. \A j \in 0 .. Slots - 1 : Rendered(j) = Rendered(i) => j = i
      BY SemNames
    <3> QED
      BY <2>1, <3>1, <3>2
  <2>5. IF k = 1 THEN payload[s] = "signaled" ELSE G[k - 1].signals = {s}
    BY <2>2, <2>3, <2>4 DEF GraphicsEntry
  <2>6. CASE k = 1
    BY <2>5, <2>6
  <2>7. CASE k # 1
    <3>1. k - 1 \in 1 .. Len(G) /\ s \in G[k - 1].signals
      BY <2>5, <2>7, QueueTypes
    <3>2. <<Graphics, k - 1>> \in Signals(s)
      BY <3>1, PlacesAre
    <3> QED
      BY <3>2
  <2> QED
    BY <2>6, <2>7
<1>2. ASSUME NEW i \in 0 .. Slots - 1, Waits(Acquired(i)) # {}
      PROVE  payload[Acquired(i)] # "idle"
  BY <1>2, SemNames, OneFrameWaits DEF AcquiredInv, AcquiredAt
<1>3. ASSUME Waits(Uploaded) # {}
      PROVE  payload[Uploaded] # "idle" \/ Signals(Uploaded) # {}
  <2>1. Waited(Uploaded)
    BY <1>3, SemNames, Numbers, OneFrameWaits
  <2>2. payload[Uploaded] = "signaled" \/ T # <<>>
    BY <2>1 DEF UploadedInv
  <2>3. ASSUME T # <<>> PROVE Signals(Uploaded) # {}
    <3>1. 1 \in 1 .. Len(T)
      BY <2>3, QueueTypes, EmptyFacts
    <3>2. <<Transfer, 1>> \in Signals(Uploaded)
      BY <3>1, PlacesAre, BatchSemaphores
    <3> QED
      BY <3>2
  <2> QED
    BY <2>2, <2>3
<1> QED
  BY <1>1, <1>2, <1>3, SemNames DEF WaitsAreAnswered

LEMMA TypesOK ==
  ASSUME SyncInv
  PROVE  SyncTypeOK
<1>1. TypeInv /\ LockInv
  BY DEF SyncInv
<1>2. \A q \in Queues : \A k \in DOMAIN queue[q] : queue[q][k] \in Call
  BY <1>1 DEF TypeInv
<1>3. pc \in [Threads -> {"poll", "wait", "acquire", "waitimage", "recreate", "record",
                         "fill", "submit", "lock", "enqueue", "unlock", "present",
                         "idle", "handover", "closing", "closed"}]
  BY <1>1 DEF TypeInv, DrawerLabels, LoaderLabels
<1> QED
  BY <1>1, <1>2, <1>3 DEF TypeInv, LockInv, SyncTypeOK

LEMMA PoolsAreIdle ==
  ASSUME SyncInv
  PROVE  PoolIsIdle
<1> USE DEF SyncInv
<1>1. SUFFICES ASSUME pc[Drawer] \in {"record", "fill"}, NEW b \in Batches, b.cmd = Slot PROVE FALSE
  BY DEF PoolIsIdle
<1>2. fence[FrameFence(Slot)] = "reset" /\ Slot \in 0 .. Slots - 1 /\ Slot # None
  BY <1>1, QueueTypes DEF FenceInv
<1>3. \/ \E k \in 1 .. Len(G) : b = G[k]
      \/ \E k \in 1 .. Len(T) : b = T[k]
  BY <1>1, QueueTypes, QueueNames DEF Batches, G, T
<1>4. CASE \E k \in 1 .. Len(G) : b = G[k]
  BY <1>1, <1>2, <1>4, EntryFields
<1>5. CASE \E k \in 1 .. Len(T) : b = T[k]
  BY <1>1, <1>2, <1>5, UploadBatchFields DEF QueueInv
<1> QED
  BY <1>3, <1>4, <1>5

\* What the driver executes next.
LEMMA NextIsReady ==
  ASSUME SyncInv, NEW q \in Queues, queue[q] # <<>>
  PROVE  \A s \in Head(queue[q]).signals : payload[s] = "idle"
<1> USE DEF SyncInv
<1>1. CASE q = Graphics
  <2>1. G # <<>> /\ 1 \in 1 .. Len(G) /\ Head(queue[q]) = G[1]
    BY <1>1, QueueTypes, TailFacts DEF G
  <2>2. CASE \E i \in 0 .. Slots - 1 : FrameBatch(G[1], i)
    <3>1. PICK i \in 0 .. Slots - 1 : FrameBatch(G[1], i)
      BY <2>2
    <3>2. G[1] # PresentBatch(i) /\ G[1].signals \subseteq {Rendered(i)}
      BY <3>1, PresentBatchFields, Numbers DEF FrameBatch
    <3>3. payload[Rendered(i)] = "idle"
      BY <2>1, <3>2, SemNames DEF RenderedInv, RenderedAt, TypeInv
    <3> QED
      BY <2>1, <3>2, <3>3
  <2>3. CASE G[1].signals = {}
    BY <2>1, <2>3
  <2> QED
    BY <2>1, <2>2, <2>3, EntryFields
<1>2. CASE q = Transfer
  <2>1. T # <<>> /\ 1 \in 1 .. Len(T) /\ Head(queue[q]) = T[1]
    BY <1>2, QueueTypes, TailFacts DEF T
  <2>2. Head(queue[q]).signals = {Uploaded}
    BY <2>1, BatchSemaphores
  <2>3. payload[Uploaded] = "idle"
    BY <2>1, SemNames DEF UploadedInv, TypeInv
  <2> QED
    BY <2>2, <2>3
<1> QED
  BY <1>1, <1>2, QueueNames

LEMMA ShorterIsNotEmpty ==
  ASSUME SyncInv, SyncInv', NEW q \in Queues, Len(queue'[q]) < Len(queue[q])
  PROVE  queue[q] # <<>>
<1>1. queue[q] \in Seq(Call) /\ queue'[q] \in Seq(Call)
  BY DEF SyncInv, TypeInv
<1>2. Len(queue[q]) \in Nat /\ Len(queue'[q]) \in Nat
  BY <1>1
<1>3. Len(queue[q]) # 0
  BY <1>2
<1> QED
  BY <1>1, <1>3, EmptyFacts

LEMMA SignalsAreIdle ==
  ASSUME SyncInv, SyncInv'
  PROVE  \A q \in Queues : Len(queue'[q]) < Len(queue[q]) =>
           \A s \in Head(queue[q]).signals : payload[s] = "idle"
BY ShorterIsNotEmpty, NextIsReady

\* How a step changes the queues.
LEMMA QueueSteps ==
  ASSUME SyncInv, SyncStep
  PROVE  \/ queue' = queue
         \/ \E c \in Call : /\ queue' = [queue EXCEPT ![Graphics] = Append(G, c)]
                            /\ c.fence # None => fence[c.fence] = "reset" /\ ~submitted[c.fence]
         \/ /\ queue' = [queue EXCEPT ![Transfer] = Append(T, UploadBatch)]
            /\ fence[UploadFence] = "reset" /\ ~submitted[UploadFence]
         \/ G # <<>> /\ queue' = [queue EXCEPT ![Graphics] = Tail(G)] /\ \A s \in G[1].waits : payload[s] = "signaled"
         \/ T # <<>> /\ queue' = [queue EXCEPT ![Transfer] = <<>>]
<1> USE DEF SyncInv
<1>1. CASE Creating
  <2>1. PICK c \in Call : FrameBatch(c, 0) /\ queue' = [queue EXCEPT ![Graphics] = Append(G, c)]
    BY <1>1 DEF Creating
  <2>2. fence[FrameFence(0)] = "reset" /\ ~submitted[FrameFence(0)] /\ c.fence = FrameFence(0)
    BY <1>1, <2>1, Numbers DEF Creating, FenceInv, FrameBatch
  <2> QED
    BY <2>1, <2>2
<1>2. CASE FrameEnqueued
  <2>1. /\ fence[FrameFence(Slot)] = "reset" /\ call[Drawer].fence = FrameFence(Slot)
        /\ Slot \in 0 .. Slots - 1 /\ call[Drawer] \in Call
    BY <1>2, QueueTypes DEF FrameEnqueued, FenceInv, CallInv, FrameBatch
  <2>2. ~submitted[FrameFence(Slot)]
    BY <2>1 DEF FenceInv, InUse
  <2> QED
    BY <1>2, <2>1, <2>2 DEF FrameEnqueued
<1>3. CASE PresentEnqueued
  <2>1. PresentBatch(Slot) \in Call /\ PresentBatch(Slot).fence = None
    BY QueueTypes, PresentBatchFields
  <2> QED
    BY <1>3, <2>1 DEF PresentEnqueued
<1>4. CASE UploadEnqueued
  BY <1>4 DEF UploadEnqueued, FenceInv
<1>5. CASE FrameExecuted
  BY <1>5 DEF FrameExecuted
<1>6. CASE PresentExecuted
  BY <1>6, PresentBatchFields DEF PresentExecuted
<1>7. CASE UploadExecuted
  BY <1>7 DEF UploadExecuted
<1>8. CASE \/ UNCHANGED syncVars \/ DrawerMoves \/ FrameIsDone \/ OutOfDate \/ ImageIsThere \/ UploadIsDone
           \/ AcquireWithSemaphore \/ AcquireWithFence \/ FrameTaken \/ PresentTaken \/ UploadTaken
           \/ \E t \in Threads : LockQueue(t)
           \/ FrameSubmitted \/ FramePresented \/ UploadSubmitted \/ HandOver \/ ImageIsFree
  <2>1. queue' = queue
    BY <1>8 DEF syncVars, driverVars, DrawerMoves, DrawerGoes, FrameIsDone, OutOfDate, ImageIsThere, UploadIsDone,
       AcquireWithSemaphore, AcquireWithFence, FrameTaken, PresentTaken, UploadTaken, LockQueue,
       FrameSubmitted, FramePresented, UploadSubmitted, HandOver, ImageIsFree
  <2> QED
    BY <2>1
<1> QED
  BY <1>1, <1>2, <1>3, <1>4, <1>5, <1>6, <1>7, <1>8 DEF SyncStep

LEMMA FencesAreFresh ==
  ASSUME SyncInv, SyncStep, NEW q \in Queues, Len(queue'[q]) > Len(queue[q]),
         queue'[q][Len(queue'[q])].fence # None
  PROVE  /\ fence[queue'[q][Len(queue'[q])].fence] = "reset"
         /\ ~submitted[queue'[q][Len(queue'[q])].fence]
<1> USE DEF SyncInv
<1>1. /\ queue \in [Queues -> Seq(Call)] /\ queue[Graphics] = G /\ queue[Transfer] = T
      /\ G \in Seq(Call) /\ T \in Seq(Call) /\ Len(G) \in Nat /\ Len(T) \in Nat
  BY QueueTypes DEF TypeInv, G, T
<1>2. CASE queue' = queue
  BY <1>1, <1>2, QueueNames
<1>3. CASE \E c \in Call : /\ queue' = [queue EXCEPT ![Graphics] = Append(G, c)]
                           /\ c.fence # None => fence[c.fence] = "reset" /\ ~submitted[c.fence]
  <2>1. PICK c \in Call : /\ queue' = [queue EXCEPT ![Graphics] = Append(G, c)]
                          /\ c.fence # None => fence[c.fence] = "reset" /\ ~submitted[c.fence]
    BY <1>3
  <2>2. q = Graphics /\ queue'[q] = Append(G, c)
    BY <1>1, <2>1, QueueNames
  <2>3. queue'[q][Len(queue'[q])] = c
    BY <1>1, <2>2, AppendFacts
  <2> QED
    BY <2>1, <2>3
<1>4. CASE /\ queue' = [queue EXCEPT ![Transfer] = Append(T, UploadBatch)]
           /\ fence[UploadFence] = "reset" /\ ~submitted[UploadFence]
  <2>1. q = Transfer /\ queue'[q] = Append(T, UploadBatch)
    BY <1>1, <1>4, QueueNames
  <2>2. queue'[q][Len(queue'[q])] = UploadBatch /\ UploadBatch.fence = UploadFence
    BY <1>1, <2>1, AppendFacts, UploadBatchFields
  <2> QED
    BY <1>4, <2>2
<1>5. CASE G # <<>> /\ queue' = [queue EXCEPT ![Graphics] = Tail(G)]
  <2>1. Len(Tail(G)) = Len(G) - 1
    BY <1>1, <1>5, TailFacts
  <2> QED
    BY <1>1, <1>5, <2>1, QueueNames
<1>6. CASE T # <<>> /\ queue' = [queue EXCEPT ![Transfer] = <<>>]
  <2>1. \A p \in Queues : queue'[p] = queue[p] \/ Len(queue'[p]) = 0
    BY <1>1, <1>6
  <2> QED
    BY <1>1, <2>1, QueueNames
<1> QED
  BY <1>2, <1>3, <1>4, <1>5, <1>6, QueueSteps

LEMMA UploadsAreUsedAfter ==
  ASSUME SyncInv, SyncInv', SyncStep, NEW q \in Queues, Len(queue'[q]) < Len(queue[q])
  PROVE  Head(queue[q]).needs <= uploadsDone
<1> USE DEF SyncInv
<1>1. /\ queue \in [Queues -> Seq(Call)] /\ queue[Graphics] = G /\ queue[Transfer] = T
      /\ G \in Seq(Call) /\ T \in Seq(Call) /\ Len(G) \in Nat /\ Len(T) \in Nat /\ queue[q] # <<>>
      /\ uploadsDone \in Nat /\ uploads \in Nat
  BY QueueTypes, ShorterIsNotEmpty, Numbers DEF TypeInv, G, T
<1>2. CASE q = Transfer
  <2>1. Head(queue[q]) = T[1] /\ 1 \in 1 .. Len(T)
    BY <1>1, <1>2, TailFacts
  <2>2. T[1].needs = 0
    BY <2>1, UploadBatchFields DEF QueueInv
  <2> QED
    BY <1>1, <2>1, <2>2
<1>3. CASE q = Graphics
  <2>1. Head(queue[q]) = G[1] /\ 1 \in 1 .. Len(G) /\ G # <<>>
    BY <1>1, <1>3, TailFacts
  <2>2. \A s \in G[1].waits : payload[s] = "signaled"
    <3>1. \A c \in Call : queue' # [queue EXCEPT ![Graphics] = Append(G, c)]
      BY <1>1, <1>3, AppendFacts, QueueNames
    <3>2. \A s : queue' = [queue EXCEPT ![Transfer] = s] => queue'[q] = queue[q]
      BY <1>1, <1>3, QueueNames
    <3>3. queue'[q] # queue[q]
      BY <1>1, <1>3
    <3>4. queue' # queue
      BY <3>3
    <3> QED
      BY <3>1, <3>2, <3>3, <3>4, QueueSteps
  <2>3. CASE Uploaded \in G[1].waits
    <3>1. payload[Uploaded] = "signaled" /\ T = <<>> /\ Len(T) = 0 /\ G[1].needs = uploads
      BY <2>1, <2>2, <2>3 DEF UploadedInv
    <3>2. G[1].cmd # None
      <4>1. \A i \in 0 .. Slots - 1 : Uploaded \notin {Rendered(i)} /\ i # None
        BY SemNames, Numbers
      <4> QED
        BY <2>1, <2>3, <4>1, EntryFields
    <3>3. pc[Loader] \notin {"lock", "enqueue"}
      BY <2>1, <2>3, <3>2 DEF UploadedInv
    <3>4. uploads = uploadsDone + Len(T) + (IF pc[Loader] \in {"lock", "enqueue"} THEN 1 ELSE 0)
      BY DEF UploadedInv
    <3> QED
      BY <1>1, <2>1, <3>1, <3>3, <3>4
  <2>4. CASE Uploaded \notin G[1].waits
    <3>1. G[1].needs \in Nat /\ ~(G[1].needs > 0)
      BY <2>1, <2>4, EntryFields, Numbers DEF FrameBatch
    <3> QED
      BY <1>1, <2>1, <3>1
  <2> QED
    BY <2>3, <2>4
<1> QED
  BY <1>2, <1>3, QueueNames
-----------------------------------------------------------------------------
(* The allocators do not run out.                                          *)

\* The notions of FiniteSets in the texture's instance.
LEMMA SetsOfTexture ==
  \A S : (VT!IsFiniteSet(S) <=> IsFiniteSet(S)) /\ VT!Cardinality(S) = Cardinality(S)
BY Zenon DEF VT!IsFiniteSet, IsFiniteSet, VT!Cardinality, Cardinality

LEMMA Textures ==
  /\ IsFiniteSet(Pages) /\ Cardinality(Pages) \in Nat
  /\ MipLevel \in [Pages -> Nat] /\ TiledLevels \in Nat
  /\ None \notin Memory /\ None \notin Buffers /\ Memory \cap Buffers = {}
  /\ IsFiniteSet(Memory) /\ IsFiniteSet(Buffers)
  /\ Cardinality(Memory) \in Nat /\ Cardinality(Buffers) \in Nat
<1>1. /\ IsFiniteSet(Pages) /\ MipLevel \in [Pages -> Nat] /\ TiledLevels \in Nat
      /\ None \notin Memory \cup Buffers /\ Memory \cap Buffers = {}
      /\ IsFiniteSet(Memory) /\ IsFiniteSet(Buffers)
  BY TextureAssumption, SetsOfTexture DEF VT!VTAssumption
<1>2. Cardinality(Pages) \in Nat /\ Cardinality(Memory) \in Nat /\ Cardinality(Buffers) \in Nat
  BY <1>1, FS_CardinalityType
<1> QED
  BY <1>1, <1>2

\* A set with no more members than another has an injection into it.
LEMMA GiveOk ==
  ASSUME NEW ps, NEW free, IsFiniteSet(ps), IsFiniteSet(free), Cardinality(ps) <= Cardinality(free)
  PROVE  /\ VT!Give(ps, free) \in [ps -> free]
         /\ \A p, q \in ps : p # q => VT!Give(ps, free)[p] # VT!Give(ps, free)[q]
<1> DEFINE n == Cardinality(ps)
           m == Cardinality(free)
<1>1. n \in Nat /\ m \in Nat /\ ExistsBijection(1 .. n, ps) /\ ExistsBijection(1 .. m, free)
  BY FS_CardinalityType
<1>2. PICK c : c \in Bijection(1 .. n, ps)
  BY <1>1 DEF ExistsBijection
<1>3. PICK d : d \in Bijection(1 .. m, free)
  BY <1>1 DEF ExistsBijection
<1>4. \A p \in ps : \E k \in 1 .. n : c[k] = p
  BY <1>2 DEF Bijection, Surjection
<1>5. d \in [1 .. m -> free] /\ \A j, k \in 1 .. m : d[j] = d[k] => j = k
  BY <1>3 DEF Bijection, Injection, IsInjective
<1> DEFINE at == [p \in ps |-> CHOOSE k \in 1 .. n : c[k] = p]
           f == [p \in ps |-> d[at[p]]]
<1>6. \A p \in ps : at[p] \in 1 .. n /\ c[at[p]] = p
  BY <1>4
<1> HIDE DEF at, n, m
<1>7. \A p \in ps : at[p] \in 1 .. m
  <2>1. n <= m
    BY DEF n, m
  <2> QED
    BY <1>1, <1>6, <2>1
<1>8. f \in [ps -> free]
  BY <1>5, <1>7
<1>9. \A p, q \in ps : p # q => f[p] # f[q]
  <2>1. SUFFICES ASSUME NEW p \in ps, NEW q \in ps, f[p] = f[q] PROVE p = q
    OBVIOUS
  <2>2. at[p] = at[q]
    BY <1>5, <1>7, <2>1
  <2> QED
    BY <1>6, <2>2
<1> HIDE DEF f
<1>10. \E g \in [ps -> free] : \A p, q \in ps : p # q => g[p] # g[q]
  BY <1>8, <1>9
<1> QED
  BY <1>10 DEF VT!Give

\* The members of finitely many lists of a bounded length.
LEMMA UnionBound ==
  ASSUME NEW I, IsFiniteSet(I), NEW L, NEW N \in Nat,
         \A i \in I : IsFiniteSet(L[i]) /\ Cardinality(L[i]) <= N
  PROVE  /\ IsFiniteSet(UNION {L[i] : i \in I})
         /\ Cardinality(UNION {L[i] : i \in I}) <= Cardinality(I) * N
<1> DEFINE U == UNION {L[i] : i \in I}
           c(i) == CHOOSE g : g \in Bijection(1 .. Cardinality(L[i]), L[i])
           list == [x \in U |-> CHOOSE i \in I : x \in L[i]]
           at == [x \in U |-> CHOOSE k \in 1 .. N : c(list[x])[k] = x]
           f == [x \in U |-> <<list[x], at[x]>>]
<1>1. ASSUME NEW i \in I, NEW x \in L[i]
      PROVE  \E k \in 1 .. N : c(i)[k] = x
  <2>1. Cardinality(L[i]) \in Nat /\ \E g : g \in Bijection(1 .. Cardinality(L[i]), L[i])
    BY FS_CardinalityType DEF ExistsBijection
  <2>2. c(i) \in Bijection(1 .. Cardinality(L[i]), L[i])
    BY <2>1
  <2>3. PICK k \in 1 .. Cardinality(L[i]) : c(i)[k] = x
    BY <2>2 DEF Bijection, Surjection
  <2>4. k \in 1 .. N
    BY <2>1, <2>3
  <2> QED
    BY <2>3, <2>4
<1>2. \A x \in U : list[x] \in I /\ x \in L[list[x]]
  OBVIOUS
<1> HIDE DEF c
<1>3. \A x \in U : at[x] \in 1 .. N /\ c(list[x])[at[x]] = x
  <2>1. SUFFICES ASSUME NEW x \in U PROVE at[x] \in 1 .. N /\ c(list[x])[at[x]] = x
    OBVIOUS
  <2>2. \E k \in 1 .. N : c(list[x])[k] = x
    BY <1>1, <1>2
  <2> HIDE DEF list
  <2> QED
    BY <2>2
<1> HIDE DEF at, list, U
<1>4. f \in [U -> I \X (1 .. N)]
  BY <1>2, <1>3
<1>5. \A x, y \in U : f[x] = f[y] => x = y
  <2>1. SUFFICES ASSUME NEW x \in U, NEW y \in U, f[x] = f[y] PROVE x = y
    OBVIOUS
  <2>2. list[x] = list[y] /\ at[x] = at[y]
    BY <2>1
  <2> QED
    BY <1>3, <2>2
<1>6. /\ IsFiniteSet(I \X (1 .. N)) /\ Cardinality(I \X (1 .. N)) = Cardinality(I) * N
  <2>1. 1 \in Int /\ N \in Int
    OBVIOUS
  <2>2. IsFiniteSet(1 .. N) /\ Cardinality(1 .. N) = N
    BY <2>1, FS_Interval
  <2> QED
    BY <2>2, FS_Product
<1> HIDE DEF f
<1>7. f \in Injection(U, I \X (1 .. N))
  BY <1>4, <1>5 DEF Injection, IsInjective
<1>8. IsFiniteSet(U) /\ Cardinality(U) <= Cardinality(I \X (1 .. N))
  BY <1>6, <1>7, FS_Injection
<1> QED
  BY <1>6, <1>8 DEF U

\* The values of a function on a finite set.
LEMMA ImageBound ==
  ASSUME NEW S, IsFiniteSet(S), NEW f
  PROVE  IsFiniteSet({f[x] : x \in S}) /\ Cardinality({f[x] : x \in S}) <= Cardinality(S)
<1> DEFINE V == {f[x] : x \in S}
           g == [x \in S |-> f[x]]
<1>1. g \in [S -> V] /\ \A v \in V : \E x \in S : g[x] = v
  OBVIOUS
<1> HIDE DEF g
<1>2. g \in Surjection(S, V)
  BY <1>1 DEF Surjection
<1> QED
  BY <1>2, FS_Surjection
-----------------------------------------------------------------------------
(* What the steps do to the pages: the arrays grow with empty lists, and the *)
(* allocators give each new page something of its own.                       *)

\* The arrays after an image was met.
Grown(lists, image, D, more) ==
  /\ D = DOMAIN lists \cup 0 .. image
  /\ DOMAIN more = D
  /\ \A i \in D : more[i] = IF i \in DOMAIN lists THEN lists[i] ELSE {}
\* Pages get memory and staging buffers (AllocatePages and UploadPages).
UploadStep(image, new, mem, buf, D) ==
  /\ new \subseteq Pages /\ mem \in [new -> Memory] /\ buf \in [new -> Buffers]
  /\ \A p \in new : alloc[p] = None /\ mem[p] \notin live \cup opaque' /\ buf[p] \notin live
  /\ \A p, q \in new : p # q => mem[p] # mem[q] /\ buf[p] # buf[q]
  /\ opaque \subseteq opaque' /\ (opaque' \ opaque) \cap live = {}
  /\ \E m \in Memory : opaque' \subseteq {m}
  /\ alloc' = [p \in Pages |-> IF p \in new THEN mem[p] ELSE alloc[p]]
  /\ alive' = alive + Cardinality(new)
  /\ live' = live \cup {mem[p] : p \in new} \cup {buf[p] : p \in new} \cup opaque'
  /\ D = DOMAIN pendingMem \cup 0 .. image
  /\ DOMAIN pendingMem' = D /\ DOMAIN pendingBuf' = D
  /\ \A i \in D : pendingMem'[i] = IF i \in DOMAIN pendingMem THEN pendingMem[i] ELSE {}
  /\ \A i \in D : pendingBuf'[i] = IF i = image THEN {buf[p] : p \in new}
                                   ELSE IF i \in DOMAIN pendingMem THEN pendingBuf[i] ELSE {}
  /\ image \in DOMAIN pendingMem => pendingBuf[image] = {}
  /\ uses' = [uses EXCEPT ![image] = {alloc'[p] : p \in VT!Resident(alloc')} \cup {buf[p] : p \in new} \cup opaque']
  /\ removed' = removed
\* Pages lose their memory, what was put on the lists of the image is freed.
ReleaseStep(image, gone, D, old) ==
  /\ gone \subseteq Pages \ VT!Lowest /\ \A p \in gone : alloc[p] # None
  /\ D = DOMAIN pendingMem \cup 0 .. image
  /\ old = IF image \in DOMAIN pendingMem THEN pendingMem[image] \cup pendingBuf[image] ELSE {}
  /\ live' = live \ old
  /\ DOMAIN pendingMem' = D /\ DOMAIN pendingBuf' = D
  /\ \A i \in D : pendingMem'[i] = IF i = image THEN {alloc[p] : p \in gone}
                                   ELSE IF i \in DOMAIN pendingMem THEN pendingMem[i] ELSE {}
  /\ \A i \in D : pendingBuf'[i] = IF i = image THEN {}
                                   ELSE IF i \in DOMAIN pendingMem THEN pendingBuf[i] ELSE {}
  /\ alloc' = [p \in Pages |-> IF p \in gone THEN None ELSE alloc[p]]
  /\ alive' = alive - Cardinality(gone)
  /\ UNCHANGED <<opaque, uses, removed>>

LEMMA ArraysGrow ==
  ASSUME NEW lists, NEW image \in 0 .. Slots - 1, DOMAIN lists \subseteq 0 .. Slots - 1,
         \A i \in DOMAIN lists : 0 .. i \subseteq DOMAIN lists
  PROVE  Grown(lists, image, DOMAIN lists \cup 0 .. image, VT!PendingDeletion(lists, image))
<1>1. CASE image \in DOMAIN lists
  <2>1. DOMAIN lists \cup 0 .. image = DOMAIN lists /\ VT!PendingDeletion(lists, image) = lists
    BY <1>1 DEF VT!PendingDeletion
  <2> QED
    BY <2>1 DEF Grown
<1>2. CASE image \notin DOMAIN lists
  <2>1. \A i \in DOMAIN lists : i \in 0 .. image
    <3>1. SUFFICES ASSUME NEW i \in DOMAIN lists, i \notin 0 .. image PROVE FALSE
      OBVIOUS
    <3>2. i \in Nat /\ image \in Nat /\ image \in 0 .. i
      BY <3>1, Numbers
    <3> QED
      BY <1>2, <3>2
  <2>2. DOMAIN lists \cup 0 .. image = 0 .. image
    BY <2>1
  <2> QED
    BY <1>2, <2>2 DEF Grown, VT!PendingDeletion
<1> QED
  BY <1>1, <1>2

\* The invariant, member by member.
LEMMA PagesFacts ==
  ASSUME PagesInv
  PROVE  /\ alloc \in [Pages -> Memory \cup {None}] /\ alive \in Nat /\ opaque \subseteq Memory
         /\ DOMAIN pendingBuf = DOMAIN pendingMem /\ DOMAIN pendingMem \subseteq 0 .. Slots - 1
         /\ uses \in [0 .. Slots - 1 -> SUBSET (Memory \cup Buffers)] /\ removed \in BOOLEAN
         /\ \A i \in DOMAIN pendingMem : /\ pendingMem[i] \subseteq Memory /\ pendingBuf[i] \subseteq Buffers
                                         /\ 0 .. i \subseteq DOMAIN pendingMem
         /\ \A x : x \in VT!Pending <=> \E i \in DOMAIN pendingMem : x \in pendingMem[i] \/ x \in pendingBuf[i]
         /\ \A x : x \in live <=> \/ \E p \in Pages : alloc[p] # None /\ x = alloc[p]
                                  \/ x \in opaque \/ x \in VT!Pending
         /\ \A p, q \in Pages : alloc[p] # None /\ alloc[q] # None /\ p # q => alloc[p] # alloc[q]
         /\ \A p \in Pages : alloc[p] # None => alloc[p] \notin VT!Pending /\ alloc[p] \notin opaque
         /\ \A x \in opaque : x \notin VT!Pending
         /\ \A i, j \in DOMAIN pendingMem : i # j =>
              pendingMem[i] \cap pendingMem[j] = {} /\ pendingBuf[i] \cap pendingBuf[j] = {}
<1>1. /\ alloc \in [Pages -> Memory \cup {None}] /\ opaque \subseteq Memory
      /\ DOMAIN pendingBuf = DOMAIN pendingMem /\ DOMAIN pendingMem \subseteq 0 .. Slots - 1
      /\ uses \in [0 .. Slots - 1 -> SUBSET (Memory \cup Buffers)] /\ removed \in BOOLEAN
  BY DEF PagesInv, VT!VTTypeOK
<1>2. alive \in Nat
  BY Textures DEF PagesInv, VT!VTTypeOK
<1>3. \A x : x \in VT!Pending <=> \E i \in DOMAIN pendingMem : x \in pendingMem[i] \/ x \in pendingBuf[i]
  BY <1>1 DEF VT!Pending
<1>4. \A x : x \in live <=> \/ \E p \in Pages : alloc[p] # None /\ x = alloc[p]
                            \/ x \in opaque \/ x \in VT!Pending
  BY DEF PagesInv, VT!OneOwner, VT!Resident
<1>5. \A p, q \in Pages : alloc[p] # None /\ alloc[q] # None /\ p # q => alloc[p] # alloc[q]
  BY DEF PagesInv, VT!OneOwner, VT!Resident
<1>6. /\ \A p \in Pages : alloc[p] # None => alloc[p] \notin VT!Pending /\ alloc[p] \notin opaque
      /\ \A x \in opaque : x \notin VT!Pending
  BY DEF PagesInv, VT!OneOwner, VT!Resident
<1>7. /\ \A i, j \in DOMAIN pendingMem : i # j =>
           pendingMem[i] \cap pendingMem[j] = {} /\ pendingBuf[i] \cap pendingBuf[j] = {}
      /\ \A i \in DOMAIN pendingMem : /\ pendingMem[i] \subseteq Memory /\ pendingBuf[i] \subseteq Buffers
                                      /\ 0 .. i \subseteq DOMAIN pendingMem
  BY DEF PagesInv, VT!OneOwner
<1> QED
  BY <1>1, <1>2, <1>3, <1>4, <1>5, <1>6, <1>7

\* There is memory for the pages that have none.
LEMMA RoomForPages ==
  ASSUME PagesInv, NEW new \in SUBSET Pages, \A p \in new : alloc[p] = None,
         NEW tail, opaque \subseteq tail, \E m \in Memory : tail \subseteq {m}
  PROVE  /\ IsFiniteSet(new) /\ IsFiniteSet(Memory \ (live \cup tail))
         /\ Cardinality(new) <= Cardinality(Memory \ (live \cup tail))
<1> DEFINE res == VT!Resident(alloc)
           given == {alloc[p] : p \in res}
           D == DOMAIN pendingMem
           lists == UNION {pendingMem[i] : i \in D}
           P == Cardinality(Pages)
           used == (live \cup tail) \cap Memory
<1>1. res \subseteq Pages /\ new \cap res = {} /\ D \subseteq 0 .. Slots - 1
  BY PagesFacts DEF VT!Resident
<1>2. IsFiniteSet(res) /\ IsFiniteSet(new)
  BY <1>1, Textures, FS_Subset
<1>3. Cardinality(res) \in Nat /\ Cardinality(new) \in Nat /\ Cardinality(res) + Cardinality(new) <= P /\ P \in Nat
  <2>1. IsFiniteSet(res \cup new) /\ Cardinality(res \cup new) = Cardinality(res) + Cardinality(new) - Cardinality(res \cap new)
    BY <1>2, FS_Union
  <2>2. res \cap new = {} /\ Cardinality({}) = 0 /\ res \cup new \subseteq Pages
    BY <1>1, FS_EmptySet
  <2>3. Cardinality(res \cup new) <= Cardinality(Pages)
    BY <2>2, Textures, FS_Subset
  <2>4. Cardinality(res) \in Nat /\ Cardinality(new) \in Nat
    BY <1>2, FS_CardinalityType
  <2>5. Cardinality(res \cap new) = 0 /\ P \in Nat
    BY <2>2, Textures
  <2> HIDE DEF res
  <2> QED
    BY <2>1, <2>3, <2>4, <2>5
<1>4. IsFiniteSet(given) /\ Cardinality(given) <= Cardinality(res)
  BY <1>2, ImageBound
<1>5. IsFiniteSet(D) /\ Cardinality(D) <= Slots /\ Cardinality(D) \in Nat
  <2>1. IsFiniteSet(0 .. Slots - 1) /\ Cardinality(0 .. Slots - 1) = Slots
    <3>1. 0 \in Int /\ Slots - 1 \in Int /\ 0 <= Slots - 1
      BY Numbers
    <3> QED
      BY <3>1, FS_Interval, Numbers
  <2> QED
    BY <1>1, <2>1, FS_Subset, FS_CardinalityType
<1>6. \A i \in D : IsFiniteSet(pendingMem[i]) /\ Cardinality(pendingMem[i]) <= P
  BY PagesFacts, Textures, FS_Subset, SetsOfTexture DEF PagesInv, VT!ListsFit
<1>7. IsFiniteSet(lists) /\ Cardinality(lists) <= Cardinality(D) * P
  <2> HIDE DEF D, P
  <2> QED
    BY <1>3, <1>5, <1>6, UnionBound
<1>8. IsFiniteSet(tail) /\ Cardinality(tail) <= 1 /\ tail \subseteq Memory
  <2>1. PICK m \in Memory : tail \subseteq {m}
    OBVIOUS
  <2>2. CASE tail = {}
    BY <2>1, <2>2, FS_EmptySet
  <2>3. CASE tail = {m}
    <3>1. IsFiniteSet({m}) /\ Cardinality({m}) = 1
      BY FS_Singleton
    <3> QED
      BY <2>1, <2>3, <3>1
  <2> QED
    BY <2>1, <2>2, <2>3
<1>9. used \subseteq (given \cup lists) \cup tail
  <2>1. SUFFICES ASSUME NEW x \in live, x \in Memory PROVE x \in given \cup lists \cup tail
    OBVIOUS
  <2>2. CASE \E p \in Pages : alloc[p] # None /\ x = alloc[p]
    BY <2>2 DEF VT!Resident
  <2>3. CASE \E i \in DOMAIN pendingMem : x \in pendingMem[i] \/ x \in pendingBuf[i]
    BY <2>1, <2>3, PagesFacts, Textures
  <2> QED
    BY <2>1, <2>2, <2>3, PagesFacts
<1> DEFINE g == Cardinality(given) 
           l == Cardinality(lists)
           o == Cardinality(tail)
           u == Cardinality(used)
           d == Cardinality(D)
<1>10. IsFiniteSet(used) /\ u <= g + l + o /\ u \in Nat /\ g \in Nat /\ l \in Nat /\ o \in Nat
  <2> HIDE DEF given, lists
  <2>1. IsFiniteSet(given \cup lists) /\ Cardinality(given \cup lists) <= g + l
        /\ Cardinality(given \cup lists) \in Nat /\ g \in Nat /\ l \in Nat /\ o \in Nat
    <3>1. /\ IsFiniteSet(given \cup lists)
          /\ Cardinality(given \cup lists) = g + l - Cardinality(given \cap lists)
      BY <1>4, <1>7, FS_Union
    <3>2. IsFiniteSet(given \cap lists)
      BY <1>4, FS_Subset
    <3>3. Cardinality(given \cap lists) \in Nat /\ g \in Nat /\ l \in Nat /\ o \in Nat /\ Cardinality(given \cup lists) \in Nat
      BY <1>4, <1>7, <1>8, <3>1, <3>2, FS_CardinalityType
    <3> HIDE DEF g, l, o
    <3> QED
      BY <3>1, <3>3
  <2>2. IsFiniteSet((given \cup lists) \cup tail) /\ Cardinality((given \cup lists) \cup tail) <= Cardinality(given \cup lists) + o
    <3>1. /\ IsFiniteSet((given \cup lists) \cup tail)
          /\ Cardinality((given \cup lists) \cup tail) = Cardinality(given \cup lists) + o - Cardinality((given \cup lists) \cap tail)
      BY <1>8, <2>1, FS_Union
    <3>2. IsFiniteSet((given \cup lists) \cap tail)
      BY <2>1, FS_Subset
    <3>3. Cardinality((given \cup lists) \cap tail) \in Nat
      BY <3>2, FS_CardinalityType
    <3> HIDE DEF g, l, o
    <3> QED
      BY <2>1, <3>1, <3>3
  <2>3. IsFiniteSet(used) /\ u <= Cardinality((given \cup lists) \cup tail)
    BY <1>9, <2>2, FS_Subset
  <2>4. u \in Nat /\ Cardinality((given \cup lists) \cup tail) \in Nat
    BY <2>2, <2>3, FS_CardinalityType
  <2> HIDE DEF u, g, l, o
  <2> QED
    BY <2>1, <2>2, <2>3, <2>4
<1>11. Memory \ (live \cup tail) = Memory \ used /\ Memory \cap used = used
  OBVIOUS
<1>12. IsFiniteSet(Memory \ (live \cup tail)) /\ Cardinality(Memory \ (live \cup tail)) = Cardinality(Memory) - u
  <2>1. /\ IsFiniteSet(Memory \ used)
        /\ Cardinality(Memory \ used) = Cardinality(Memory) - Cardinality(Memory \cap used)
    BY Textures, FS_Difference
  <2>2. Memory \cap used = used
    OBVIOUS
  <2> QED
    BY <1>11, <2>1, <2>2
<1>13. d * P <= Slots * P
  <2> HIDE DEF d, P
  <2>1. d \in Nat /\ P \in Nat /\ d <= Slots /\ Slots \in Nat
    BY <1>3, <1>5, Numbers DEF d
  <2> QED
    BY <2>1
<1>14. Cardinality(Memory) >= Slots * P + P + 1
  <2>1. Cardinality(Memory) > (Slots + 1) * P /\ Cardinality(Memory) \in Nat
    BY TextureAssumption, Textures
  <2>2. (Slots + 1) * P = Slots * P + P /\ Slots * P \in Nat
    BY <1>3, Numbers
  <2> HIDE DEF P
  <2> QED
    BY <1>3, <2>1, <2>2
<1> QED
  <2>1. d * P \in Nat /\ Slots * P \in Nat /\ Cardinality(Memory) \in Nat
    BY <1>3, <1>5, Numbers, Textures
  <2> HIDE DEF P, d, u, o, l, g, D, res, given, lists
  <2>2. g <= Cardinality(res) /\ l <= d * P /\ o <= 1
    BY <1>4, <1>7, <1>8 DEF g, l, o, d
  <2>3. Cardinality(new) <= Cardinality(Memory) - u
    BY <1>3, <1>10, <1>13, <1>14, <2>1, <2>2
  <2> QED
    BY <1>2, <1>12, <2>3

\* There are staging buffers for the pages, when those of the image were freed.
LEMMA RoomForCopies ==
  ASSUME PagesInv, NEW new \in SUBSET Pages, NEW image \in 0 .. Slots - 1,
         image \in DOMAIN pendingMem => pendingBuf[image] = {}
  PROVE  /\ IsFiniteSet(new) /\ IsFiniteSet(Buffers \ live)
         /\ Cardinality(new) <= Cardinality(Buffers \ live)
<1> DEFINE D == DOMAIN pendingMem \ {image}
           lists == UNION {pendingBuf[i] : i \in D}
           P == Cardinality(Pages)
           used == live \cap Buffers
           l == Cardinality(lists)
           u == Cardinality(used)
           d == Cardinality(D)
<1>1. IsFiniteSet(new) /\ Cardinality(new) <= P /\ Cardinality(new) \in Nat /\ P \in Nat
  BY Textures, FS_Subset, FS_CardinalityType
<1>2. IsFiniteSet(D) /\ d <= Slots - 1 /\ d \in Nat
  <2>1. IsFiniteSet(0 .. Slots - 1) /\ Cardinality(0 .. Slots - 1) = Slots
    <3>1. 0 \in Int /\ Slots - 1 \in Int /\ 0 <= Slots - 1
      BY Numbers
    <3> QED
      BY <3>1, FS_Interval, Numbers
  <2>2. IsFiniteSet((0 .. Slots - 1) \ {image}) /\ Cardinality((0 .. Slots - 1) \ {image}) = Slots - 1
    <3> DEFINE all == 0 .. Slots - 1
    <3>1. image \in all /\ IsFiniteSet(all) /\ Cardinality(all) = Slots
      BY <2>1
    <3> HIDE DEF all
    <3>2. IsFiniteSet(all \ {image}) /\ Cardinality(all \ {image}) = Cardinality(all) - 1
      BY <3>1, FS_RemoveElement
    <3> QED
      BY <3>1, <3>2 DEF all
  <2>3. D \subseteq (0 .. Slots - 1) \ {image}
    BY PagesFacts
  <2> QED
    BY <2>2, <2>3, FS_Subset, FS_CardinalityType
<1>3. \A i \in D : IsFiniteSet(pendingBuf[i]) /\ Cardinality(pendingBuf[i]) <= P
  BY PagesFacts, Textures, FS_Subset, SetsOfTexture DEF PagesInv, VT!ListsFit
<1>4. IsFiniteSet(lists) /\ l <= d * P /\ l \in Nat
  <2> HIDE DEF D, P
  <2>1. IsFiniteSet(lists) /\ Cardinality(lists) <= Cardinality(D) * P
    BY <1>1, <1>2, <1>3, UnionBound
  <2> QED
    BY <2>1, FS_CardinalityType
<1>5. used \subseteq lists
  <2>1. SUFFICES ASSUME NEW x \in live, x \in Buffers PROVE x \in lists
    OBVIOUS
  <2>2. x \notin Memory /\ x # None
    BY <2>1, Textures
  <2>3. \A p \in Pages : alloc[p] # x
    BY <2>2, PagesFacts
  <2>4. \E i \in DOMAIN pendingMem : x \in pendingBuf[i]
    BY <2>2, <2>3, PagesFacts
  <2> QED
    BY <2>4
<1>6. IsFiniteSet(used) /\ u <= l /\ u \in Nat
  BY <1>4, <1>5, FS_Subset, FS_CardinalityType
<1>7. IsFiniteSet(Buffers \ live) /\ Cardinality(Buffers \ live) = Cardinality(Buffers) - u
  <2>1. IsFiniteSet(Buffers \ used) /\ Cardinality(Buffers \ used) = Cardinality(Buffers) - Cardinality(Buffers \cap used)
    BY Textures, FS_Difference
  <2>2. Buffers \cap used = used /\ Buffers \ live = Buffers \ used
    OBVIOUS
  <2> QED
    BY <2>1, <2>2
<1>8. d * P + P <= Slots * P /\ d * P \in Nat /\ Slots * P \in Nat
  <2> HIDE DEF d, P
  <2>1. d \in Nat /\ P \in Nat /\ d + 1 <= Slots /\ Slots \in Nat
    BY <1>1, <1>2, Numbers
  <2>2. (d + 1) * P <= Slots * P /\ (d + 1) * P = d * P + P
    BY <2>1
  <2> QED
    BY <2>1, <2>2
<1>9. Cardinality(Buffers) >= Slots * P /\ Cardinality(Buffers) \in Nat
  BY TextureAssumption, Textures
<1> HIDE DEF P, d, u, l, D, lists
<1> QED
  BY <1>1, <1>4, <1>6, <1>7, <1>8, <1>9

LEMMA UploadsAre ==
  ASSUME PagesInv, NEW ps \in SUBSET Pages, NEW image \in 0 .. Slots - 1, VT!UploadPages(ps, image),
         image \in DOMAIN pendingMem => pendingBuf[image] = {},
         opaque \subseteq opaque', (opaque' \ opaque) \cap live = {}, \E m \in Memory : opaque' \subseteq {m},
         removed' = removed
  PROVE  \E new \in SUBSET Pages : \E mem, buf, D :
           new = {p \in ps : alloc[p] = None} /\ UploadStep(image, new, mem, buf, D)
<1> DEFINE new == {p \in ps : alloc[p] = None}
           mem == VT!Give(new, Memory \ (live \cup opaque'))
           buf == VT!Give(new, Buffers \ live)
           D == DOMAIN pendingMem \cup 0 .. image
           bufs == VT!PendingDeletion(pendingBuf, image)
<1>1. /\ mem \in [new -> Memory \ (live \cup opaque')] /\ buf \in [new -> Buffers \ live]
      /\ \A p, q \in new : p # q => mem[p] # mem[q] /\ buf[p] # buf[q]
  <2>1. new \in SUBSET Pages /\ \A p \in new : alloc[p] = None
    OBVIOUS
  <2> HIDE DEF new
  <2>2. /\ IsFiniteSet(new) /\ IsFiniteSet(Memory \ (live \cup opaque')) /\ IsFiniteSet(Buffers \ live)
        /\ Cardinality(new) <= Cardinality(Memory \ (live \cup opaque'))
        /\ Cardinality(new) <= Cardinality(Buffers \ live)
    BY <2>1, RoomForPages, RoomForCopies
  <2>3. /\ mem \in [new -> Memory \ (live \cup opaque')]
        /\ \A p, q \in new : p # q => mem[p] # mem[q]
    BY <2>2, GiveOk
  <2>4. /\ buf \in [new -> Buffers \ live]
        /\ \A p, q \in new : p # q => buf[p] # buf[q]
    BY <2>2, GiveOk
  <2> HIDE DEF mem, buf
  <2> QED
    BY <2>3, <2>4
<1>2. /\ alloc' = [p \in Pages |-> IF p \in new THEN mem[p] ELSE alloc[p]]
      /\ alive' = alive + Cardinality(new)
      /\ live' = live \cup {mem[p] : p \in new} \cup {buf[p] : p \in new} \cup (opaque' \ {None})
      /\ pendingBuf' = [bufs EXCEPT ![image] = @ \cup {buf[p] : p \in new}]
      /\ pendingMem' = VT!PendingDeletion(pendingMem, image)
      /\ uses' = [uses EXCEPT ![image] = {alloc'[p] : p \in VT!Resident(alloc')} \cup {buf[p] : p \in new} \cup opaque']
  BY SetsOfTexture DEF VT!UploadPages, VT!AllocatePages
<1>3. opaque' \ {None} = opaque'
  BY Textures
<1>4. Grown(pendingMem, image, D, pendingMem') /\ Grown(pendingBuf, image, D, bufs)
  <2>1. /\ DOMAIN pendingMem \subseteq 0 .. Slots - 1 /\ DOMAIN pendingBuf = DOMAIN pendingMem
        /\ \A i \in DOMAIN pendingMem : 0 .. i \subseteq DOMAIN pendingMem
    BY PagesFacts
  <2> HIDE DEF bufs
  <2>2. Grown(pendingMem, image, D, pendingMem')
    BY <1>2, <2>1, ArraysGrow
  <2>3. Grown(pendingBuf, image, D, bufs)
    BY <2>1, ArraysGrow DEF bufs
  <2> QED
    BY <2>2, <2>3
<1> HIDE DEF mem, buf, bufs
<1>5. image \in D /\ DOMAIN pendingBuf = DOMAIN pendingMem
  BY PagesFacts, Numbers
<1>6. /\ DOMAIN pendingMem' = D /\ DOMAIN pendingBuf' = D
      /\ \A i \in D : pendingMem'[i] = IF i \in DOMAIN pendingMem THEN pendingMem[i] ELSE {}
      /\ \A i \in D : pendingBuf'[i] = IF i = image THEN {buf[p] : p \in new}
                                       ELSE IF i \in DOMAIN pendingMem THEN pendingBuf[i] ELSE {}
  <2>1. /\ DOMAIN bufs = D /\ bufs[image] = {}
        /\ \A i \in D : bufs[i] = IF i \in DOMAIN pendingMem THEN pendingBuf[i] ELSE {}
    BY <1>4, <1>5 DEF Grown
  <2>2. DOMAIN pendingBuf' = D /\ \A i \in D : pendingBuf'[i] = IF i = image THEN bufs[image] \cup {buf[p] : p \in new} ELSE bufs[i]
    BY <1>2, <2>1
  <2> HIDE DEF D
  <2> QED
    BY <1>4, <2>1, <2>2 DEF Grown
<1>7. UploadStep(image, new, mem, buf, D)
  <2> HIDE DEF D
  <2>1. /\ new \subseteq Pages /\ mem \in [new -> Memory] /\ buf \in [new -> Buffers]
        /\ \A p \in new : alloc[p] = None /\ mem[p] \notin live \cup opaque' /\ buf[p] \notin live
    BY <1>1
  <2> HIDE DEF new
  <2> QED
    BY <1>1, <1>2, <1>3, <1>6, <2>1 DEF UploadStep, D
<1> QED
  BY <1>7
-----------------------------------------------------------------------------
(* Memory and buffers keep one owner.                                       *)

LEMMA UploadPending ==
  ASSUME PagesInv, NEW image \in 0 .. Slots - 1, NEW new, NEW mem, NEW buf, NEW D,
         UploadStep(image, new, mem, buf, D)
  PROVE  /\ image \in D /\ D \subseteq 0 .. Slots - 1 /\ \A i \in D : 0 .. i \subseteq D
         /\ \A x : x \in VT!Pending' <=> x \in VT!Pending \/ \E p \in new : x = buf[p]
<1>1. /\ D = DOMAIN pendingMem \cup 0 .. image
      /\ DOMAIN pendingMem' = D /\ DOMAIN pendingBuf' = D
      /\ \A i \in D : pendingMem'[i] = IF i \in DOMAIN pendingMem THEN pendingMem[i] ELSE {}
      /\ \A i \in D : pendingBuf'[i] = IF i = image THEN {buf[p] : p \in new}
                                       ELSE IF i \in DOMAIN pendingMem THEN pendingBuf[i] ELSE {}
      /\ image \in DOMAIN pendingMem => pendingBuf[image] = {}
  BY DEF UploadStep
<1>2. /\ DOMAIN pendingMem \subseteq 0 .. Slots - 1 /\ \A i \in DOMAIN pendingMem : 0 .. i \subseteq DOMAIN pendingMem
      /\ \A x : x \in VT!Pending <=> \E i \in DOMAIN pendingMem : x \in pendingMem[i] \/ x \in pendingBuf[i]
  BY PagesFacts
<1>3. image \in D /\ D \subseteq 0 .. Slots - 1 /\ \A i \in D : 0 .. i \subseteq D
  <2>1. \A i \in 0 .. image : 0 .. i \subseteq 0 .. image
    BY Numbers
  <2> QED
    BY <1>1, <1>2, <2>1, Numbers
<1>4. \A x : x \in VT!Pending' <=> \E i \in D : x \in pendingMem'[i] \/ x \in pendingBuf'[i]
  BY <1>1 DEF VT!Pending
<1>5. ASSUME NEW x, x \in VT!Pending'
      PROVE  x \in VT!Pending \/ \E p \in new : x = buf[p]
  <2>1. PICK i \in D : x \in pendingMem'[i] \/ x \in pendingBuf'[i]
    BY <1>4, <1>5
  <2>2. CASE x \in pendingMem'[i]
    BY <1>1, <1>2, <2>1, <2>2
  <2>3. CASE x \in pendingBuf'[i]
    <3>1. CASE i = image
      BY <1>1, <2>3, <3>1
    <3>2. CASE i # image
      <4>1. i \in DOMAIN pendingMem /\ x \in pendingBuf[i]
        BY <1>1, <2>3, <3>2
      <4> QED
        BY <1>2, <4>1
    <3> QED
      BY <3>1, <3>2
  <2> QED
    BY <2>1, <2>2, <2>3
<1>6. ASSUME NEW p \in new
      PROVE  buf[p] \in VT!Pending'
  <2>1. buf[p] \in pendingBuf'[image]
    BY <1>1, <1>3
  <2> QED
    BY <1>3, <1>4, <2>1
<1>7. ASSUME NEW x, x \in VT!Pending
      PROVE  x \in VT!Pending'
  <2>1. PICK i \in DOMAIN pendingMem : x \in pendingMem[i] \/ x \in pendingBuf[i]
    BY <1>2, <1>7
  <2>2. i \in D /\ (x \in pendingMem'[i] \/ x \in pendingBuf'[i])
    BY <1>1, <2>1
  <2> QED
    BY <1>4, <2>2
<1> QED
  BY <1>3, <1>5, <1>6, <1>7

LEMMA UploadKeepsPages ==
  ASSUME PagesInv, ~removed, NEW image \in 0 .. Slots - 1, NEW new, NEW mem, NEW buf, NEW D,
         UploadStep(image, new, mem, buf, D)
  PROVE  PagesInv'
<1>1. /\ new \subseteq Pages /\ mem \in [new -> Memory] /\ buf \in [new -> Buffers]
      /\ \A p \in new : alloc[p] = None /\ mem[p] \notin live \cup opaque' /\ buf[p] \notin live
      /\ \A p, q \in new : p # q => mem[p] # mem[q] /\ buf[p] # buf[q]
      /\ opaque \subseteq opaque' /\ (opaque' \ opaque) \cap live = {}
      /\ \E m \in Memory : opaque' \subseteq {m}
      /\ alloc' = [p \in Pages |-> IF p \in new THEN mem[p] ELSE alloc[p]]
      /\ alive' = alive + Cardinality(new)
      /\ live' = live \cup {mem[p] : p \in new} \cup {buf[p] : p \in new} \cup opaque'
      /\ DOMAIN pendingMem' = D /\ DOMAIN pendingBuf' = D
      /\ \A i \in D : pendingMem'[i] = IF i \in DOMAIN pendingMem THEN pendingMem[i] ELSE {}
      /\ \A i \in D : pendingBuf'[i] = IF i = image THEN {buf[p] : p \in new}
                                       ELSE IF i \in DOMAIN pendingMem THEN pendingBuf[i] ELSE {}
      /\ uses' = [uses EXCEPT ![image] = {alloc'[p] : p \in VT!Resident(alloc')} \cup {buf[p] : p \in new} \cup opaque']
      /\ removed' = removed
  BY DEF UploadStep
<1>2. /\ alloc \in [Pages -> Memory \cup {None}] /\ alive \in Nat /\ opaque \subseteq Memory
      /\ DOMAIN pendingMem \subseteq 0 .. Slots - 1
      /\ uses \in [0 .. Slots - 1 -> SUBSET (Memory \cup Buffers)] /\ removed \in BOOLEAN
      /\ \A i \in DOMAIN pendingMem : pendingMem[i] \subseteq Memory /\ pendingBuf[i] \subseteq Buffers
      /\ \A x : x \in VT!Pending <=> \E i \in DOMAIN pendingMem : x \in pendingMem[i] \/ x \in pendingBuf[i]
      /\ \A x : x \in live <=> \/ \E p \in Pages : alloc[p] # None /\ x = alloc[p]
                               \/ x \in opaque \/ x \in VT!Pending
      /\ \A p, q \in Pages : alloc[p] # None /\ alloc[q] # None /\ p # q => alloc[p] # alloc[q]
      /\ \A p \in Pages : alloc[p] # None => alloc[p] \notin VT!Pending /\ alloc[p] \notin opaque
      /\ \A x \in opaque : x \notin VT!Pending
      /\ \A i, j \in DOMAIN pendingMem : i # j =>
           pendingMem[i] \cap pendingMem[j] = {} /\ pendingBuf[i] \cap pendingBuf[j] = {}
  BY PagesFacts
<1>3. /\ image \in D /\ D \subseteq 0 .. Slots - 1 /\ \A i \in D : 0 .. i \subseteq D
      /\ \A x : x \in VT!Pending' <=> x \in VT!Pending \/ \E p \in new : x = buf[p]
  BY UploadPending
<1>4. /\ None \notin Memory /\ None \notin Buffers /\ \A x \in Memory : x \notin Buffers
      /\ \A x \in VT!Pending : x \in live
  BY <1>2, Textures
\* The pages.
<1>5. /\ alloc' \in [Pages -> Memory \cup {None}]
      /\ \A p \in new : alloc'[p] = mem[p] /\ mem[p] \in Memory /\ mem[p] # None
      /\ \A p \in Pages \ new : alloc'[p] = alloc[p]
      /\ VT!Resident(alloc)' = VT!Resident(alloc) \cup new
      /\ VT!Resident(alloc') = VT!Resident(alloc) \cup new
  <2>1. /\ alloc' \in [Pages -> Memory \cup {None}]
        /\ \A p \in new : alloc'[p] = mem[p] /\ mem[p] \in Memory /\ mem[p] # None
        /\ \A p \in Pages \ new : alloc'[p] = alloc[p]
    BY <1>1, <1>2, <1>4
  <2> QED
    BY <1>1, <2>1 DEF VT!Resident
<1>6. Cardinality(VT!Resident(alloc)') = alive' /\ alive' \in 0 .. Cardinality(Pages)
  <2> DEFINE R == VT!Resident(alloc)
  <2>1. R \subseteq Pages /\ R \cap new = {}
    BY <1>1 DEF VT!Resident
  <2>2. IsFiniteSet(R) /\ IsFiniteSet(new) /\ Cardinality({}) = 0
    BY <1>1, <2>1, Textures, FS_Subset, FS_EmptySet
  <2>3. IsFiniteSet(R \cup new) /\ Cardinality(R \cup new) = Cardinality(R) + Cardinality(new) - Cardinality(R \cap new)
    BY <2>2, FS_Union
  <2>4. Cardinality(R) \in Nat /\ Cardinality(new) \in Nat /\ Cardinality(R \cap new) = 0
    BY <2>1, <2>2, FS_CardinalityType
  <2>5. alive = Cardinality(R)
    BY SetsOfTexture DEF PagesInv, VT!ListsFit
  <2>6. Cardinality(R \cup new) <= Cardinality(Pages) /\ Cardinality(Pages) \in Nat
    <3>1. R \cup new \subseteq Pages
      BY <1>1, <2>1
    <3> QED
      BY <3>1, Textures, FS_Subset
  <2>7. VT!Resident(alloc)' = R \cup new
    BY <1>5
  <2> HIDE DEF R
  <2>8. Cardinality(R \cup new) = alive' /\ alive' \in Nat
    BY <1>1, <2>3, <2>4, <2>5
  <2> QED
    BY <2>6, <2>7, <2>8
\* Memory and buffers.
<1>7. opaque' \subseteq Memory /\ (opaque' # {} => \E m \in Memory : opaque' = {m})
  BY <1>1
<1>8. VT!Pending' \subseteq Memory \cup Buffers /\ live' \subseteq Memory \cup Buffers
      /\ uses' \in [0 .. Slots - 1 -> SUBSET (Memory \cup Buffers)]
  <2>1. VT!Pending' \subseteq Memory \cup Buffers
    BY <1>1, <1>2, <1>3
  <2>2. live \subseteq Memory \cup Buffers
    BY <1>2
  <2>3. live' \subseteq Memory \cup Buffers
    BY <1>1, <1>7, <2>2
  <2>4. {alloc'[p] : p \in VT!Resident(alloc')} \cup {buf[p] : p \in new} \cup opaque' \subseteq Memory \cup Buffers
    <3>1. \A p \in VT!Resident(alloc') : alloc'[p] \in Memory
      BY <1>5 DEF VT!Resident
    <3> QED
      BY <1>1, <1>7, <3>1
  <2> QED
    BY <1>1, <1>2, <2>1, <2>3, <2>4
<1>9. VT!VTTypeOK'
  <2>1. (DOMAIN pendingMem = DOMAIN pendingBuf /\ DOMAIN pendingMem \subseteq 0 .. Slots - 1)'
    BY <1>1, <1>3
  <2>2. alive' \in 0 .. VT!Cardinality(Pages)
    BY <1>6, SetsOfTexture
  <2>3. removed' \in BOOLEAN
    BY <1>1, <1>2
  <2> QED
    BY <1>5, <1>7, <1>8, <2>1, <2>2, <2>3 DEF VT!VTTypeOK
<1>10. live' = {alloc'[p] : p \in VT!Resident(alloc')} \cup opaque' \cup VT!Pending'
  <2>1. ASSUME NEW x, x \in live'
        PROVE  x \in {alloc'[p] : p \in VT!Resident(alloc')} \cup opaque' \cup VT!Pending'
    <3>1. CASE x \in live
      <4>1. CASE \E p \in Pages : alloc[p] # None /\ x = alloc[p]
        <5>1. PICK p \in Pages : alloc[p] # None /\ x = alloc[p]
          BY <4>1
        <5>2. p \in VT!Resident(alloc') /\ alloc'[p] = x
          BY <1>1, <1>5, <5>1 DEF VT!Resident
        <5> QED
          BY <5>2
      <4> QED
        BY <1>1, <1>2, <1>3, <3>1, <4>1
    <3>2. CASE \E p \in new : x = mem[p]
      BY <1>1, <1>5, <3>2 DEF VT!Resident
    <3>3. CASE \E p \in new : x = buf[p]
      BY <1>3, <3>3
    <3>4. CASE x \in opaque'
      BY <3>4
    <3> QED
      BY <1>1, <2>1, <3>1, <3>2, <3>3, <3>4
  <2>2. ASSUME NEW p \in VT!Resident(alloc')
        PROVE  alloc'[p] \in live'
    BY <1>1, <1>2, <1>5 DEF VT!Resident
  <2>3. opaque' \subseteq live' /\ VT!Pending' \subseteq live'
    BY <1>1, <1>3, <1>4
  <2> QED
    BY <2>1, <2>2, <2>3
<1>11. \A p, q \in VT!Resident(alloc') : p # q => alloc'[p] # alloc'[q]
  <2>1. SUFFICES ASSUME NEW p \in VT!Resident(alloc'), NEW q \in VT!Resident(alloc'), p # q, alloc'[p] = alloc'[q]
                 PROVE  FALSE
    OBVIOUS
  <2>2. /\ p \in Pages /\ q \in Pages
        /\ p \notin new => alloc[p] # None /\ alloc[p] \in live /\ alloc'[p] = alloc[p]
        /\ q \notin new => alloc[q] # None /\ alloc[q] \in live /\ alloc'[q] = alloc[q]
    BY <1>1, <1>2, <1>5, <2>1 DEF VT!Resident
  <2>3. CASE p \in new /\ q \in new
    BY <1>1, <1>5, <2>1, <2>3
  <2>4. CASE p \in new /\ q \notin new
    BY <1>1, <1>5, <2>1, <2>2, <2>4
  <2>5. CASE p \notin new /\ q \in new
    BY <1>1, <1>5, <2>1, <2>2, <2>5
  <2>6. CASE p \notin new /\ q \notin new
    BY <1>2, <2>1, <2>2, <2>6
  <2> QED
    BY <2>3, <2>4, <2>5, <2>6
<1>12. \A p \in VT!Resident(alloc') : alloc'[p] \notin VT!Pending' \cup opaque'
  <2>1. SUFFICES ASSUME NEW p \in VT!Resident(alloc') PROVE alloc'[p] \notin VT!Pending' /\ alloc'[p] \notin opaque'
    OBVIOUS
  <2>2. p \in Pages /\ (p \notin new => alloc[p] # None /\ alloc[p] \in live /\ alloc'[p] = alloc[p] /\ alloc[p] \in Memory)
    BY <1>1, <1>2, <1>5, <2>1 DEF VT!Resident
  <2>3. alloc'[p] \in Memory
    BY <1>5, <2>2
  <2>4. \A q \in new : buf[q] \in Buffers /\ alloc'[p] # buf[q]
    BY <1>1, <1>4, <2>3
  <2>5. CASE p \in new
    BY <1>1, <1>3, <1>4, <1>5, <2>4, <2>5
  <2>6. CASE p \notin new
    BY <1>1, <1>2, <1>3, <2>2, <2>4, <2>6
  <2> QED
    BY <2>5, <2>6
<1>13. \A i, j \in D : i # j => /\ pendingMem'[i] \cap pendingMem'[j] = {}
                                /\ pendingBuf'[i] \cap pendingBuf'[j] = {}
  <2>1. SUFFICES ASSUME NEW i \in D, NEW j \in D, i # j
                 PROVE  /\ pendingMem'[i] \cap pendingMem'[j] = {}
                        /\ pendingBuf'[i] \cap pendingBuf'[j] = {}
    OBVIOUS
  <2>2. pendingMem'[i] \cap pendingMem'[j] = {}
    BY <1>1, <1>2, <2>1
  <2>3. \A p \in new : \A k \in DOMAIN pendingMem : buf[p] \notin pendingBuf[k]
    BY <1>1, <1>2, <1>4
  <2>4. pendingBuf'[i] \cap pendingBuf'[j] = {}
    <3>1. CASE i = image
      BY <1>1, <2>1, <2>3, <3>1
    <3>2. CASE j = image
      BY <1>1, <2>1, <2>3, <3>2
    <3>3. CASE i # image /\ j # image
      BY <1>1, <1>2, <2>1, <3>3
    <3> QED
      BY <3>1, <3>2, <3>3
  <2> QED
    BY <2>2, <2>4
<1>14. VT!OneOwner'
  BY <1>1, <1>10, <1>11, <1>12, <1>13 DEF VT!OneOwner
<1>15. (opaque \cap VT!Pending = {})'
  <2>1. \A x \in opaque' : x \notin VT!Pending
    BY <1>1, <1>2, <1>4
  <2>2. \A x \in opaque' : x \notin Buffers
    BY <1>4, <1>7
  <2> QED
    BY <1>1, <1>3, <2>1, <2>2
<1>16. \A i \in D : pendingMem'[i] \subseteq Memory /\ pendingBuf'[i] \subseteq Buffers
  BY <1>1, <1>2
<1>17. VT!ListsFit'
  <2>1. \A i \in DOMAIN pendingMem : Cardinality(pendingMem[i]) <= Cardinality(Pages) /\ Cardinality(pendingBuf[i]) <= Cardinality(Pages)
    BY SetsOfTexture DEF PagesInv, VT!ListsFit
  <2>2. Cardinality({}) = 0 /\ Cardinality(Pages) \in Nat
    BY Textures, FS_EmptySet
  <2>3. Cardinality({buf[p] : p \in new}) <= Cardinality(Pages)
    <3>1. IsFiniteSet(new) /\ Cardinality(new) <= Cardinality(Pages)
      BY <1>1, Textures, FS_Subset
    <3>2. IsFiniteSet({buf[p] : p \in new}) /\ Cardinality({buf[p] : p \in new}) <= Cardinality(new)
      BY <3>1, ImageBound
    <3>3. Cardinality(new) \in Nat /\ Cardinality({buf[p] : p \in new}) \in Nat
      BY <3>1, <3>2, FS_CardinalityType
    <3> QED
      BY <2>2, <3>1, <3>2, <3>3
  <2>4. \A i \in D : Cardinality(pendingMem'[i]) <= Cardinality(Pages) /\ Cardinality(pendingBuf'[i]) <= Cardinality(Pages)
    <3>1. SUFFICES ASSUME NEW i \in D
                   PROVE  /\ Cardinality(pendingMem'[i]) <= Cardinality(Pages)
                          /\ Cardinality(pendingBuf'[i]) <= Cardinality(Pages)
      OBVIOUS
    <3>2. /\ pendingMem'[i] = IF i \in DOMAIN pendingMem THEN pendingMem[i] ELSE {}
          /\ pendingBuf'[i] = IF i = image THEN {buf[p] : p \in new}
                              ELSE IF i \in DOMAIN pendingMem THEN pendingBuf[i] ELSE {}
      BY <1>1, <3>1
    <3>3. pendingMem'[i] = {} \/ (i \in DOMAIN pendingMem /\ pendingMem'[i] = pendingMem[i])
      BY <3>2
    <3>4. \/ pendingBuf'[i] = {} \/ pendingBuf'[i] = {buf[p] : p \in new}
          \/ (i \in DOMAIN pendingMem /\ pendingBuf'[i] = pendingBuf[i])
      BY <3>2
    <3>5. 0 <= Cardinality(Pages)
      BY <2>2
    <3> QED
      BY <2>1, <2>2, <2>3, <3>3, <3>4, <3>5, Zenon
  <2> QED
    BY <1>1, <1>6, <2>4, SetsOfTexture DEF VT!ListsFit
<1> QED
  BY <1>1, <1>3, <1>7, <1>9, <1>14, <1>15, <1>16, <1>17 DEF PagesInv

LEMMA ReleasesAre ==
  ASSUME PagesInv, NEW remove \in SUBSET Pages, NEW image \in 0 .. Slots - 1,
         VT!ReleasePages(image, remove)
  PROVE  \E gone \in SUBSET Pages : \E D, old : ReleaseStep(image, gone, D, old)
<1> DEFINE gone == {p \in remove \ VT!Lowest : alloc[p] # None}
           D == DOMAIN pendingMem \cup 0 .. image
           mems == VT!PendingDeletion(pendingMem, image)
           bufs == VT!PendingDeletion(pendingBuf, image)
           old == IF image \in DOMAIN pendingMem THEN pendingMem[image] \cup pendingBuf[image] ELSE {}
<1>1. /\ live' = live \ (mems[image] \cup bufs[image])
      /\ pendingMem' = [mems EXCEPT ![image] = {alloc[p] : p \in gone}]
      /\ pendingBuf' = [bufs EXCEPT ![image] = {}]
      /\ alloc' = [p \in Pages |-> IF p \in gone THEN None ELSE alloc[p]]
      /\ alive' = alive - Cardinality(gone)
      /\ UNCHANGED <<opaque, uses, removed>>
  BY SetsOfTexture DEF VT!ReleasePages
<1>2. Grown(pendingMem, image, D, mems) /\ Grown(pendingBuf, image, D, bufs) /\ DOMAIN pendingBuf = DOMAIN pendingMem
  <2>1. /\ DOMAIN pendingMem \subseteq 0 .. Slots - 1 /\ DOMAIN pendingBuf = DOMAIN pendingMem
        /\ \A i \in DOMAIN pendingMem : 0 .. i \subseteq DOMAIN pendingMem
    BY PagesFacts
  <2>2. Grown(pendingMem, image, D, mems)
    BY <2>1, ArraysGrow
  <2>3. Grown(pendingBuf, image, D, bufs)
    BY <2>1, ArraysGrow
  <2> QED
    BY <2>1, <2>2, <2>3
<1>3. gone \subseteq Pages \ VT!Lowest /\ \A p \in gone : alloc[p] # None
  OBVIOUS
<1> HIDE DEF mems, bufs, gone
<1>4. image \in D
  BY Numbers
<1>5. /\ DOMAIN mems = D /\ DOMAIN bufs = D
      /\ \A i \in D : mems[i] = IF i \in DOMAIN pendingMem THEN pendingMem[i] ELSE {}
      /\ \A i \in D : bufs[i] = IF i \in DOMAIN pendingMem THEN pendingBuf[i] ELSE {}
  <2> HIDE DEF D
  <2> QED
    BY <1>2 DEF Grown
<1>6. mems[image] \cup bufs[image] = old
  BY <1>4, <1>5
<1>7. /\ DOMAIN pendingMem' = D /\ DOMAIN pendingBuf' = D
      /\ \A i \in D : pendingMem'[i] = IF i = image THEN {alloc[p] : p \in gone} ELSE mems[i]
      /\ \A i \in D : pendingBuf'[i] = IF i = image THEN {} ELSE bufs[i]
  <2> HIDE DEF D
  <2> QED
    BY <1>1, <1>5
<1>8. ReleaseStep(image, gone, D, old)
  <2>1. /\ \A i \in D : pendingMem'[i] = IF i = image THEN {alloc[p] : p \in gone}
                                   ELSE IF i \in DOMAIN pendingMem THEN pendingMem[i] ELSE {}
        /\ \A i \in D : pendingBuf'[i] = IF i = image THEN {}
                                   ELSE IF i \in DOMAIN pendingMem THEN pendingBuf[i] ELSE {}
    BY <1>5, <1>7
  <2>2. live' = live \ old
    BY <1>1, <1>6
  <2> HIDE DEF old, D
  <2> QED
    BY <1>1, <1>3, <1>7, <2>1, <2>2 DEF ReleaseStep, D, old
<1> QED
  BY <1>3, <1>8

LEMMA ReleaseKeepsPages ==
  ASSUME PagesInv, ~removed, NEW image \in 0 .. Slots - 1, NEW gone, NEW D, NEW old,
         ReleaseStep(image, gone, D, old)
  PROVE  PagesInv'
<1>1. /\ gone \subseteq Pages /\ \A p \in gone : alloc[p] # None
      /\ D = DOMAIN pendingMem \cup 0 .. image
      /\ old = IF image \in DOMAIN pendingMem THEN pendingMem[image] \cup pendingBuf[image] ELSE {}
      /\ live' = live \ old
      /\ DOMAIN pendingMem' = D /\ DOMAIN pendingBuf' = D
      /\ \A i \in D : pendingMem'[i] = IF i = image THEN {alloc[p] : p \in gone}
                                       ELSE IF i \in DOMAIN pendingMem THEN pendingMem[i] ELSE {}
      /\ \A i \in D : pendingBuf'[i] = IF i = image THEN {}
                                       ELSE IF i \in DOMAIN pendingMem THEN pendingBuf[i] ELSE {}
      /\ alloc' = [p \in Pages |-> IF p \in gone THEN None ELSE alloc[p]]
      /\ alive' = alive - Cardinality(gone)
      /\ opaque' = opaque /\ uses' = uses /\ removed' = removed
  BY DEF ReleaseStep
<1>2. /\ alloc \in [Pages -> Memory \cup {None}] /\ alive \in Nat /\ opaque \subseteq Memory
      /\ DOMAIN pendingMem \subseteq 0 .. Slots - 1
      /\ uses \in [0 .. Slots - 1 -> SUBSET (Memory \cup Buffers)] /\ removed \in BOOLEAN
      /\ \A i \in DOMAIN pendingMem : /\ pendingMem[i] \subseteq Memory /\ pendingBuf[i] \subseteq Buffers
                                      /\ 0 .. i \subseteq DOMAIN pendingMem
      /\ \A x : x \in VT!Pending <=> \E i \in DOMAIN pendingMem : x \in pendingMem[i] \/ x \in pendingBuf[i]
      /\ \A x : x \in live <=> \/ \E p \in Pages : alloc[p] # None /\ x = alloc[p]
                               \/ x \in opaque \/ x \in VT!Pending
      /\ \A p, q \in Pages : alloc[p] # None /\ alloc[q] # None /\ p # q => alloc[p] # alloc[q]
      /\ \A p \in Pages : alloc[p] # None => alloc[p] \notin VT!Pending /\ alloc[p] \notin opaque
      /\ \A x \in opaque : x \notin VT!Pending
      /\ \A i, j \in DOMAIN pendingMem : i # j =>
           pendingMem[i] \cap pendingMem[j] = {} /\ pendingBuf[i] \cap pendingBuf[j] = {}
  BY PagesFacts
<1>3. /\ image \in D /\ D \subseteq 0 .. Slots - 1 /\ \A i \in D : 0 .. i \subseteq D
  <2>1. \A i \in 0 .. image : 0 .. i \subseteq 0 .. image
    BY Numbers
  <2> QED
    BY <1>1, <1>2, <2>1, Numbers
<1>4. /\ None \notin Memory /\ None \notin Buffers /\ \A x \in Memory : x \notin Buffers
      /\ \A p \in Pages : alloc[p] # None => alloc[p] \in Memory /\ alloc[p] \notin old /\ alloc[p] \in live
      /\ \A x \in old : x \in VT!Pending
  <2>1. \A x \in old : x \in VT!Pending
    BY <1>1, <1>2
  <2> QED
    BY <1>2, <2>1, Textures
<1>18. /\ pendingMem'[image] = {alloc[p] : p \in gone} /\ pendingBuf'[image] = {}
       /\ \A i \in D \ {image} :
            \/ pendingMem'[i] = {} /\ pendingBuf'[i] = {}
            \/ i \in DOMAIN pendingMem /\ pendingMem'[i] = pendingMem[i] /\ pendingBuf'[i] = pendingBuf[i]
  <2>1. pendingMem'[image] = {alloc[p] : p \in gone} /\ pendingBuf'[image] = {}
    BY <1>1, <1>3
  <2>2. ASSUME NEW i \in D \ {image}
        PROVE  \/ pendingMem'[i] = {} /\ pendingBuf'[i] = {}
               \/ i \in DOMAIN pendingMem /\ pendingMem'[i] = pendingMem[i] /\ pendingBuf'[i] = pendingBuf[i]
    <3>1. /\ pendingMem'[i] = IF i \in DOMAIN pendingMem THEN pendingMem[i] ELSE {}
          /\ pendingBuf'[i] = IF i \in DOMAIN pendingMem THEN pendingBuf[i] ELSE {}
      BY <1>1, <2>2
    <3> QED
      BY <3>1
  <2> QED
    BY <2>1, <2>2
\* What waits for an image afterwards.
<1>5. \A x : x \in VT!Pending' <=> (x \in VT!Pending /\ x \notin old) \/ \E p \in gone : x = alloc[p]
  <2>1. \A x : x \in VT!Pending' <=> \E i \in D : x \in pendingMem'[i] \/ x \in pendingBuf'[i]
    BY <1>1 DEF VT!Pending
  <2>2. ASSUME NEW x, x \in VT!Pending'
        PROVE  (x \in VT!Pending /\ x \notin old) \/ \E p \in gone : x = alloc[p]
    <3>1. PICK i \in D : x \in pendingMem'[i] \/ x \in pendingBuf'[i]
      BY <2>1, <2>2
    <3>2. CASE i = image
      BY <1>18, <3>1, <3>2
    <3>3. CASE i # image
      <4>1. i \in DOMAIN pendingMem /\ (x \in pendingMem[i] \/ x \in pendingBuf[i])
        <5>1. CASE x \in pendingMem'[i]
          BY <1>1, <3>1, <3>3, <5>1
        <5>2. CASE x \in pendingBuf'[i]
          BY <1>1, <3>1, <3>3, <5>2
        <5> QED
          BY <3>1, <5>1, <5>2
      <4>2. x \in VT!Pending
        BY <1>2, <4>1
      <4>3. ASSUME image \in DOMAIN pendingMem
            PROVE  x \notin pendingMem[image] /\ x \notin pendingBuf[image]
        BY <1>2, <1>4, <3>3, <4>1, <4>3
      <4> QED
        BY <1>1, <4>2, <4>3
    <3> QED
      BY <3>2, <3>3
  <2>3. ASSUME NEW p \in gone
        PROVE  alloc[p] \in VT!Pending'
    <3>1. alloc[p] \in pendingMem'[image]
      BY <1>1, <1>3
    <3> QED
      BY <1>3, <2>1, <3>1
  <2>4. ASSUME NEW x, x \in VT!Pending, x \notin old
        PROVE  x \in VT!Pending'
    <3>1. PICK i \in DOMAIN pendingMem : x \in pendingMem[i] \/ x \in pendingBuf[i]
      BY <1>2, <2>4
    <3>2. i # image /\ i \in D
      BY <1>1, <2>4, <3>1
    <3>3. x \in pendingMem'[i] \/ x \in pendingBuf'[i]
      BY <1>1, <3>1, <3>2
    <3> QED
      BY <2>1, <3>2, <3>3
  <2> QED
    BY <2>2, <2>3, <2>4
\* The pages.
<1>6. /\ alloc' \in [Pages -> Memory \cup {None}]
      /\ \A p \in gone : alloc'[p] = None
      /\ \A p \in Pages \ gone : alloc'[p] = alloc[p]
      /\ VT!Resident(alloc)' = VT!Resident(alloc) \ gone
      /\ VT!Resident(alloc') = VT!Resident(alloc) \ gone
  <2>1. /\ alloc' \in [Pages -> Memory \cup {None}]
        /\ \A p \in gone : alloc'[p] = None
        /\ \A p \in Pages \ gone : alloc'[p] = alloc[p]
    BY <1>1, <1>2
  <2> QED
    BY <1>1, <2>1 DEF VT!Resident
<1>7. Cardinality(VT!Resident(alloc)') = alive' /\ alive' \in 0 .. Cardinality(Pages)
  <2> DEFINE R == VT!Resident(alloc)
  <2>1. R \subseteq Pages /\ R \cap gone = gone
    BY <1>1 DEF VT!Resident
  <2>2. IsFiniteSet(R)
    BY <2>1, Textures, FS_Subset
  <2>3. IsFiniteSet(R \ gone) /\ Cardinality(R \ gone) = Cardinality(R) - Cardinality(R \cap gone)
    BY <2>2, FS_Difference
  <2>4. Cardinality(R \ gone) \in Nat
    BY <2>3, FS_CardinalityType
  <2>5. alive = Cardinality(R)
    BY SetsOfTexture DEF PagesInv, VT!ListsFit
  <2>6. Cardinality(R \ gone) <= Cardinality(Pages) /\ Cardinality(Pages) \in Nat
    <3>1. R \ gone \subseteq Pages
      BY <2>1
    <3> QED
      BY <3>1, Textures, FS_Subset
  <2>7. VT!Resident(alloc)' = R \ gone
    BY <1>6
  <2> HIDE DEF R
  <2>8. Cardinality(R \ gone) = alive'
    BY <1>1, <2>1, <2>3, <2>5
  <2> QED
    BY <2>4, <2>6, <2>7, <2>8
<1>8. VT!Pending' \subseteq Memory \cup Buffers /\ live' \subseteq Memory \cup Buffers
  BY <1>1, <1>2, <1>4, <1>5
<1>9. VT!VTTypeOK'
  <2>1. (DOMAIN pendingMem = DOMAIN pendingBuf /\ DOMAIN pendingMem \subseteq 0 .. Slots - 1)'
    BY <1>1, <1>3
  <2>2. alive' \in 0 .. VT!Cardinality(Pages)
    BY <1>7, SetsOfTexture
  <2>3. removed' \in BOOLEAN /\ opaque' \subseteq Memory /\ uses' \in [0 .. Slots - 1 -> SUBSET (Memory \cup Buffers)]
    BY <1>1, <1>2
  <2> QED
    BY <1>6, <1>8, <2>1, <2>2, <2>3 DEF VT!VTTypeOK
<1>10. live' = {alloc'[p] : p \in VT!Resident(alloc')} \cup opaque' \cup VT!Pending'
  <2>1. ASSUME NEW x, x \in live'
        PROVE  x \in {alloc'[p] : p \in VT!Resident(alloc')} \cup opaque' \cup VT!Pending'
    <3>1. x \in live /\ x \notin old
      BY <1>1, <2>1
    <3>2. CASE \E p \in Pages : alloc[p] # None /\ x = alloc[p]
      <4>1. PICK p \in Pages : alloc[p] # None /\ x = alloc[p]
        BY <3>2
      <4>2. CASE p \in gone
        BY <1>5, <4>1, <4>2
      <4>3. CASE p \notin gone
        <5>1. p \in VT!Resident(alloc') /\ alloc'[p] = x
          BY <1>6, <4>1, <4>3 DEF VT!Resident
        <5> QED
          BY <5>1
      <4> QED
        BY <4>2, <4>3
    <3> QED
      BY <1>1, <1>2, <1>5, <3>1, <3>2
  <2>2. ASSUME NEW p \in VT!Resident(alloc')
        PROVE  alloc'[p] \in live'
    BY <1>1, <1>4, <1>6 DEF VT!Resident
  <2>3. opaque' \subseteq live' /\ VT!Pending' \subseteq live'
    BY <1>1, <1>2, <1>4, <1>5
  <2> QED
    BY <2>1, <2>2, <2>3
<1>11. \A p, q \in VT!Resident(alloc') : p # q => alloc'[p] # alloc'[q]
  BY <1>2, <1>6 DEF VT!Resident
<1>12. \A p \in VT!Resident(alloc') : alloc'[p] \notin VT!Pending' \cup opaque'
  <2>1. SUFFICES ASSUME NEW p \in VT!Resident(alloc') PROVE alloc'[p] \notin VT!Pending' /\ alloc'[p] \notin opaque'
    OBVIOUS
  <2>2. p \in Pages /\ p \notin gone /\ alloc[p] # None /\ alloc'[p] = alloc[p]
    BY <1>6, <2>1 DEF VT!Resident
  <2>3. \A q \in gone : alloc[q] # alloc[p]
    BY <1>1, <1>2, <2>2
  <2> QED
    BY <1>1, <1>2, <1>5, <2>2, <2>3
<1>13. \A i, j \in D : i # j => /\ pendingMem'[i] \cap pendingMem'[j] = {}
                                /\ pendingBuf'[i] \cap pendingBuf'[j] = {}
  <2>1. SUFFICES ASSUME NEW i \in D, NEW j \in D, i # j
                 PROVE  /\ pendingMem'[i] \cap pendingMem'[j] = {}
                        /\ pendingBuf'[i] \cap pendingBuf'[j] = {}
    OBVIOUS
  <2>2. \A p \in gone : \A k \in DOMAIN pendingMem : alloc[p] \notin pendingMem[k]
    BY <1>1, <1>2
  <2>3. CASE i = image
    BY <1>18, <2>1, <2>2, <2>3
  <2>4. CASE j = image
    BY <1>18, <2>1, <2>2, <2>4
  <2>5. CASE i # image /\ j # image
    BY <1>2, <1>18, <2>1, <2>5
  <2> QED
    BY <2>3, <2>4, <2>5
<1>14. VT!OneOwner'
  BY <1>1, <1>10, <1>11, <1>12, <1>13 DEF VT!OneOwner
<1>15. (opaque \cap VT!Pending = {})'
  BY <1>1, <1>2, <1>5
<1>16. \A i \in D : pendingMem'[i] \subseteq Memory /\ pendingBuf'[i] \subseteq Buffers
  <2>1. \A p \in gone : alloc[p] \in Memory
    BY <1>1, <1>4
  <2> QED
    BY <1>2, <1>18, <2>1
<1>17. VT!ListsFit'
  <2>1. \A i \in DOMAIN pendingMem : Cardinality(pendingMem[i]) <= Cardinality(Pages) /\ Cardinality(pendingBuf[i]) <= Cardinality(Pages)
    BY SetsOfTexture DEF PagesInv, VT!ListsFit
  <2>2. Cardinality({}) = 0 /\ Cardinality(Pages) \in Nat /\ 0 <= Cardinality(Pages)
    BY Textures, FS_EmptySet
  <2>3. Cardinality({alloc[p] : p \in gone}) <= Cardinality(Pages)
    <3>1. IsFiniteSet(gone) /\ Cardinality(gone) <= Cardinality(Pages)
      BY <1>1, Textures, FS_Subset
    <3>2. IsFiniteSet({alloc[p] : p \in gone}) /\ Cardinality({alloc[p] : p \in gone}) <= Cardinality(gone)
      BY <3>1, ImageBound
    <3>3. Cardinality(gone) \in Nat /\ Cardinality({alloc[p] : p \in gone}) \in Nat
      BY <3>1, <3>2, FS_CardinalityType
    <3> QED
      BY <2>2, <3>1, <3>2, <3>3
  <2>4. \A i \in D : Cardinality(pendingMem'[i]) <= Cardinality(Pages) /\ Cardinality(pendingBuf'[i]) <= Cardinality(Pages)
    <3>1. SUFFICES ASSUME NEW i \in D
                   PROVE  /\ Cardinality(pendingMem'[i]) <= Cardinality(Pages)
                          /\ Cardinality(pendingBuf'[i]) <= Cardinality(Pages)
      OBVIOUS
    <3>2. /\ pendingMem'[i] = IF i = image THEN {alloc[p] : p \in gone}
                              ELSE IF i \in DOMAIN pendingMem THEN pendingMem[i] ELSE {}
          /\ pendingBuf'[i] = IF i = image THEN {} ELSE IF i \in DOMAIN pendingMem THEN pendingBuf[i] ELSE {}
      BY <1>1, <3>1
    <3>3. \/ pendingMem'[i] = {} \/ pendingMem'[i] = {alloc[p] : p \in gone}
          \/ (i \in DOMAIN pendingMem /\ pendingMem'[i] = pendingMem[i])
      BY <3>2
    <3>4. pendingBuf'[i] = {} \/ (i \in DOMAIN pendingMem /\ pendingBuf'[i] = pendingBuf[i])
      BY <3>2
    <3> QED
      BY <2>1, <2>2, <2>3, <3>3, <3>4, Zenon
  <2> QED
    BY <1>1, <1>7, <2>4, SetsOfTexture DEF VT!ListsFit
<1> QED
  BY <1>1, <1>2, <1>3, <1>9, <1>14, <1>15, <1>16, <1>17 DEF PagesInv

LEMMA RemoveKeepsPages ==
  ASSUME PagesInv, VT!RemoveVirtualTexture
  PROVE  PagesInv' /\ live' = {} /\ removed' = TRUE /\ VT!Resident(alloc') = {}
<1>1. /\ live' = live \ ({alloc[p] : p \in VT!Resident(alloc)} \cup opaque \cup VT!Pending)
      /\ alloc' = [p \in Pages |-> None] /\ opaque' = {}
      /\ pendingMem' = [i \in {} |-> {}] /\ pendingBuf' = [i \in {} |-> {}]
      /\ removed' = TRUE /\ alive' = alive /\ uses' = uses
  BY DEF VT!RemoveVirtualTexture
<1>2. live' = {}
  BY <1>1 DEF PagesInv, VT!OneOwner
<1>3. /\ DOMAIN pendingMem' = {} /\ DOMAIN pendingBuf' = {} /\ VT!Pending' = {}
      /\ VT!Resident(alloc') = {} /\ VT!Resident(alloc)' = {} /\ alloc' \in [Pages -> Memory \cup {None}]
  BY <1>1 DEF VT!Pending, VT!Resident
<1>4. VT!VTTypeOK'
  BY <1>1, <1>2, <1>3 DEF PagesInv, VT!VTTypeOK
<1>5. VT!OneOwner'
  BY <1>1, <1>2, <1>3 DEF VT!OneOwner
<1>6. VT!ListsFit'
  BY <1>1, <1>3 DEF VT!ListsFit
<1> QED
  BY <1>1, <1>2, <1>3, <1>4, <1>5, <1>6 DEF PagesInv
-----------------------------------------------------------------------------
(* The lists of an image come round.                                        *)

Early == {"poll", "wait", "acquire", "waitimage", "recreate", "record"}
Late == {"submit", "lock", "enqueue", "unlock", "present"}
\* Where the steps that leave the texture alone take the drawing thread.
StillMove ==
  \/ /\ pc[Drawer] \in Early /\ pc'[Drawer] \in Early /\ frame' = frame /\ G' = G
     /\ pc[Drawer] = "poll" => frame < MaxFrames /\ Ready
  \/ pc[Drawer] \in Late /\ pc'[Drawer] \in Late /\ frame' = frame
  \/ pc[Drawer] = "unlock" /\ pc'[Drawer] = "poll" /\ frame' = frame + 1
  \/ pc'[Drawer] = pc[Drawer] /\ frame' = frame /\ (G = <<>> => G' = <<>>)

LEMMA StillMoves ==
  ASSUME SyncInv, [FramesNext]_vars
  PROVE  CreateTexture \/ Release \/ Fill \/ RemoveTexture \/ (UNCHANGED texVars /\ StillMove)
<1>1. /\ pc \in [Threads -> DrawerLabels \cup LoaderLabels] /\ queue \in [Queues -> Seq(Call)]
      /\ Drawer # Loader /\ Threads = {Drawer, Loader} /\ Graphics # Transfer /\ Queues = {Graphics, Transfer}
      /\ pc[Drawer] \in DrawerLabels
  BY ThreadNames, QueueNames DEF SyncInv, TypeInv
<1>2. ASSUME PollFence, Ready PROVE StillMove
  BY <1>1, <1>2 DEF PollFence, Goto, StillMove, Early, G
<1>3. ASSUME WaitFrame \/ AcquireWithSemaphore \/ AcquireWithFence \/ WaitImage \/ AcquireOutOfDate \/ RecreateSwapchain
      PROVE  StillMove
  BY <1>1, <1>3 DEF WaitFrame, AcquireWithSemaphore, AcquireWithFence, WaitImage, AcquireOutOfDate, RecreateSwapchain,
                    Goto, StillMove, Early, G, appVars, driverVars
<1>4. ASSUME SubmitFrame \/ PresentFrame PROVE StillMove
  BY <1>1, <1>4 DEF SubmitFrame, PresentFrame, Goto, StillMove, Late, appVars
<1>5. ASSUME SubmitUpload \/ HandOver \/ WaitUpload PROVE StillMove
  BY <1>1, <1>5 DEF SubmitUpload, HandOver, WaitUpload, Goto, StillMove, G, appVars, driverVars
<1>6. ASSUME NEW t \in Threads, LockQueue(t) PROVE StillMove
  BY <1>1, <1>6 DEF LockQueue, Goto, StillMove, Late, G, appVars, driverVars
<1>7. ASSUME NEW t \in Threads, Enqueue(t) PROVE StillMove
  <2>1. CASE t = Drawer
    BY <1>1, <1>7, <2>1 DEF Enqueue, Goto, StillMove, Late, appVars
  <2>2. CASE t = Loader
    <3>1. call[Loader].queue = Transfer
      BY <1>7, <2>2, UploadBatchFields DEF SyncInv, CallInv, Enqueue, InCall
    <3>2. queue' = [queue EXCEPT ![Transfer] = Append(queue[Transfer], call[Loader])]
      BY <1>7, <2>2, <3>1 DEF Enqueue
    <3>3. G' = G
      BY <1>1, <3>2 DEF G
    <3> QED
      BY <1>1, <1>7, <2>2, <3>3 DEF Enqueue, Goto, StillMove, appVars
  <2> QED
    BY <1>1, <2>1, <2>2
<1>8. ASSUME NEW t \in Threads, Unlock(t) PROVE StillMove
  BY <1>1, <1>8 DEF Unlock, Goto, StillMove, Late, G, driverVars
<1>9. ASSUME NEW q \in Queues, Execute(q) PROVE StillMove
  BY <1>1, <1>9 DEF Execute, StillMove, G, appVars
<1>10. ASSUME ImageReady PROVE StillMove
  BY <1>1, <1>10 DEF ImageReady, StillMove, G, appVars
<1>11. ASSUME UNCHANGED vars PROVE StillMove /\ UNCHANGED texVars
  BY <1>11 DEF vars, syncVars, appVars, driverVars, StillMove, G
<1> QED
  BY <1>2, <1>3, <1>4, <1>5, <1>6, <1>7, <1>8, <1>9, <1>10, <1>11 DEF FramesNext, Still

\* The order in which the lists are freed, before and after a step.
LEMMA TurnTypes ==
  ASSUME SyncInv
  PROVE  /\ \A i \in 0 .. Slots - 1 : Turn(i) \in Nat
         /\ Turn(Slot) = (IF Released THEN Slots ELSE 0)
         /\ \A i \in 0 .. Slots - 1 : i # Slot => Turn(i) > 0 /\ Turn(i) < Slots
<1>1. Slot \in 0 .. Slots - 1 /\ Slots \in Nat /\ Slots > 0
  BY QueueTypes, Numbers DEF SyncInv
<1> HIDE DEF Slot
<1> QED
  BY <1>1 DEF Turn

LEMMA TurnsStay ==
  ASSUME frame' = frame, Released' = Released
  PROVE  Slot' = Slot /\ \A i \in 0 .. Slots - 1 : Turn(i)' = Turn(i)
BY DEF Turn, Slot

LEMMA TurnsPass ==
  ASSUME SyncInv, frame' = frame + 1, Released, ~Released'
  PROVE  \A i \in 0 .. Slots - 1 : Turn(i)' = Turn(i) - 1
<1>1. frame \in Nat /\ Slot \in 0 .. Slots - 1 /\ Slots \in Nat /\ Slots > 0
  BY QueueTypes, Numbers DEF SyncInv
<1>2. Slot' = IF Slot + 1 = Slots THEN 0 ELSE Slot + 1
  BY <1>1, NextSlot DEF Slot
<1> HIDE DEF Slot
<1>3. ASSUME NEW i \in 0 .. Slots - 1
      PROVE  Turn(i)' = Turn(i) - 1
  <2>1. Turn(i) = IF i > Slot THEN i - Slot ELSE i + Slots - Slot
    BY DEF Turn
  <2>2. Turn(i)' = IF i > Slot' \/ i = Slot' THEN i - Slot' ELSE i + Slots - Slot'
    BY DEF Turn
  <2> QED
    BY <1>1, <1>2, <2>1, <2>2
<1> QED
  BY <1>3

LEMMA StillKeeps ==
  ASSUME SyncInv, PagesInv, StageInv, UsesInv, UNCHANGED texVars, StillMove
  PROVE  PagesInv' /\ StageInv' /\ UsesInv'
<1>1. /\ alloc' = alloc /\ alive' = alive /\ opaque' = opaque /\ pendingMem' = pendingMem /\ pendingBuf' = pendingBuf
      /\ live' = live /\ uses' = uses /\ removed' = removed
      /\ VT!Pending' = VT!Pending /\ VT!Resident(alloc)' = VT!Resident(alloc)
      /\ VT!Resident(alloc') = VT!Resident(alloc)
  BY DEF texVars, VT!Pending, VT!Resident
<1>2. PagesInv'
  <2>1. VT!VTTypeOK'
    BY <1>1 DEF PagesInv, VT!VTTypeOK
  <2>2. VT!OneOwner'
    BY <1>1 DEF PagesInv, VT!OneOwner
  <2>3. VT!ListsFit'
    BY <1>1 DEF PagesInv, VT!ListsFit
  <2> QED
    BY <1>1, <2>1, <2>2, <2>3 DEF PagesInv
<1>3. /\ DOMAIN pendingMem \subseteq 0 .. Slots - 1
      /\ \A i \in 0 .. Slots - 1 : Turn(i) \in Nat
      /\ frame \in 0 .. MaxFrames /\ frame \in Nat
  BY PagesFacts, TurnTypes, Numbers DEF SyncInv, TypeInv
<1>4. /\ ~removed => ~(VT!Resident(alloc) = {} /\ pc[Drawer] # "poll")
      /\ removed => pc[Drawer] = "poll" /\ frame = MaxFrames /\ G = <<>> /\ live = {}
      /\ ~removed /\ VT!Resident(alloc) = {} =>
           live = {} /\ opaque = {} /\ DOMAIN pendingMem = {} /\ frame = 0 /\ pc[Drawer] = "poll"
      /\ pc[Drawer] = "fill" => Slot \in DOMAIN pendingBuf /\ pendingBuf[Slot] = {}
      /\ LowestResident
  BY DEF StageInv
<1>5. LowestResident'
  BY <1>1, <1>4 DEF LowestResident
\* Once the texture is removed, or before it is there, the thread is at rest.
<1>6. CASE pc[Drawer] = "poll" /\ (removed \/ VT!Resident(alloc) = {})
  <2>1. pc'[Drawer] = "poll" /\ frame' = frame /\ (G = <<>> => G' = <<>>)
    <3>1. ~(frame < MaxFrames /\ Ready)
      BY <1>3, <1>4, <1>6, Numbers DEF Ready
    <3> QED
      BY <1>6, <3>1 DEF StillMove, Early, Late
  <2>2. Released' = Released
    BY <1>6, <2>1 DEF Released
  <2>3. StageInv'
    BY <1>1, <1>4, <1>5, <1>6, <2>1 DEF StageInv
  <2>4. UsesInv'
    BY <1>1, <1>3, <1>6, <2>1, <2>2, TurnsStay DEF UsesInv
  <2> QED
    BY <1>2, <2>3, <2>4
<1>7. CASE ~(pc[Drawer] = "poll" /\ (removed \/ VT!Resident(alloc) = {}))
  <2>1. ~removed /\ VT!Resident(alloc) # {}
    BY <1>4, <1>7
  <2>2. CASE pc[Drawer] = "unlock" /\ pc'[Drawer] = "poll" /\ frame' = frame + 1
    <3>1. Released /\ ~Released'
      BY <2>2 DEF Released
    <3>2. \A i \in 0 .. Slots - 1 : Turn(i)' = Turn(i) - 1
      BY <2>2, <3>1, TurnsPass
    <3>3. UsesInv'
      <4>1. SUFFICES ASSUME NEW i \in 0 .. Slots - 1
                     PROVE  /\ uses[i] \subseteq live
                            /\ \A j \in DOMAIN pendingMem : Turn(j)' < Turn(i)' =>
                                 uses[i] \cap (pendingMem[j] \cup pendingBuf[j]) = {}
        BY <1>1 DEF UsesInv
      <4>2. /\ uses[i] \subseteq live
            /\ \A j \in DOMAIN pendingMem : Turn(j) < Turn(i) =>
                 uses[i] \cap (pendingMem[j] \cup pendingBuf[j]) = {}
        BY <2>1, <2>2, <4>1 DEF UsesInv
      <4>3. ASSUME NEW j \in DOMAIN pendingMem, Turn(j)' < Turn(i)'
            PROVE  Turn(j) < Turn(i)
        <5>1. /\ Turn(j)' = Turn(j) - 1 /\ Turn(i)' = Turn(i) - 1
              /\ Turn(j) \in Nat /\ Turn(i) \in Nat
          BY <1>3, <3>2, <4>1
        <5> QED
          BY <4>3, <5>1
      <4> QED
        BY <4>2, <4>3
    <3>4. StageInv'
      BY <1>1, <1>5, <2>1, <2>2 DEF StageInv
    <3> QED
      BY <1>2, <3>3, <3>4
  <2>3. CASE /\ frame' = frame /\ Released' = Released
             /\ pc'[Drawer] = "fill" <=> pc[Drawer] = "fill"
    <3>1. Slot' = Slot /\ \A i \in 0 .. Slots - 1 : Turn(i)' = Turn(i)
      BY <2>3, TurnsStay
    <3>2. StageInv'
      BY <1>1, <1>4, <1>5, <2>1, <2>3, <3>1 DEF StageInv
    <3>3. UsesInv'
      <4>1. SUFFICES ASSUME NEW i \in 0 .. Slots - 1, ~(pc[Drawer] = "fill" /\ i = Slot)
                     PROVE  /\ uses[i] \subseteq live
                            /\ \A j \in DOMAIN pendingMem : Turn(j)' < Turn(i)' =>
                                 uses[i] \cap (pendingMem[j] \cup pendingBuf[j]) = {}
        BY <1>1, <2>3, <3>1 DEF UsesInv
      <4>2. /\ uses[i] \subseteq live
            /\ \A j \in DOMAIN pendingMem : Turn(j) < Turn(i) =>
                 uses[i] \cap (pendingMem[j] \cup pendingBuf[j]) = {}
        BY <2>1, <4>1 DEF UsesInv
      <4>3. \A j \in DOMAIN pendingMem : Turn(j)' = Turn(j) /\ Turn(i)' = Turn(i)
        BY <1>3, <3>1, <4>1
      <4> QED
        BY <4>2, <4>3
    <3> QED
      BY <1>2, <3>2, <3>3
  <2> QED
    BY <2>2, <2>3 DEF StillMove, Early, Late, Released
<1> QED
  BY <1>6, <1>7
-----------------------------------------------------------------------------
(* The steps of the texture.                                                *)

LEMMA ReleaseKeeps ==
  ASSUME SyncInv, PagesInv, StageInv, UsesInv, Release
  PROVE  PagesInv' /\ StageInv' /\ UsesInv'
<1>1. /\ pc[Drawer] = "record" /\ pc' = [pc EXCEPT ![Drawer] = "fill"] /\ frame' = frame
      /\ \E remove \in SUBSET Pages : VT!ReleasePages(Slot, remove)
  BY DEF Release, Goto, appVars
<1>2. /\ pc'[Drawer] = "fill" /\ Slot' = Slot /\ Slot \in 0 .. Slots - 1 /\ ~Released /\ Released'
  BY <1>1, QueueTypes, ThreadNames DEF SyncInv, TypeInv, Slot, Released
<1>3. ~removed /\ VT!Resident(alloc) # {} /\ LowestResident
  BY <1>1 DEF StageInv
<1>4. PICK gone, D, old : gone \in SUBSET Pages /\ ReleaseStep(Slot, gone, D, old)
  BY <1>1, <1>2, ReleasesAre
<1>5. PagesInv'
  BY <1>2, <1>3, <1>4, ReleaseKeepsPages
<1>6. /\ gone \subseteq Pages \ VT!Lowest /\ \A p \in gone : alloc[p] # None
      /\ D = DOMAIN pendingMem \cup 0 .. Slot
      /\ old = IF Slot \in DOMAIN pendingMem THEN pendingMem[Slot] \cup pendingBuf[Slot] ELSE {}
      /\ live' = live \ old
      /\ DOMAIN pendingMem' = D /\ DOMAIN pendingBuf' = D
      /\ \A i \in D : pendingMem'[i] = IF i = Slot THEN {alloc[p] : p \in gone}
                                       ELSE IF i \in DOMAIN pendingMem THEN pendingMem[i] ELSE {}
      /\ \A i \in D : pendingBuf'[i] = IF i = Slot THEN {}
                                       ELSE IF i \in DOMAIN pendingMem THEN pendingBuf[i] ELSE {}
      /\ alloc' = [p \in Pages |-> IF p \in gone THEN None ELSE alloc[p]]
      /\ uses' = uses /\ removed' = removed
  BY <1>4 DEF ReleaseStep
<1>7. Slot \in D /\ D \subseteq 0 .. Slots - 1
  BY <1>2, <1>6, PagesFacts, Numbers
<1>8. StageInv'
  <2>1. \A p \in Pages : MipLevel[p] = TiledLevels - 1 => p \notin gone
    BY <1>6, Textures DEF VT!Lowest
  <2>2. PICK low \in Pages : MipLevel[low] = TiledLevels - 1
    BY TextureAssumption
  <2>3. \A p \in Pages : MipLevel[p] = TiledLevels - 1 => alloc[p] # None
    BY <1>3 DEF LowestResident, VT!Resident
  <2>4. \A p \in Pages : MipLevel[p] = TiledLevels - 1 => p \in VT!Resident(alloc')
    BY <1>6, <2>1, <2>3 DEF VT!Resident
  <2>5. VT!Resident(alloc') # {} /\ LowestResident'
    BY <2>2, <2>4 DEF LowestResident, VT!Resident
  <2>6. (VT!Resident(alloc) = {})' <=> VT!Resident(alloc') = {}
    BY DEF VT!Resident
  <2>7. pendingBuf'[Slot] = {} /\ Slot \in DOMAIN pendingBuf'
    BY <1>6, <1>7
  <2> QED
    BY <1>2, <1>3, <1>6, <2>5, <2>6, <2>7 DEF StageInv
<1>9. UsesInv'
  <2>1. SUFFICES ASSUME NEW i \in 0 .. Slots - 1, i # Slot
                 PROVE  /\ uses[i] \subseteq live'
                        /\ \A j \in D : Turn(j)' < Turn(i)' =>
                             uses[i] \cap (pendingMem'[j] \cup pendingBuf'[j]) = {}
    BY <1>2, <1>6 DEF UsesInv
  <2>2. /\ uses[i] \subseteq live
        /\ \A j \in DOMAIN pendingMem : Turn(j) < Turn(i) =>
             uses[i] \cap (pendingMem[j] \cup pendingBuf[j]) = {}
    BY <1>1, <1>3, <2>1 DEF UsesInv
  <2>3. Turn(Slot) = 0 /\ Turn(i) > 0 /\ Turn(i) < Slots
    BY <1>2, <2>1, TurnTypes
  <2>4. /\ \A j \in 0 .. Slots - 1 : j # Slot => Turn(j)' = Turn(j)
        /\ \A j \in 0 .. Slots - 1 : j = Slot => Turn(j)' = Slots
    <3>1. Slot \in Int /\ Slots \in Int
      BY <1>2, Numbers
    <3> HIDE DEF Slot
    <3> QED
      BY <1>2, <3>1 DEF Turn
  <2>5. uses[i] \cap old = {}
    BY <1>6, <2>2, <2>3
  <2>6. ASSUME NEW j \in D, Turn(j)' < Turn(i)'
        PROVE  uses[i] \cap (pendingMem'[j] \cup pendingBuf'[j]) = {}
    <3>1. j # Slot
      <4>1. Turn(i)' < Slots /\ Slots \in Nat /\ Turn(i)' \in Nat
        BY <2>1, <2>3, <2>4, TurnTypes, Numbers
      <4> QED
        BY <1>7, <2>4, <2>6, <4>1
    <3>2. Turn(j) < Turn(i)
      BY <1>7, <2>1, <2>4, <2>6, <3>1
    <3>3. /\ pendingMem'[j] = IF j \in DOMAIN pendingMem THEN pendingMem[j] ELSE {}
          /\ pendingBuf'[j] = IF j \in DOMAIN pendingMem THEN pendingBuf[j] ELSE {}
      BY <1>6, <2>6, <3>1
    <3> QED
      BY <2>2, <3>2, <3>3
  <2> QED
    BY <1>6, <2>2, <2>5, <2>6
<1> QED
  BY <1>5, <1>8, <1>9

\* Pages get memory for the image of the slot, whose lists were just freed.
LEMMA FillKeeps ==
  ASSUME SyncInv, PagesInv, StageInv, UsesInv, Fill
  PROVE  PagesInv' /\ StageInv' /\ UsesInv'
<1>1. /\ pc[Drawer] = "fill" /\ pc' = [pc EXCEPT ![Drawer] = "submit"] /\ frame' = frame
      /\ \E visible \in SUBSET Pages : VT!FillPages(Slot, visible)
  BY DEF Fill, Goto, appVars
<1>2. /\ pc'[Drawer] = "submit" /\ Slot' = Slot /\ Slot \in 0 .. Slots - 1 /\ Released /\ Released'
  BY <1>1, QueueTypes, ThreadNames DEF SyncInv, TypeInv, Slot, Released
<1>3. /\ ~removed /\ VT!Resident(alloc) # {} /\ LowestResident
      /\ Slot \in DOMAIN pendingBuf /\ pendingBuf[Slot] = {}
  BY <1>1 DEF StageInv
<1>4. PICK visible \in SUBSET Pages : VT!UploadPages(visible, Slot) /\ opaque' = opaque /\ removed' = removed
  BY <1>1 DEF VT!FillPages
<1>5. /\ opaque \subseteq opaque' /\ (opaque' \ opaque) \cap live = {} /\ \E m \in Memory : opaque' \subseteq {m}
      /\ Slot \in DOMAIN pendingMem => pendingBuf[Slot] = {}
  <2>1. \E m \in Memory : m = m
    BY TextureAssumption, Textures, FS_EmptySet, Numbers
  <2> QED
    BY <1>3, <1>4, <2>1 DEF PagesInv
<1>6. PICK new, mem, buf, D : new \in SUBSET Pages /\ UploadStep(Slot, new, mem, buf, D)
  BY <1>2, <1>4, <1>5, UploadsAre
<1>7. PagesInv'
  BY <1>2, <1>3, <1>6, UploadKeepsPages
<1>8. /\ mem \in [new -> Memory] /\ buf \in [new -> Buffers]
      /\ \A p \in new : alloc[p] = None /\ buf[p] \notin live
      /\ alloc' = [p \in Pages |-> IF p \in new THEN mem[p] ELSE alloc[p]]
      /\ live' = live \cup {mem[p] : p \in new} \cup {buf[p] : p \in new} \cup opaque'
      /\ DOMAIN pendingMem' = D /\ DOMAIN pendingBuf' = D /\ D = DOMAIN pendingMem \cup 0 .. Slot
      /\ \A i \in D : pendingMem'[i] = IF i \in DOMAIN pendingMem THEN pendingMem[i] ELSE {}
      /\ \A i \in D : pendingBuf'[i] = IF i = Slot THEN {buf[p] : p \in new}
                                       ELSE IF i \in DOMAIN pendingMem THEN pendingBuf[i] ELSE {}
      /\ uses' = [uses EXCEPT ![Slot] = {alloc'[p] : p \in VT!Resident(alloc')} \cup {buf[p] : p \in new} \cup opaque']
  BY <1>6 DEF UploadStep
<1>9. /\ D = DOMAIN pendingMem /\ D \subseteq 0 .. Slots - 1
      /\ \A i \in D : pendingMem[i] \subseteq Memory /\ pendingMem[i] \subseteq live /\ pendingBuf[i] \subseteq live
      /\ uses \in [0 .. Slots - 1 -> SUBSET (Memory \cup Buffers)]
  <2>1. DOMAIN pendingMem \cup 0 .. Slot = DOMAIN pendingMem
    BY <1>3, PagesFacts
  <2>2. \A i \in DOMAIN pendingMem : /\ pendingMem[i] \subseteq Memory /\ pendingMem[i] \subseteq live
                                     /\ pendingBuf[i] \subseteq live
    BY PagesFacts
  <2> QED
    BY <1>8, <2>1, <2>2, PagesFacts
<1>10. StageInv'
  <2>1. VT!Resident(alloc) \subseteq VT!Resident(alloc')
    BY <1>8, PagesFacts, Textures DEF VT!Resident
  <2>2. VT!Resident(alloc') # {} /\ LowestResident'
    BY <1>3, <2>1 DEF LowestResident, VT!Resident
  <2>3. (VT!Resident(alloc) = {})' <=> VT!Resident(alloc') = {}
    BY DEF VT!Resident
  <2> QED
    BY <1>2, <1>3, <1>4, <2>2, <2>3 DEF StageInv
<1>11. UsesInv'
  <2>1. \A i \in 0 .. Slots - 1 : Turn(i)' = Turn(i)
    BY <1>1, <1>2, TurnsStay
  <2>2. SUFFICES ASSUME NEW i \in 0 .. Slots - 1
                 PROVE  /\ uses'[i] \subseteq live'
                        /\ \A j \in D : Turn(j)' < Turn(i)' =>
                             uses'[i] \cap (pendingMem'[j] \cup pendingBuf'[j]) = {}
    BY <1>8 DEF UsesInv
  <2>6. \A j \in D : Turn(j)' = Turn(j) /\ Turn(i)' = Turn(i)
    BY <1>9, <2>1, <2>2
  <2>3. /\ \A j \in 0 .. Slots - 1 : Turn(j) \in Nat /\ Turn(j) <= Slots
        /\ Turn(Slot) = Slots
    BY <1>2, TurnTypes, Numbers
  <2>4. CASE i = Slot
    <3>1. uses'[i] = {alloc'[p] : p \in VT!Resident(alloc')} \cup {buf[p] : p \in new} \cup opaque'
      BY <1>8, <1>9, <2>2, <2>4
    <3>2. live' = {alloc'[p] : p \in VT!Resident(alloc')} \cup opaque' \cup VT!Pending'
      BY <1>7 DEF PagesInv, VT!OneOwner
    <3>3. uses'[i] \subseteq live'
      BY <1>8, <3>1, <3>2
    <3>4. ASSUME NEW j \in D, Turn(j) < Turn(i)
          PROVE  uses'[i] \cap (pendingMem'[j] \cup pendingBuf'[j]) = {}
      <4>1. j # Slot
        BY <2>3, <2>4, <3>4
      <4>2. \A x : x \in pendingMem'[j] \/ x \in pendingBuf'[j] => x \in VT!Pending'
        BY <1>8 DEF VT!Pending
      <4>3. \A p \in VT!Resident(alloc') : alloc'[p] \notin VT!Pending'
        BY <1>7 DEF PagesInv, VT!OneOwner
      <4>4. \A x \in opaque' : x \notin VT!Pending'
        BY <1>7 DEF PagesInv
      <4>5. pendingMem'[j] = pendingMem[j] /\ pendingBuf'[j] = pendingBuf[j]
        BY <1>8, <1>9, <3>4, <4>1
      <4>6. \A p \in new : buf[p] \notin pendingMem'[j] /\ buf[p] \notin pendingBuf'[j]
        BY <1>8, <1>9, <3>4, <4>5
      <4> QED
        BY <3>1, <4>2, <4>3, <4>4, <4>6
    <3> QED
      BY <2>6, <3>3, <3>4
  <2>5. CASE i # Slot
    <3>1. uses'[i] = uses[i]
      BY <1>8, <1>9, <2>2, <2>5
    <3>2. /\ uses[i] \subseteq live
          /\ \A j \in DOMAIN pendingMem : Turn(j) < Turn(i) =>
               uses[i] \cap (pendingMem[j] \cup pendingBuf[j]) = {}
      BY <1>3, <2>2, <2>5 DEF UsesInv
    <3>3. ASSUME NEW j \in D, Turn(j) < Turn(i)
          PROVE  uses[i] \cap (pendingMem'[j] \cup pendingBuf'[j]) = {}
      <4>1. j # Slot
        <5>1. Turn(i) <= Slots /\ Turn(i) \in Nat /\ Slots \in Nat
          BY <2>2, <2>3, Numbers
        <5> QED
          BY <2>3, <3>3, <5>1
      <4>2. pendingMem'[j] = pendingMem[j] /\ pendingBuf'[j] = pendingBuf[j]
        BY <1>8, <1>9, <3>3, <4>1
      <4> QED
        BY <1>9, <3>2, <3>3, <4>2
    <3> QED
      BY <1>8, <2>6, <3>1, <3>2, <3>3
  <2> QED
    BY <2>4, <2>5
<1> QED
  BY <1>7, <1>10, <1>11

LEMMA CreateKeeps ==
  ASSUME SyncInv, PagesInv, StageInv, UsesInv, CreateTexture
  PROVE  PagesInv' /\ StageInv' /\ UsesInv'
<1>1. /\ pc[Drawer] = "poll" /\ frame = 0 /\ VT!Resident(alloc) = {} /\ ~removed /\ pc' = pc /\ frame' = frame
      /\ VT!AddVirtualTexture
  BY DEF CreateTexture, appVars
<1>2. live = {} /\ opaque = {} /\ DOMAIN pendingMem = {} /\ 0 \in 0 .. Slots - 1
  BY <1>1, Numbers DEF StageInv
<1>3. \E m \in Memory : opaque' = {m}
  <2>1. Memory # {}
    BY TextureAssumption, Textures, FS_EmptySet, Numbers
  <2> QED
    BY <1>1, <1>2, <2>1 DEF VT!AddVirtualTexture
<1> DEFINE ps == {p \in Pages : MipLevel[p] = TiledLevels - 1}
<1>4. VT!UploadPages(ps, 0) /\ removed' = removed
  BY <1>1 DEF VT!AddVirtualTexture, VT!FillLevel
<1>5. ps \in SUBSET Pages
  OBVIOUS
<1> HIDE DEF ps
<1>6. PICK new, mem, buf, D :
        new \in SUBSET Pages /\ new = {p \in ps : alloc[p] = None} /\ UploadStep(0, new, mem, buf, D)
  BY <1>2, <1>3, <1>4, <1>5, UploadsAre
<1>7. PagesInv'
  BY <1>1, <1>2, <1>6, UploadKeepsPages
<1>8. /\ mem \in [new -> Memory] /\ buf \in [new -> Buffers]
      /\ alloc' = [p \in Pages |-> IF p \in new THEN mem[p] ELSE alloc[p]]
      /\ live' = live \cup {mem[p] : p \in new} \cup {buf[p] : p \in new} \cup opaque'
      /\ DOMAIN pendingMem' = D /\ DOMAIN pendingBuf' = D /\ D = DOMAIN pendingMem \cup 0 .. 0
      /\ uses' = [uses EXCEPT ![0] = {alloc'[p] : p \in VT!Resident(alloc')} \cup {buf[p] : p \in new} \cup opaque']
  BY <1>6 DEF UploadStep
<1>9. StageInv'
  <2>1. new = ps
    BY <1>1, <1>5, <1>6 DEF VT!Resident
  <2>2. \A p \in ps : p \in VT!Resident(alloc')
    BY <1>5, <1>8, <2>1, Textures DEF VT!Resident
  <2>3. ps # {}
    BY TextureAssumption DEF ps
  <2>4. VT!Resident(alloc') # {} /\ LowestResident'
    BY <2>2, <2>3 DEF LowestResident, VT!Resident, ps
  <2>5. (VT!Resident(alloc) = {})' <=> VT!Resident(alloc') = {}
    BY DEF VT!Resident
  <2> QED
    BY <1>1, <1>4, <2>4, <2>5 DEF StageInv
<1>10. UsesInv'
  <2>1. D = {0} /\ \A i \in 0 .. Slots - 1 : Turn(i)' = i
    <3>1. Slot = 0 /\ Slot' = 0 /\ ~Released'
      BY <1>1, Numbers DEF Slot, Released
    <3>2. 0 .. 0 = {0}
      OBVIOUS
    <3> HIDE DEF Slot
    <3> QED
      BY <1>2, <1>8, <3>1, <3>2 DEF Turn
  <2>2. SUFFICES ASSUME NEW i \in 0 .. Slots - 1
                 PROVE  /\ uses'[i] \subseteq live'
                        /\ \A j \in D : Turn(j)' < Turn(i)' =>
                             uses'[i] \cap (pendingMem'[j] \cup pendingBuf'[j]) = {}
    BY <1>8 DEF UsesInv
  <2>3. uses \in [0 .. Slots - 1 -> SUBSET (Memory \cup Buffers)]
    BY PagesFacts
  <2>4. CASE i = 0
    <3>1. uses'[i] = {alloc'[p] : p \in VT!Resident(alloc')} \cup {buf[p] : p \in new} \cup opaque'
      BY <1>8, <2>2, <2>3, <2>4
    <3>2. live' = {alloc'[p] : p \in VT!Resident(alloc')} \cup opaque' \cup VT!Pending'
      BY <1>7 DEF PagesInv, VT!OneOwner
    <3>3. uses'[i] \subseteq live'
      BY <1>8, <3>1, <3>2
    <3>4. \A j \in D : ~(Turn(j)' < Turn(i)')
      BY <1>2, <2>1, <2>4
    <3> QED
      BY <3>3, <3>4
  <2>5. CASE i # 0
    <3>1. uses'[i] = uses[i]
      BY <1>8, <2>2, <2>3, <2>5
    <3>2. uses[i] = {}
      BY <1>1, <1>2, <2>2 DEF UsesInv
    <3> QED
      BY <3>1, <3>2
  <2> QED
    BY <2>4, <2>5
<1> QED
  BY <1>7, <1>9, <1>10

LEMMA RemoveKeeps ==
  ASSUME SyncInv, PagesInv, StageInv, UsesInv, RemoveTexture
  PROVE  PagesInv' /\ StageInv' /\ UsesInv'
<1>1. /\ pc[Drawer] = "poll" /\ frame = MaxFrames /\ G = <<>> /\ VT!RemoveVirtualTexture
      /\ pc' = pc /\ frame' = frame /\ queue' = queue
  BY DEF RemoveTexture, syncVars, appVars, driverVars, G
<1>2. PagesInv' /\ live' = {} /\ removed' = TRUE /\ VT!Resident(alloc') = {}
  BY <1>1, RemoveKeepsPages
<1>3. StageInv'
  BY <1>1, <1>2 DEF StageInv, LowestResident, G, VT!Resident
<1> QED
  BY <1>2, <1>3 DEF UsesInv

LEMMA InvKept ==
  ASSUME IInv, [FramesNext]_vars
  PROVE  IInv'
<1>1. SyncInv /\ PagesInv /\ StageInv /\ UsesInv
  BY DEF IInv
<1>2. SyncInv'
  BY <1>1, SyncKept
<1>3. CreateTexture \/ Release \/ Fill \/ RemoveTexture \/ (UNCHANGED texVars /\ StillMove)
  BY <1>1, StillMoves
<1>4. PagesInv' /\ StageInv' /\ UsesInv'
  BY <1>1, <1>3, CreateKeeps, ReleaseKeeps, FillKeeps, RemoveKeeps, StillKeeps
<1> QED
  BY <1>2, <1>4 DEF IInv

LEMMA InvStarts ==
  ASSUME FramesInit
  PROVE  IInv
<1>1. /\ alloc = [p \in Pages |-> None] /\ alive = 0 /\ opaque = {} /\ live = {}
      /\ pendingMem = [i \in {} |-> {}] /\ pendingBuf = [i \in {} |-> {}]
      /\ uses = [i \in 0 .. Slots - 1 |-> {}] /\ removed = FALSE
      /\ pc[Drawer] = "poll" /\ frame = 0
  BY ThreadNames DEF FramesInit, Init, VT!Init
<1>2. VT!Resident(alloc) = {} /\ VT!Pending = {} /\ DOMAIN pendingMem = {} /\ DOMAIN pendingBuf = {}
  BY <1>1 DEF VT!Resident, VT!Pending
<1>3. VT!VTTypeOK
  <2>1. alive \in 0 .. VT!Cardinality(Pages)
    BY <1>1, Textures, SetsOfTexture
  <2>2. alloc \in [Pages -> Memory \cup {None}] /\ uses \in [0 .. Slots - 1 -> SUBSET (Memory \cup Buffers)]
    BY <1>1
  <2> QED
    BY <1>1, <1>2, <2>1, <2>2 DEF VT!VTTypeOK
<1>4. VT!OneOwner
  BY <1>1, <1>2 DEF VT!OneOwner
<1>5. VT!ListsFit
  BY <1>1, <1>2, FS_EmptySet, SetsOfTexture DEF VT!ListsFit
<1>6. PagesInv
  BY <1>1, <1>2, <1>3, <1>4, <1>5 DEF PagesInv
<1>7. StageInv
  BY <1>1, <1>2 DEF StageInv, LowestResident
<1>8. UsesInv
  BY <1>1, <1>2 DEF UsesInv
<1> QED
  BY <1>6, <1>7, <1>8, SyncStarts DEF IInv
-----------------------------------------------------------------------------
(* The theorems.                                                            *)

LEMMA InUseLives ==
  ASSUME IInv
  PROVE  InUseIsLive
<1> USE DEF IInv, SyncInv
<1>1. ASSUME NEW i \in 0 .. Slots - 1, ~removed, ~(pc[Drawer] = "fill" /\ i = Slot)
      PROVE  uses[i] \subseteq live
  BY <1>1 DEF UsesInv
<1>2. ASSUME NEW b \in Batches, b.cmd # None
      PROVE  uses[b.cmd] \subseteq live
  <2>1. \/ \E k \in 1 .. Len(G) : b = G[k]
        \/ \E k \in 1 .. Len(T) : b = T[k]
    BY QueueNames, QueueTypes DEF Batches, G, T
  <2>2. PICK k \in 1 .. Len(G) : b = G[k]
    BY <1>2, <2>1, UploadBatchFields DEF QueueInv
  <2>3. PICK i \in 0 .. Slots - 1 : FrameBatch(G[k], i) /\ fence[FrameFence(i)] = "pending"
    BY <1>2, <2>2, PresentBatchFields DEF QueueInv, GraphicsEntry
  <2>4. b.cmd = i
    BY <2>2, <2>3 DEF FrameBatch
  <2>5. ~removed
    <3>1. G # <<>>
      BY <2>2, QueueTypes, EmptyFacts
    <3> QED
      BY <3>1 DEF StageInv
  <2>6. ~(pc[Drawer] = "fill" /\ i = Slot)
    BY <2>3 DEF FenceInv
  <2> QED
    BY <1>1, <2>4, <2>5, <2>6
<1>3. ASSUME pc[Drawer] \in {"submit"} \/ call[Drawer].cmd # None
      PROVE  uses[Slot] \subseteq live
  <2>1. pc[Drawer] \notin {"poll", "fill"}
    BY <1>3, ThreadNames, NoCallFields DEF CallInv, InCall
  <2>2. ~removed /\ Slot \in 0 .. Slots - 1
    BY <2>1, QueueTypes DEF StageInv
  <2> QED
    BY <1>1, <2>1, <2>2
<1> QED
  BY <1>2, <1>3 DEF InUseIsLive

\* The inductive invariant: threads, fences, semaphores and queues (SyncInv),
\* the pages and their lists, and the order in which the lists come round.
THEOREM InvariantHolds == Spec => []IInv
<1>1. FramesInit => IInv
  BY InvStarts
<1>2. IInv /\ [FramesNext]_vars => IInv'
  BY InvKept
<1> QED
  BY <1>1, <1>2, PTL DEF Spec

\* For any number of frames in flight and of uploads: the flag of a semaphore
\* tells what the driver was asked for, and no batch waits for a signal that
\* nobody gives, although two threads submit and the driver executes meanwhile.
THEOREM FlagsFollowTheDriver == Spec => []SemaphoresFollow
<1>1. IInv => SemaphoresFollow
  BY TypesOK, FlagsFollow, WaitsAnswered DEF IInv, SemaphoresFollow
<1> QED
  BY <1>1, InvariantHolds, PTL

\* A fence that is given to the driver is reset, a semaphore that the driver
\* signals is not signalled, and a frame is executed after the uploads it uses.
THEOREM TheDriverMayHaveThem == Spec => DriverRulesKept
<1> DEFINE Fresh == \A q \in Queues :
             Len(queue'[q]) > Len(queue[q]) =>
               LET b == queue'[q][Len(queue'[q])] IN
               b.fence # None => fence[b.fence] = "reset" /\ ~submitted[b.fence]
           Idle == \A q \in Queues : Len(queue'[q]) < Len(queue[q]) =>
             \A s \in Head(queue[q]).signals : payload[s] = "idle"
           After == \A q \in Queues :
             Len(queue'[q]) < Len(queue[q]) => Head(queue[q]).needs <= uploadsDone
<1>1. IInv /\ [FramesNext]_vars => [Fresh]_syncVars /\ [Idle]_syncVars /\ [After]_syncVars
  <2>1. SUFFICES ASSUME IInv, [FramesNext]_vars PROVE Fresh /\ Idle /\ After
    OBVIOUS
  <2>2. SyncInv /\ SyncInv' /\ SyncStep
    BY <2>1, SyncKept, SyncSteps DEF IInv
  <2>3. Fresh
    BY <2>2, FencesAreFresh
  <2>4. Idle
    BY <2>2, SignalsAreIdle
  <2>5. After
    BY <2>2, UploadsAreUsedAfter
  <2> QED
    BY <2>3, <2>4, <2>5
<1>2. /\ SignalsFindIdle <=> [][Idle]_syncVars
      /\ FenceIsFresh <=> [][Fresh]_syncVars
      /\ UploadBeforeUse <=> [][After]_syncVars
  BY DEF SignalsFindIdle, FenceIsFresh, UploadBeforeUse
<1> HIDE DEF Fresh, Idle, After
<1> QED
  BY <1>1, <1>2, InvariantHolds, PTL DEF Spec, DriverRulesKept

\* What the commands in flight use was not freed, and the commands of a slot
\* are not recorded again while the driver has them: for every texture, any
\* number of frames in flight, and everything that is asked for or given back.
THEOREM WhatIsInFlightLives == Spec => []InFlightIsLive
<1>1. IInv => InFlightIsLive
  BY InUseLives, PoolsAreIdle DEF IInv, StageInv, InFlightIsLive
<1> QED
  BY <1>1, InvariantHolds, PTL

\* Memory and staging buffers that were not freed have exactly one owner, and
\* what waits for an image fits into its part of the arrays.
THEOREM OwnersAreUnique == Spec => []MemoryHasOneOwner
<1>1. IInv => MemoryHasOneOwner
  BY DEF IInv, PagesInv, MemoryHasOneOwner
<1> QED
  BY <1>1, InvariantHolds, PTL
=============================================================================
