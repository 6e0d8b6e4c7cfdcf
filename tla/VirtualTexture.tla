--------------------------- MODULE VirtualTexture ---------------------------
(* The pages of a virtual texture.  A page that becomes visible gets memory  *)
(* and a staging buffer whose contents are copied by the commands being      *)
(* recorded; a page that is no longer needed loses its memory.  Neither      *)
(* memory nor buffers may be freed while the GPU can still use them, so they *)
(* are put on lists of the image they were used with and are freed when the  *)
(* image index comes round.  Memory and buffers are members of small sets.   *)
EXTENDS Naturals, FiniteSets

CONSTANTS
  Pages,        \* the pages; a page is an index of vt->pages
  MipLevel,     \* MipLevel[p]: page->miplevel
  TiledLevels,  \* vt->tiledmiplevels
  Images,       \* values of currentimage
  Memory,       \* external: what vmaAllocateMemory can return
  Buffers,      \* external: what add_buffer can return
  Null

VTAssumption ==
  /\ IsFiniteSet(Pages) /\ MipLevel \in [Pages -> Nat] /\ TiledLevels \in Nat
  /\ Null \notin Memory \cup Buffers /\ Memory \cap Buffers = {}

VARIABLES
  alloc,        \* page->vk.alloc, or Null
  alive,        \* vt->virtualpagealive
  opaque,       \* opaquemembindalloc: the memory of the mip tail
  pendingMem,   \* pendingdeletedallocs of the images met so far
  pendingBuf,   \* pendingdeletedbufs of the images met so far
  live,         \* external: memory and buffers that were given out and not freed
  uses,         \* memory and buffers the commands recorded for an image use
  removed       \* vk_remove_virtualtexture was called

\* mutant: one level too high.
LowestOffByOne == {p \in Pages : MipLevel[p] >= TiledLevels}

Lowest == {p \in Pages : MipLevel[p] >= TiledLevels - 1}
Resident(a) == {p \in Pages : a[p] # Null}

\* The arrays grow to the highest image met, with empty lists
\* (vt->pendingdeletions is the size of their domain).
PendingDeletion(lists, image) ==
  IF image \in DOMAIN lists THEN lists
  ELSE [i \in 0 .. image |-> IF i \in DOMAIN lists THEN lists[i] ELSE {}]
Pending == (UNION {pendingMem[i] : i \in DOMAIN pendingMem})
             \cup (UNION {pendingBuf[i] : i \in DOMAIN pendingBuf})

\* External: the allocators give each page something that is not in use.  Which
\* one makes no difference.
Give(ps, free) ==
  CHOOSE f \in [ps -> free] : \A p, q \in ps : p # q => f[p] # f[q]

\* mutant: the pages that are asked for are counted, with memory or not.
AllocatePagesCount(new, mem, buf) ==
  /\ alloc' = [p \in Pages |-> IF p \in new THEN mem[p] ELSE alloc[p]]
  /\ alive' = alive + 1
  /\ live' = live \cup {mem[p] : p \in new} \cup {buf[p] : p \in new} \cup (opaque' \ {Null})

\* allocate_virtualpage, for those of the pages that have no memory yet.
AllocatePages(new, mem, buf) ==
  /\ alloc' = [p \in Pages |-> IF p \in new THEN mem[p] ELSE alloc[p]]
  /\ alive' = alive + Cardinality(new)
  /\ live' = live \cup {mem[p] : p \in new} \cup {buf[p] : p \in new} \cup (opaque' \ {Null})

\* vk_upload_page for each page of ps: a page with memory is left alone; a new
\* one is copied from its staging buffer, whose deletion is scheduled.
UploadPages(ps, image) ==
  LET new == {p \in ps : alloc[p] = Null}
      mem == Give(new, Memory \ (live \cup opaque'))
      buf == Give(new, Buffers \ live)
  IN  /\ AllocatePages(new, mem, buf)
      /\ pendingBuf' = [PendingDeletion(pendingBuf, image) EXCEPT
                          ![image] = @ \cup {buf[p] : p \in new}]
      /\ pendingMem' = PendingDeletion(pendingMem, image)
      /\ uses' = [uses EXCEPT ![image] = {alloc'[p] : p \in Resident(alloc')}
                                           \cup {buf[p] : p \in new} \cup opaque']

Init ==
  /\ alloc = [p \in Pages |-> Null]
  /\ alive = 0
  /\ opaque = {}
  /\ pendingMem = [i \in {} |-> {}] /\ pendingBuf = [i \in {} |-> {}]
  /\ live = {} /\ uses = [i \in Images |-> {}]
  /\ removed = FALSE

\* vk_fill_virtualtexturelevel.
FillLevel(level, image) == UploadPages({p \in Pages : MipLevel[p] = level}, image)

\* vk_add_virtualtexture: the mip tail gets memory, and the smallest level
\* outside the tail is filled with image 0.
AddVirtualTexture ==
  /\ opaque' = {CHOOSE m \in Memory : m \notin live}
  /\ FillLevel(TiledLevels - 1, 0)
  /\ UNCHANGED removed

\* mutant: the memory of a page is freed as soon as the page is not needed.
ReleasePagesNow(image, remove) ==
  LET gone == {p \in remove \ Lowest : alloc[p] # Null}
      bufs == PendingDeletion(pendingBuf, image)
  IN  /\ live' = live \ ({alloc[p] : p \in gone} \cup bufs[image])
      /\ pendingMem' = PendingDeletion(pendingMem, image)
      /\ pendingBuf' = [bufs EXCEPT ![image] = {}]
      /\ alloc' = [p \in Pages |-> IF p \in gone THEN Null ELSE alloc[p]]
      /\ alive' = alive - Cardinality(gone)
      /\ UNCHANGED <<opaque, uses, removed>>

\* mutant: the count of pages alive only grows.
ReleasePagesUncounted(image, remove) ==
  LET gone == {p \in remove \ Lowest : alloc[p] # Null}
      mems == PendingDeletion(pendingMem, image)
      bufs == PendingDeletion(pendingBuf, image)
  IN  /\ live' = live \ (mems[image] \cup bufs[image])
      /\ pendingMem' = [mems EXCEPT ![image] = {alloc[p] : p \in gone}]
      /\ pendingBuf' = [bufs EXCEPT ![image] = {}]
      /\ alloc' = [p \in Pages |-> IF p \in gone THEN Null ELSE alloc[p]]
      /\ UNCHANGED <<alive, opaque, uses, removed>>

\* vk_release_page: what was put on the lists of this image the last time is
\* freed, then the pages of the remove table lose their memory; a page of the
\* lowest level is skipped.
ReleasePages(image, remove) ==
  LET gone == {p \in remove \ Lowest : alloc[p] # Null}
      mems == PendingDeletion(pendingMem, image)
      bufs == PendingDeletion(pendingBuf, image)
  IN  /\ live' = live \ (mems[image] \cup bufs[image])
      /\ pendingMem' = [mems EXCEPT ![image] = {alloc[p] : p \in gone}]
      /\ pendingBuf' = [bufs EXCEPT ![image] = {}]
      /\ alloc' = [p \in Pages |-> IF p \in gone THEN Null ELSE alloc[p]]
      /\ alive' = alive - Cardinality(gone)
      /\ UNCHANGED <<opaque, uses, removed>>

\* vk_fill_virtualtexture: the pages of the visibility table get memory.
FillPages(image, visible) ==
  /\ opaque' = opaque
  /\ UploadPages(visible, image)
  /\ UNCHANGED removed

\* mutant: the buffers that wait for their image are forgotten.
RemoveVirtualTextureOnly ==
  /\ live' = live \ ({alloc[p] : p \in Resident(alloc)} \cup opaque)
  /\ alloc' = [p \in Pages |-> Null]
  /\ opaque' = {}
  /\ pendingMem' = [i \in {} |-> {}] /\ pendingBuf' = [i \in {} |-> {}]
  /\ removed' = TRUE
  /\ UNCHANGED <<alive, uses>>

\* vk_remove_virtualtexture.
RemoveVirtualTexture ==
  /\ live' = live \ ({alloc[p] : p \in Resident(alloc)} \cup opaque \cup Pending)
  /\ alloc' = [p \in Pages |-> Null]
  /\ opaque' = {}
  /\ pendingMem' = [i \in {} |-> {}] /\ pendingBuf' = [i \in {} |-> {}]
  /\ removed' = TRUE
  /\ UNCHANGED <<alive, uses>>
-----------------------------------------------------------------------------
(* Properties.                                                               *)

VTTypeOK ==
  /\ alloc \in [Pages -> Memory \cup {Null}]
  /\ alive \in 0 .. Cardinality(Pages)
  /\ opaque \subseteq Memory
  /\ DOMAIN pendingMem = DOMAIN pendingBuf /\ DOMAIN pendingMem \subseteq Images
  /\ Pending \subseteq Memory \cup Buffers
  /\ live \subseteq Memory \cup Buffers
  /\ uses \in [Images -> SUBSET (Memory \cup Buffers)]
  /\ removed \in BOOLEAN

\* Every piece of memory and every staging buffer that was not freed yet has
\* exactly one owner: a page, the tail, or one list of one image.  Nothing
\* leaks, and nothing is freed twice (vkgraphics.c:5475 .. 5496, 5806).
OneOwner ==
  /\ live = {alloc[p] : p \in Resident(alloc)} \cup opaque \cup Pending
  /\ \A p, q \in Resident(alloc) : p # q => alloc[p] # alloc[q]
  /\ \A p \in Resident(alloc) : alloc[p] \notin Pending \cup opaque
  /\ \A i, j \in DOMAIN pendingMem : i # j =>
       pendingMem[i] \cap pendingMem[j] = {} /\ pendingBuf[i] \cap pendingBuf[j] = {}

\* The lists of an image never outgrow the part of the arrays they have
\* (virtualpages entries for an image, vkgraphics.c:5428), and the count of
\* pages alive is that of the pages with memory.
ListsFit ==
  /\ \A i \in DOMAIN pendingMem : /\ Cardinality(pendingMem[i]) <= Cardinality(Pages)
                                  /\ Cardinality(pendingBuf[i]) <= Cardinality(Pages)
  /\ removed \/ alive = Cardinality(Resident(alloc))
=============================================================================
