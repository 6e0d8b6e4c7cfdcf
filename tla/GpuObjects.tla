----------------------------- MODULE GpuObjects -----------------------------
(* What the renderer creates in the driver for each of its resources, what it *)
(* remembers of it, and what it destroys when the resource is removed         *)
(* (vk_add_* and vk_remove_* in vkgraphics.c, add_default_resources).         *)
EXTENDS Naturals, Sequences, FiniteSets, TLC

CONSTANTS
  Ids,         \* resources of the application
  Descs,       \* descriptions to create resources from, [type, ...]
  Dims,        \* dimensions of textures
  TexelViews,  \* texel views the driver supports for the format of buffers
  LazyMemory   \* TRUE: the GPU has memory for on-tile textures

ObjectAssumption == TexelViews \subseteq {"uniform", "storage"} /\ LazyMemory \in BOOLEAN

VARIABLES
  live,   \* driver: objects, <<kind, number, owner>>
  usage,  \* driver: usage flags of the images of an owner
  kept,   \* what the renderer remembers of each resource, by owner
  filled  \* driver: the object in each descriptor of a descriptor set, by owner

vars == <<live, usage, kept, filled>>

One(kind, cond) == IF cond THEN {<<kind, 0>>} ELSE {}
Many(kind, n) == {<<kind, i>> : i \in 0 .. n - 1}
-----------------------------------------------------------------------------
(* Buffers.                                                                  *)

BufferUsage(d) ==
  {u \in {"uniform_buffer", "storage_buffer", "storage", "uniform"} :
     CASE u = "uniform_buffer" -> "uniform" \in d.uses
       [] u = "storage_buffer" -> d.uses \cap {"rw", "buffer"} # {}
       [] u = "storage" -> "rw" \in d.uses /\ d.typed
       [] u = "uniform" -> "buffer" \in d.uses /\ d.typed}

BufferObjects(d) ==
  LET views == BufferUsage(d) \cap TexelViews IN
  One("buffer", TRUE) \cup One("uniformview", "uniform" \in views) \cup One("storageview", "storage" \in views)
-----------------------------------------------------------------------------
(* Textures.                                                                 *)

\* The usage an image is created with; on a tile, only the attachment is left.
ImageUsage(d) ==
  LET asked == (IF "texture" \in d.uses THEN {"sampled"} ELSE {})
               \cup (IF "rw" \in d.uses THEN {"storage"} ELSE {}) \cup d.attachment
      copied == IF asked \cap {"sampled", "storage"} # {} THEN {"transfer"} ELSE {}
  IN  IF d.tile /\ LazyMemory THEN {"transient"} \cup d.attachment ELSE asked \cup copied

\* Without a handle of its own, a texture has an image and its memory: an
\* allocation of VMA, or of the driver when its planes are bound one by one.
TextureObjects(d) ==
  One("image", ~d.native) \cup One("allocation", ~d.native /\ ~d.planar)
  \cup One("devicemem", ~d.native /\ d.planar)
  \cup One("srv", "texture" \in d.uses) \cup One("stencilsrv", "texture" \in d.uses /\ d.stencil)
  \cup (IF "rw" \in d.uses THEN Many("uav", d.mips) ELSE {})

TextureKept(d) ==
  [ownsimage |-> ~d.native, planar |-> d.planar, mips |-> d.mips,
   srv |-> "texture" \in d.uses, stencilsrv |-> "texture" \in d.uses /\ d.stencil, uavs |-> "rw" \in d.uses]

\* mutant: only the first of the views is destroyed.
TextureRemovedOneUav(k) ==
  One("image", k.ownsimage) \cup One("allocation", k.ownsimage /\ ~k.planar)
  \cup One("devicemem", k.ownsimage /\ k.planar)
  \cup One("srv", k.srv) \cup One("stencilsrv", k.stencilsrv) \cup One("uav", k.uavs)

TextureRemoved(k) ==
  One("image", k.ownsimage) \cup One("allocation", k.ownsimage /\ ~k.planar)
  \cup One("devicemem", k.ownsimage /\ k.planar)
  \cup One("srv", k.srv) \cup One("stencilsrv", k.stencilsrv)
  \cup (IF k.uavs THEN Many("uav", k.mips) ELSE {})
-----------------------------------------------------------------------------
(* Render targets.                                                           *)

\* mutant: a target on a tile can still be read and written by shaders.
TargetUsesKept(d) == IF d.tile THEN d.uses ELSE d.uses \cup {"texture"}

\* A target can be sampled, unless it is on a tile.
TargetUses(d) == IF d.tile THEN d.uses \ {"texture", "rw"} ELSE d.uses \cup {"texture"}

TargetTexture(d) ==
  [uses |-> TargetUses(d), attachment |-> IF d.depth THEN {"depth"} ELSE {"color"},
   mips |-> d.mips, planar |-> FALSE, stencil |-> d.depth, native |-> d.native, tile |-> d.tile]

\* One view of the whole target and one of each mip level or slice.
TargetObjects(d) ==
  TextureObjects(TargetTexture(d)) \cup One("rtview", TRUE)
  \cup Many("sliceview", IF d.slices THEN d.mips * d.layers ELSE d.mips)

\* rendertarget->descriptors, by which the views are counted when they are
\* destroyed, is never assigned: slices are always FALSE, and of a target with
\* slices only one view for each level is destroyed.  asked is what slices
\* should have been; only OwnedExactly reads it.
TargetKept(d) ==
  [tex |-> TextureKept(TargetTexture(d)), mips |-> d.mips, layers |-> d.layers,
   slices |-> FALSE, asked |-> d.slices]
TargetRemoved(k) ==
  TextureRemoved(k.tex) \cup One("rtview", TRUE)
  \cup Many("sliceview", IF k.slices THEN k.mips * k.layers ELSE k.mips)

\* The images of a swapchain become render targets with a native handle.
BackBuffer == [uses |-> {}, depth |-> FALSE, mips |-> 1, layers |-> 1, native |-> TRUE, tile |-> FALSE, slices |-> FALSE]
Numbered(objects, i) == {<<o[1], o[2] + 10 * i>> : o \in objects}
SwapchainObjects(d) ==
  One("surface", TRUE) \cup One("swapchain", TRUE)
  \cup UNION {Numbered(TargetObjects(BackBuffer), i) : i \in 1 .. d.images}
SwapchainRemoved(k) ==
  UNION {Numbered(TargetRemoved(k.rts[i]), i) : i \in DOMAIN k.rts}
  \cup One("swapchain", TRUE) \cup One("surface", TRUE)
-----------------------------------------------------------------------------
(* Shaders and descriptor sets.                                              *)

Stages == <<"vert", "tesc", "tese", "geom", "frag", "comp">>
\* The place of a stage among the stages of a shader, as the reflection has it.
StageIndex(stages, s) ==
  Cardinality({i \in DOMAIN Stages : Stages[i] \in stages /\ i < (CHOOSE j \in DOMAIN Stages : Stages[j] = s)})

ShaderObjects(d) == Many("module", Cardinality(d.stages))

ShaderRemoved(k) ==
  {<<"module", StageIndex(k.stages, s)>> : s \in k.stages \ {"comp"}} \cup One("module", "comp" \in k.stages)

\* mutant: the default buffers are of no format, so they have no texel views.
DefaultBufferUntyped(use) ==
  [type |-> "buffer", uses |-> IF use = "srv" THEN {"buffer", "uniform"} ELSE {"rw"}, typed |-> FALSE]

DefaultBuffer(use) ==
  [type |-> "buffer", uses |-> IF use = "srv" THEN {"buffer", "uniform"} ELSE {"rw"}, typed |-> TRUE]
DefaultTexture(uses) ==
  [type |-> "texture", uses |-> uses, attachment |-> {}, mips |-> 1, planar |-> FALSE,
   stencil |-> FALSE, native |-> FALSE, tile |-> FALSE]

HasUav(dim) == dim \notin {"2dms", "2dmsarray", "cube", "cubearray"}

\* What an unset descriptor holds: the default sampler, texture or buffer.
DefaultFor(p) ==
  CASE p.kind = "sampler" -> <<"sampler", 0, <<"default", "sampler">>>>
    [] p.kind = "texture" -> <<"srv", 0, <<"srv", p.dim>>>>
    [] p.kind = "rwtexture" -> <<"uav", 0, <<"uav", p.dim>>>>
    [] p.kind \in {"buffer", "rwbuffer", "uniformbuffer"} -> <<"buffer", 0, <<"default", "srv">>>>
    [] p.kind = "texelbuffer" -> <<"uniformview", 0, <<"default", "srv">>>>
    [] p.kind = "rwtexelbuffer" -> <<"storageview", 0, <<"default", "uav">>>>
-----------------------------------------------------------------------------
(* All types of resources.                                                   *)

SamplerObjects(d) == One("sampler", TRUE) \cup One("conversion", d.planar)
CmdObjects(d) == Many("cmdbuf", d.count)
\* The sets are freed with their pool.
SetObjects == One("descpool", TRUE)
Filled(d) == {DefaultFor(p) : p \in d.params}

\* One function for each type, as the table of init_vulkanrenderer has them.
Objects(d) ==
  CASE d.type = "buffer" -> BufferObjects(d)
    [] d.type = "texture" -> TextureObjects(d)
    [] d.type = "rendertarget" -> TargetObjects(d)
    [] d.type = "swapchain" -> SwapchainObjects(d)
    [] d.type = "shader" -> ShaderObjects(d)
    [] d.type = "sampler" -> SamplerObjects(d)
    [] d.type = "descset" -> SetObjects
    [] d.type = "cmds" -> CmdObjects(d)
    [] d.type = "single" -> One(d.kind, TRUE)

Kept(d) ==
  CASE d.type = "texture" -> [type |-> "texture", tex |-> TextureKept(d)]
    [] d.type = "rendertarget" -> [type |-> "rendertarget", rt |-> TargetKept(d)]
    [] d.type = "swapchain" -> [type |-> "swapchain", rts |-> [i \in 1 .. d.images |-> TargetKept(BackBuffer)]]
    [] d.type = "shader" -> [type |-> "shader", stages |-> d.stages]
    [] OTHER -> [type |-> d.type, handles |-> Objects(d)]

Removed(k) ==
  CASE k.type = "texture" -> TextureRemoved(k.tex)
    [] k.type = "rendertarget" -> TargetRemoved(k.rt)
    [] k.type = "swapchain" -> SwapchainRemoved(k)
    [] k.type = "shader" -> ShaderRemoved(k)
    [] OTHER -> k.handles

UsageOf(d) ==
  CASE d.type = "texture" /\ ~d.native -> ImageUsage(d)
    [] d.type = "rendertarget" /\ ~d.native -> ImageUsage(TargetTexture(d))
    [] OTHER -> {}

Owned(owner, objects) == {<<o[1], o[2], owner>> : o \in objects}
Without(f, S) == [o \in DOMAIN f \ S |-> f[o]]

Defaults ==
  [o \in {<<"srv", dim>> : dim \in Dims} |-> DefaultTexture({"texture"})]
  @@ [o \in {<<"uav", dim>> : dim \in {d \in Dims : HasUav(d)}} |-> DefaultTexture({"rw"})]
  @@ <<"default", "srv">> :> DefaultBuffer("srv") @@ <<"default", "uav">> :> DefaultBuffer("uav")
  @@ <<"default", "sampler">> :> [type |-> "sampler", planar |-> FALSE]
Apps == {<<"app", i>> : i \in Ids}
Nobody == <<"nobody">>

Init == live = {} /\ usage = <<>> /\ kept = <<>> /\ filled = <<>>

\* add_default_resources, at the end of vk_init_renderer.
AddDefaultResources ==
  /\ kept = <<>>
  /\ live' = live \cup UNION {Owned(o, Objects(Defaults[o])) : o \in DOMAIN Defaults}
  /\ usage' = [o \in DOMAIN Defaults |-> UsageOf(Defaults[o])]
  /\ kept' = [o \in DOMAIN Defaults |-> Kept(Defaults[o])]
  /\ UNCHANGED filled

\* remove_default_resources, after the application removed its resources.
RemoveDefaultResources ==
  /\ kept # <<>> /\ DOMAIN kept \cap Apps = {}
  /\ LET gone == {<<"srv", dim>> : dim \in Dims} \cup {<<"uav", dim>> : dim \in {d \in Dims : HasUav(d)}}
                 \cup {<<"default", x>> : x \in {"srv", "uav", "sampler"}}
     IN  /\ live' = live \ UNION {Owned(o, Removed(kept[o])) : o \in gone}
         /\ kept' = Without(kept, gone) /\ usage' = Without(usage, gone)
  /\ UNCHANGED filled

\* vk_add_...: a descriptor set is filled with the default resources.
Add(id, d) ==
  LET o == <<"app", id>> IN
  /\ kept # <<>> /\ o \notin DOMAIN kept
  /\ live' = live \cup Owned(o, Objects(d))
  /\ usage' = (o :> UsageOf(d)) @@ usage
  /\ kept' = (o :> Kept(d)) @@ kept
  /\ filled' = IF d.type = "descset" THEN (o :> Filled(d)) @@ filled ELSE filled

\* vk_remove_...: what is not destroyed here is nobody's from then on.
Remove(id) ==
  LET o == <<"app", id>>
      ofO == {x \in live : x[3] = o}
  IN
  /\ o \in DOMAIN kept
  /\ live' = (live \ ofO) \cup {<<x[1], x[2], Nobody>> : x \in ofO \ Owned(o, Removed(kept[o]))}
  /\ kept' = Without(kept, {o}) /\ usage' = Without(usage, {o}) /\ filled' = Without(filled, {o})

Next ==
  \/ AddDefaultResources
  \/ RemoveDefaultResources
  \/ \E i \in Ids, d \in Descs : Add(i, d)
  \/ \E i \in Ids : Remove(i)
Spec == Init /\ [][Next]_vars
-----------------------------------------------------------------------------
(* Properties.                                                               *)

\* vk_add_* and vk_remove_*: the objects that the removals would destroy, found
\* from what is remembered, all live, so nothing is destroyed twice; and what
\* lives besides, and leaks, are only views of single slices of a target that
\* has one for each slice.  After remove_default_resources nothing else is left.
Destroyable == UNION {Owned(o, Removed(kept[o])) : o \in DOMAIN kept}
OwnedExactly ==
  /\ Destroyable \subseteq live
  /\ \A x \in live \ Destroyable :
       x[1] = "sliceview" /\ (x[3] = Nobody \/ kept[x[3]].rt.asked)

\* vk_add_texture, vk_add_rendertarget: an image that the renderer creates has
\* the usage its views are for: "On tile textures do not support SRV/UAV".
ViewsFitUsage ==
  \A o \in live : <<"image", 0, o[3]>> \in live =>
    CASE o[1] \in {"srv", "stencilsrv"} -> "sampled" \in usage[o[3]]
      [] o[1] = "uav" -> "storage" \in usage[o[3]]
      [] o[1] \in {"rtview", "sliceview"} -> usage[o[3]] \cap {"color", "depth"} # {}
      [] OTHER -> TRUE

\* vk_add_descriptorset: from the start each descriptor of a set holds an
\* object that lives as long as the set; that is, but for the textures that
\* shaders write whose dimension has no default, where it reads the view
\* through a pointer that add_default_resources left NULL.
NoDefault(x) == x[1] = "uav" /\ ~HasUav(x[3][2])
DescriptorsAreFilled ==
  \A o \in DOMAIN filled : {x \in filled[o] : ~NoDefault(x)} \subseteq live
=============================================================================
