-------------------------------- MODULE MCGpu --------------------------------
(* The renderer.  Each behaviour is about one part of it: kind says which.     *)
(* The frames are those of GpuFrames, with two of them in flight and a texture *)
(* of two pages, of which the second is the level that always stays.  They,    *)
(* Barriers, Device and GpuSelect are modules as they stand; v1 .. v10 are the *)
(* variables of the other parts, which are instances.                          *)
EXTENDS GpuFrames, Barriers, Device, GpuSelect

CONSTANTS t1, t2

VARIABLES kind, v1, v2, v3, v4, v5, v6, v7, v8, v9, v10

from8 == <<v8, v9, v10>>
from7 == <<v7, from8>>
from6 == <<v6, from7>>
from5 == <<v5, from6>>
from4 == <<v4, from5>>
others == <<v1, v2, v3, from4>>
extended == <<vars, barrierVars, deviceVars, selectVars>>
all == <<kind, extended, others>>
None8 == v8 = None /\ v9 = None /\ v10 = None
None7 == v7 = None /\ None8
None6 == v6 = None /\ None7
None5 == v5 = None /\ None6
None4 == v4 = None /\ None5

MCMipLevel == [p \in Pages |-> p]
-----------------------------------------------------------------------------
(* What the parts are given.                                                  *)

\* Barriers: each type of queue has a family of its own.
MCFamily == [t \in {"graphics", "compute", "transfer"} |->
             IF t = "graphics" THEN 0 ELSE IF t = "compute" THEN 1 ELSE 2]
MCStates == {{"rt"}, {"uav"}, {"depth"}, {"srv", "copysrc"}}
MCBufferChanges == {<<{}, {}>>, <<{"vertex"}, {"indirect"}>>}

\* RenderTargetCache: plain targets and targets with a view for each slice.
AnyCall == [colors |-> <<>>, depth |-> None, arrays |-> <<>>, levels |-> <<>>,
         deptharray |-> None, depthlevel |-> None, load |-> 1, store |-> 1]
Plain == [format |-> 1, mips |-> 2, layers |-> 1, slices |-> FALSE, lazy |-> FALSE]
Sliced == [Plain EXCEPT !.layers = 2, !.slices = TRUE, !.format = 2, !.lazy = TRUE]
TargetDescs == {Plain, Sliced}
\* Calls with one color target, a depth target or both; a level and a layer are
\* given together, alone, or not at all.
OneColor == {[AnyCall EXCEPT !.colors = <<"a">>], [AnyCall EXCEPT !.depth = "a"],
             [AnyCall EXCEPT !.colors = <<"a">>, !.load = 0]}
  \cup {[AnyCall EXCEPT !.colors = <<"a">>, !.arrays = r, !.levels = <<1>>] : r \in {<<>>, <<1>>}}
  \cup {[AnyCall EXCEPT !.colors = <<"a">>, !.arrays = <<1>>, !.levels = l] : l \in {<<>>, <<0>>}}
  \cup {[AnyCall EXCEPT !.depth = "a", !.deptharray = r, !.depthlevel = l] : r, l \in {None, 1}}
  \cup {[AnyCall EXCEPT !.colors = <<"a">>, !.depth = "b", !.deptharray = 1, !.depthlevel = 1]}
TwoColors == OneColor \cup {[AnyCall EXCEPT !.colors = <<m, n>>] : m, n \in {"a", "b"}}

\* DescriptorSets: signatures with sets that are filled, empty, static, missing.
Layouts == [g \in {"a", "b"} |->
  LET sets == IF g = "a" THEN <<"filled", "empty", "filled", "none">>
                         ELSE <<"static", "filled", "none", "none">>
  IN  [s \in 0 .. 3 |-> sets[s + 1]]]
DynamicSets == [g \in {"a", "b"} |-> IF g = "a" THEN 2 ELSE None]

\* DescriptorUpdates: calls that fill the buffers of infos and of writes.
\* Some arrays start behind element 0, and are cut in the middle at times.
ParamOf(b, s, vs, z) == [binding |-> b, start |-> s, values |-> vs, size |-> z]
OneParam == {ParamOf(0, 0, <<"x">>, 3), ParamOf(0, 1, <<"y", "z">>, 3), ParamOf(1, 0, <<"x", "y", "z">>, 1),
             ParamOf(1, 0, <<"u", "v", "w", "x", "y">>, 1), ParamOf(1, 2, <<"v", "w", "x", "y", "z">>, 1),
             ParamOf(2, 0, <<"y", "z">>, 3)}
Updates == {<<p>> : p \in OneParam} \cup {<<p, q>> : p, q \in OneParam}
             \cup {<<p, q, r>> : p, q, r \in OneParam}

\* Device: the families of a GPU with dedicated queues, two of one kind.
QueueFamily(flags, count) == [flags |-> flags, count |-> count]
MCFamilies == <<QueueFamily({"graphics", "compute", "transfer"}, 3),
                QueueFamily({"transfer"}, 1), QueueFamily({"transfer"}, 2),
                QueueFamily({"compute", "transfer"}, 2)>>

\* GpuSelect: up to three GPUs.
DrawingFamilies == <<[flags |-> {"compute"}], [flags |-> {"graphics", "compute"}]>>
HeadlessFamilies == <<[flags |-> {"compute"}]>>
GpuOf(preset, sort, model, vram, families) ==
  [preset |-> preset, kind |-> sort, model |-> model, vram |-> vram, families |-> families,
   extensions |-> IF vram = 1 THEN <<"accel", "other", "pipeline">> ELSE <<"pipeline", "other">>]
Gpus == {GpuOf(p, k, m, v, DrawingFamilies) : p \in {1, 2}, k \in {"discrete", "integrated"}, m \in {"m", "n"}, v \in {1, 2}}
          \cup {GpuOf(3, "discrete", "m", 3, HeadlessFamilies), GpuOf(0, "cpu", "c", 0, DrawingFamilies)}
AnyMachine == <<GpuOf(0, "cpu", "c", 0, DrawingFamilies)>>
MCMachines == {<<a>> : a \in Gpus} \cup {<<a, b>> : a, b \in Gpus} \cup {<<a, b, c>> : a, b, c \in Gpus}

\* GraphicsPipeline: layouts of up to three attributes in two bindings.
VertexAttributes == [binding : {0, 1}, rate : {"vertex", "instance"}, size : {1, 3}, location : {0}]
VertexLayouts == UNION {[1 .. n -> VertexAttributes] : n \in 0 .. 3}
StageSets == {{"vert", "frag"}, {"frag"}, {"vert", "tesc", "tese", "geom", "frag"}}

\* RootSignature: stages that share names, sets and registers, or clash in them.
Res(n, t, s, r) == [name |-> n, type |-> t, set |-> s, reg |-> r, size |-> 1, root |-> FALSE, stages |-> {}]
FrameRes == [Res("frame", "uniform", 0, 0) EXCEPT !.root = TRUE]
Scene == [Res("scene", "uniform", 0, 1) EXCEPT !.root = TRUE]
Images == [Res("images", "texture", 2, 0) EXCEPT !.size = 3]
Linear == Res("linear", "sampler", 3, 0)
Push == Res("push", "constant", 9, 0)
Alias == Res("alias", "uniform", 2, 1)
Camera == Res("camera", "uniform", 2, 1)
Moved == Res("linear", "sampler", 1, 0)
StageOf(s, rs, vs) == [stage |-> s, vars |-> vs,
                     resources |-> [i \in DOMAIN rs |-> [rs[i] EXCEPT !.stages = {s}]]]
Var(n, p) == [name |-> n, offset |-> 0, size |-> 1, parent |-> p]
Verts == {StageOf("vert", <<FrameRes>>, <<Var("view", 1)>>),
          StageOf("vert", <<Scene, FrameRes>>, <<Var("sun", 1), Var("view", 2)>>),
          StageOf("vert", <<Camera, Push>>, <<Var("eye", 1)>>),
          StageOf("vert", <<Alias>>, <<Var("eye", 1)>>)}
Frags == {StageOf("frag", <<Images, FrameRes>>, <<Var("view", 2)>>),
          StageOf("frag", <<FrameRes, Images>>, <<[Var("view", 1) EXCEPT !.size = 2]>>),
          StageOf("frag", <<Linear, Images>>, <<>>),
          StageOf("frag", <<Moved>>, <<>>),
          StageOf("frag", <<Push>>, <<Var("tint", 1)>>)}
Comp == StageOf("comp", <<Scene, Images>>, <<Var("sun", 1)>>)
ShaderPrograms == {<<v>> : v \in Verts} \cup {<<v, f>> : v \in Verts, f \in Frags}
                \cup {<<f, v>> : v \in Verts, f \in Frags}
                \cup {<<Comp>>} \cup {<<v, v>> : v \in Verts}

\* GpuObjects: descriptions of every kind of resource.
TextureDesc(usages, mips, planar, stencil, native) ==
  [type |-> "texture", uses |-> usages, attachment |-> {}, mips |-> mips, planar |-> planar,
   stencil |-> stencil, native |-> native, tile |-> FALSE]
TargetDesc(usages, depth, mips, tile, slices) ==
  [type |-> "rendertarget", uses |-> usages, depth |-> depth, mips |-> mips, layers |-> 2,
   native |-> FALSE, tile |-> tile, slices |-> slices]
DescriptorParams(kinds, dim) == {[kind |-> k, dim |-> dim] : k \in kinds}
ObjectDescs ==
  {[type |-> "buffer", uses |-> u, typed |-> t] : u \in SUBSET {"uniform", "buffer", "rw"}, t \in BOOLEAN}
  \cup {TextureDesc(u, m, p, s, n) : u \in SUBSET {"texture", "rw"}, m \in {1, 2}, p, s, n \in BOOLEAN}
  \cup {TargetDesc(u, FALSE, m, t, FALSE) : u \in SUBSET {"texture", "rw"}, m \in {1, 2}, t \in BOOLEAN}
  \cup {TargetDesc({}, TRUE, m, t, s) : m \in {1, 2}, t, s \in BOOLEAN}
  \cup {TargetDesc({"rw"}, FALSE, m, FALSE, TRUE) : m \in {1, 2}}
  \cup {[type |-> "swapchain", images |-> n] : n \in {2, 3}}
  \cup {[type |-> "shader", stages |-> s] : s \in {{"vert", "frag"}, {"vert", "geom", "frag"},
          {"vert", "tesc", "tese", "frag"}, {"comp"}}}
  \cup {[type |-> "sampler", planar |-> p] : p \in BOOLEAN}
  \cup {[type |-> "cmds", count |-> 2]}
  \cup {[type |-> "single", kind |-> k] : k \in {"cmdpool", "querypool", "pipelinecache", "computepipeline", "fence", "semaphore"}}
  \cup {[type |-> "descset", params |-> p] : p \in {
          DescriptorParams({"sampler", "texture", "texelbuffer", "uniformbuffer"}, "cube"),
          DescriptorParams({"texture", "rwtexture", "rwtexelbuffer", "rwbuffer"}, "2d")}
          \cup {DescriptorParams({"texture", "rwtexture"}, m) : m \in {"2dms", "cube"}}}
-----------------------------------------------------------------------------

Targets == INSTANCE RenderTargetCache WITH
  Threads <- {t1, t2}, Names <- {"a", "b"}, Descs <- TargetDescs, Bindings <- OneColor,
  MaxTargets <- 2, MaxCalls <- 3, MaxThreads <- 3,
  target <- v1, rtids <- v2, pc <- v3, call <- v4, table <- v5, rpmap <- v6, fbmap <- v7,
  active <- v8, made <- v9, calls <- v10

\* The same with calls that bind two color targets.
TwoTargets == INSTANCE RenderTargetCache WITH
  Threads <- {t1, t2}, Names <- {"a", "b"}, Descs <- TargetDescs, Bindings <- TwoColors,
  MaxTargets <- 2, MaxCalls <- 3, MaxThreads <- 3,
  target <- v1, rtids <- v2, pc <- v3, call <- v4, table <- v5, rpmap <- v6, fbmap <- v7,
  active <- v8, made <- v9, calls <- v10

Root == INSTANCE RootSignature WITH
  Programs <- ShaderPrograms, MaxShaders <- 2, Statics <- {"linear"},
  given <- v1, shaders <- v2, signature <- v3, live <- v4

Sets_ == INSTANCE DescriptorSets WITH
  Sigs <- {"a", "b"}, Layout <- Layouts, DynamicSet <- DynamicSets,
  Indices <- {0, 1}, Buffers <- {"b1", "b2"}, MaxBinds <- 3,
  bound <- v1, layout <- v2, uniform <- v3, cache <- v4, recorded <- v5, astray <- v6

Writes == INSTANCE DescriptorUpdates WITH
  Params <- Updates, MaxWrites <- 2, Room <- 7, MaxUpdates <- 2, Unknown <- "unknown",
  content <- v1, wanted <- v2, params <- v3, updates <- v4

Objects_ == INSTANCE GpuObjects WITH
  Ids <- {"r1", "r2"}, Descs <- ObjectDescs, Dims <- {"2d", "2dms", "cube"},
  TexelViews <- {"uniform", "storage"}, LazyMemory <- TRUE,
  live <- v1, usage <- v2, kept <- v3, filled <- v4

Pipe == INSTANCE GraphicsPipeline WITH
  Layouts <- VertexLayouts, StageSets <- StageSets, MaxAttributes <- 3,
  desc <- v1, turn <- v2, stages <- v3, pass <- v4, input <- v5, pipelines <- v6, failed <- v7

ASSUME PartAssumptions ==
  Targets!CacheAssumption /\ Root!SignatureAssumption /\ Writes!UpdateAssumption /\ Objects_!ObjectAssumption

ExtendedInit ==
  /\ FramesInit /\ BarrierInit /\ DeviceInit /\ SelectInit
  /\ kind # "select" => gpus = AnyMachine

GpuInit ==
  /\ \/ kind \in {"frames", "barriers", "device", "select"} /\ v1 = None /\ v2 = None /\ v3 = None /\ None4
     \/ kind = "targets" /\ Targets!Init
     \/ kind = "root" /\ Root!Init /\ None5
     \/ kind = "sets" /\ Sets_!Init /\ None7
     \/ kind = "writes" /\ Writes!Init /\ None5
     \/ kind = "objects" /\ Objects_!Init /\ None5
     \/ kind = "pipeline" /\ Pipe!Init /\ None8
  /\ ExtendedInit

FramesOnly == kind = "frames" /\ UNCHANGED <<kind, barrierVars, deviceVars, selectVars, others>>
GpuNext ==
  \/ FramesOnly /\ FramesNext
  \/ kind = "barriers" /\ BarrierNext /\ UNCHANGED <<kind, vars, deviceVars, selectVars, others>>
  \/ kind = "device" /\ DeviceNext /\ UNCHANGED <<kind, vars, barrierVars, selectVars, others>>
  \/ kind = "select" /\ SelectNext /\ UNCHANGED <<kind, vars, barrierVars, deviceVars, others>>
  \/ kind = "targets" /\ Targets!Next /\ UNCHANGED <<kind, extended>>
  \/ kind = "root" /\ Root!Next /\ UNCHANGED <<kind, extended, from5>>
  \/ kind = "sets" /\ Sets_!Next /\ UNCHANGED <<kind, extended, from7>>
  \/ kind = "writes" /\ Writes!Next /\ UNCHANGED <<kind, extended, from5>>
  \/ kind = "objects" /\ Objects_!Next /\ UNCHANGED <<kind, extended, from5>>
  \/ kind = "pipeline" /\ Pipe!Next /\ UNCHANGED <<kind, extended, from8>>

\* The fairness of GpuFrames.
GpuFairness ==
  /\ WF_vars(FramesOnly /\ Drawing)
  /\ WF_vars(FramesOnly /\ Loading)
  /\ \A t \in Threads : WF_vars(FramesOnly /\ Calling(t))
  /\ \A q \in Queues : WF_vars(FramesOnly /\ Executing(q))
  /\ WF_vars(FramesOnly /\ Arriving)

GpuSpec == GpuInit /\ [][GpuNext]_all /\ GpuFairness
\* Two of the parts alone, for what does not hold of them.
CacheSpec ==
  /\ kind = "targets" /\ TwoTargets!Init /\ ExtendedInit
  /\ [][TwoTargets!Next /\ UNCHANGED <<kind, extended>>]_all
PipelineSpec == GpuInit /\ kind = "pipeline" /\ [][GpuNext]_all
-----------------------------------------------------------------------------
(* The properties of the modules, each of the behaviours it is about; those of *)
(* GpuFrames, Barriers, Device (QueuesAreCounted), GpuSelect (BestGpu) hold    *)
(* as they stand, as these are at rest in the behaviours of the others.        *)

\* GpuFrames: every frame is drawn and the memory given back.
FramesAreDrawn == kind = "frames" => AllFramesDrawn

\* RenderTargetCache: what is bound are the views that were asked for.
BoundAsAsked == kind = "targets" => Targets!BoundAsAsked
\* RenderTargetCache: besides, pass and framebuffer go together, and what was
\* made is kept until the renderer is left.
CacheIsSound ==
  BoundAsAsked /\ (kind = "targets" => Targets!PassFitsFramebuffer /\ Targets!MadeIsKept)

\* RootSignature: every stage sees the resources it declared, names lead to
\* their resource, members keep the buffer they are in; pools hold the
\* descriptors of a set, and removing the signature leaves nothing behind.
SignaturesAreSound ==
  kind = "root" =>
    /\ Root!EachStageSees /\ Root!NamesLeadThere /\ Root!ParentsAreKept
    /\ Root!PoolsHoldASet /\ Root!NothingLeft

\* DescriptorUpdates: everything asked for is written.  DescriptorSets: every
\* set a shader uses is bound, with the dynamic buffers that were asked for.
DescriptorsArrive ==
  /\ kind = "writes" => Writes!UpdatesArrive
  /\ kind = "sets" => Sets_!NoSetIsMissing /\ Sets_!RootBuffersAsAsked

\* GpuObjects: what exists is what the live resources need, with the usage that
\* views need, and a new descriptor set points at objects that exist.
ObjectsAreOwned ==
  kind = "objects" => Objects_!OwnedExactly /\ Objects_!ViewsFitUsage /\ Objects_!DescriptorsAreFilled
\* GraphicsPipeline: the vertex input is that of the layout.
LayoutIsDescribed == kind = "pipeline" => Pipe!LayoutIsDescribed
\* GraphicsPipeline: pipelines are made while the temporary pass exists.
TemporaryPassIsLive == kind = "pipeline" => Pipe!TemporaryPassIsLive
=============================================================================
