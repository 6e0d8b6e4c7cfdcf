---------------------------- MODULE RootSignature ----------------------------
(* From the reflections of shader stages to a pipeline layout.  The stages of *)
(* a shader are combined (create_pipelinereflection), the shaders of a        *)
(* signature are combined again, by other rules (vk_add_rootsignature), and   *)
(* the result becomes set layouts, pool sizes and a pipeline layout.  What a  *)
(* stage uses comes from SPIRV-Cross and is an input here.                    *)
EXTENDS Naturals, Sequences, FiniteSets, SequencesExt

CONSTANTS
  Programs,    \* shaders: sequences of stage reflections
  MaxShaders,  \* bound: shaders of one signature
  Statics,     \* names of static samplers
  None

Sets == 0 .. 3   \* DESCRIPTOR_UPDATE_FREQ_COUNT sets
SignatureAssumption == MaxShaders \in Nat \ {0}

VARIABLES
  given,      \* the stages of the shaders that were added
  shaders,    \* their pipeline reflections
  signature,  \* the root signature, or None
  live        \* driver: set layouts and pools that exist

vars == <<given, shaders, signature, live>>

First(s) == CHOOSE i \in s : \A j \in s : i <= j
-----------------------------------------------------------------------------
(* create_pipelinereflection.                                                *)

SameResource(a, b) ==
  a.type = b.type /\ a.set = b.set /\ a.reg = b.reg /\ a.name = b.name
SameVariable(a, b) == a.offset = b.offset /\ a.size = b.size /\ a.name = b.name

MergeResource(list, r) ==
  LET same == {k \in DOMAIN list : SameResource(list[k], r)} IN
  IF same = {} THEN Append(list, r) ELSE [list EXCEPT ![First(same)].stages = @ \cup r.stages]

\* A variable goes with the resource of its stage that holds it.
MergeVariable(list, v) ==
  IF \E k \in DOMAIN list : SameVariable(list[k].var, v.var) THEN list ELSE Append(list, v)

VariablesOf(stage) ==
  [i \in DOMAIN stage.vars |->
     [var |-> stage.vars[i], parent |-> stage.resources[stage.vars[i].parent]]]

\* mutant: the place of the parent in its own stage is kept.
ParentKept(resources, v) == v.var.parent

\* parent_index of a combined variable; without a match it stays what it was.
Parent(resources, v) ==
  LET same == {j \in DOMAIN resources : SameResource(resources[j], v.parent)} IN
  IF same = {} THEN v.var.parent ELSE First(same)

StageNames(program) == {program[i].stage : i \in DOMAIN program}

\* Two reflections of one stage are refused: everything stays zero.
Combine(program) ==
  LET resources == FoldLeft(MergeResource, <<>>, FlattenSeq([i \in DOMAIN program |-> program[i].resources]))
      vars_ == FoldLeft(MergeVariable, <<>>, FlattenSeq([i \in DOMAIN program |-> VariablesOf(program[i])]))
  IN  IF Cardinality(StageNames(program)) < Len(program)
      THEN [stages |-> {}, resources |-> <<>>, vars |-> <<>>]
      ELSE [stages |-> StageNames(program), resources |-> resources,
            vars |-> [i \in DOMAIN vars_ |-> [vars_[i].var EXCEPT !.parent = Parent(resources, vars_[i])]]]
-----------------------------------------------------------------------------
(* vk_add_rootsignature: the resources of all shaders, by name.              *)

Bind(map, name, i) == [n \in DOMAIN map \cup {name} |-> IF n = name THEN i ELSE map[n]]

\* mutant: a place is a register, whatever the set.
NewNameNoSet(acc, r) ==
  LET same == {k \in DOMAIN acc.resources :
                 LET c == acc.resources[k]
                 IN  c.type = r.type /\ c.stages = r.stages /\ c.reg = r.reg}
  IN  IF same = {}
      THEN [acc EXCEPT !.map = Bind(@, r.name, Len(acc.resources) + 1), !.resources = Append(@, r)]
      ELSE [acc EXCEPT !.map = Bind(@, r.name, @[acc.resources[First(same)].name])]

\* A new name in the place of another resource of the same stages is an alias.
NewName(acc, r) ==
  LET same == {k \in DOMAIN acc.resources :
                 LET c == acc.resources[k]
                 IN  c.type = r.type /\ c.stages = r.stages /\ c.reg = r.reg /\ c.set = r.set}
  IN  IF same = {}
      THEN [acc EXCEPT !.map = Bind(@, r.name, Len(acc.resources) + 1), !.resources = Append(@, r)]
      ELSE [acc EXCEPT !.map = Bind(@, r.name, @[acc.resources[First(same)].name])]

\* mutant: the first shader decides which stages see a resource.
KnownNameOnce(acc, r) ==
  LET k == acc.map[r.name] IN
  IF acc.resources[k].reg # r.reg \/ acc.resources[k].set # r.set THEN [acc EXCEPT !.ok = FALSE] ELSE acc

\* A known name adds its stages to the resource that has this name itself.
KnownName(acc, r) ==
  LET k == acc.map[r.name]
      own == {j \in DOMAIN acc.resources : acc.resources[j].name = r.name}
  IN  IF acc.resources[k].reg # r.reg \/ acc.resources[k].set # r.set THEN [acc EXCEPT !.ok = FALSE]
      ELSE IF own = {} THEN acc
      ELSE [acc EXCEPT !.resources[First(own)].stages = @ \cup r.stages]

Collect(acc, r) ==
  IF ~acc.ok THEN acc
  ELSE IF r.name \in DOMAIN acc.map THEN KnownName(acc, r) ELSE NewName(acc, r)

Collected(reflections) ==
  FoldLeft(Collect, [map |-> <<>>, resources |-> <<>>, ok |-> TRUE],
           FlattenSeq([i \in DOMAIN reflections |-> reflections[i].resources]))
-----------------------------------------------------------------------------
(* vk_add_rootsignature: layouts, pools and the pipeline layout.             *)

Dynamic(r) == r.root /\ r.size = 1
DriverType(r) == IF Dynamic(r) THEN "dynamic" ELSE r.type
StaticSampler(r) == r.name \in Statics /\ r.type # "combined"

InSet(resources, s) == SelectSeq(resources, LAMBDA r : r.type # "constant" /\ r.set = s)
Binding(r) == [reg |-> r.reg, type |-> DriverType(r), count |-> r.size, stages |-> r.stages]

\* A set that is not used but comes before one that is gets the empty layout.
SetLayouts(resources) ==
  [s \in Sets |->
     IF InSet(resources, s) # <<>>
     THEN [empty |-> FALSE, bindings |-> [i \in DOMAIN InSet(resources, s) |-> Binding(InSet(resources, s)[i])]]
     ELSE IF \E t \in Sets : t > s /\ InSet(resources, t) # <<>> THEN [empty |-> TRUE, bindings |-> <<>>]
     ELSE None]

\* descriptors of a layout that the application updates.
Updatable(resources, s) == SelectSeq(InSet(resources, s), LAMBDA r : ~StaticSampler(r))

\* mutant: static samplers take no place in the pool.
PoolSizesUpdatable(resources, s) ==
  LET rs == Updatable(resources, s) IN
  [t \in {DriverType(rs[i]) : i \in DOMAIN rs} |->
     FoldLeft(LAMBDA n, r : IF DriverType(r) = t THEN n + r.size ELSE n, 0, rs)]

PoolSizes(resources, s) ==
  LET rs == InSet(resources, s) IN
  [t \in {DriverType(rs[i]) : i \in DOMAIN rs} |->
     FoldLeft(LAMBDA n, r : IF DriverType(r) = t THEN n + r.size ELSE n, 0, rs)]

\* The layouts that exist, one after the other.
PipelineLayout(layouts) ==
  SelectSeq([i \in 1 .. Cardinality(Sets) |-> [set |-> i - 1, layout |-> layouts[i - 1]]],
            LAMBDA l : l.layout # None)

Signature(reflections) ==
  LET c == Collected(reflections)
      layouts == SetLayouts(c.resources)
      layout == PipelineLayout(layouts)
  IN  [map |-> c.map, descriptors |-> c.resources, layouts |-> layouts,
       pipeline |-> [i \in DOMAIN layout |-> layout[i].layout],
       pools |-> [s \in Sets |-> PoolSizes(c.resources, s)],
       \* sets that nobody updates are bound all the same
       emptysets |-> {s \in Sets : layouts[s] # None /\ Updatable(c.resources, s) = <<>>}]

\* Driver objects of a signature: its layouts, and pools for the sets that
\* hold nothing but static samplers.
Objects(sig) ==
  Cardinality({s \in Sets : sig.layouts[s] # None /\ ~sig.layouts[s].empty})
    + Cardinality({s \in sig.emptysets : ~sig.layouts[s].empty})

\* mutant: the pools of the empty sets are forgotten.
DestroyedLayoutsOnly(sig) == Cardinality({s \in Sets : sig.layouts[s] # None /\ ~sig.layouts[s].empty})

\* vk_remove_rootsignature: all layouts but the shared empty one, and the
\* pools it finds.
Destroyed(sig) ==
  Cardinality({s \in Sets : sig.layouts[s] \notin {None, [empty |-> TRUE, bindings |-> <<>>]}})
    + Cardinality({s \in Sets : s \in sig.emptysets /\ ~sig.layouts[s].empty})

Init == given = <<>> /\ shaders = <<>> /\ signature = None /\ live = 0

AddShader(program) ==
  /\ signature = None /\ Len(shaders) < MaxShaders
  /\ given' = Append(given, program)
  /\ shaders' = Append(shaders, Combine(program))
  /\ UNCHANGED <<signature, live>>

\* Resources of one name in two places are refused, before anything is made.
AddRootSignature ==
  /\ signature = None /\ shaders # <<>>
  /\ IF Collected(shaders).ok
     THEN signature' = Signature(shaders) /\ live' = live + Objects(signature')
     ELSE UNCHANGED <<signature, live>>
  /\ UNCHANGED <<given, shaders>>

RemoveRootSignature ==
  /\ signature # None
  /\ signature' = None /\ live' = live - Destroyed(signature)
  /\ given' = <<>> /\ shaders' = <<>>

Next ==
  \/ \E p \in Programs : AddShader(p)
  \/ AddRootSignature
  \/ RemoveRootSignature
Spec == Init /\ [][Next]_vars
-----------------------------------------------------------------------------
(* Properties.                                                               *)

Uses == {[stage |-> given[i][j].stage, resource |-> given[i][j].resources[k]] :
           <<i, j, k>> \in {x \in (1 .. Len(given)) \X (1 .. 4) \X (1 .. 4) :
             /\ x[2] \in DOMAIN given[x[1]] /\ x[3] \in DOMAIN given[x[1]][x[2]].resources
             /\ shaders[x[1]].stages # {}}}

\* Whatever a stage of a shader of the signature reads is in the pipeline
\* layout at the set and the register the shader names, once, with its type
\* and size, and visible to that stage.
EachStageSees ==
  signature # None => \A u \in {v \in Uses : v.resource.type # "constant"} :
    LET r == u.resource
        set == signature.pipeline[r.set + 1]
        at == {i \in DOMAIN set.bindings : set.bindings[i].reg = r.reg}
    IN  /\ r.set + 1 \in DOMAIN signature.pipeline
        /\ Cardinality(at) = 1
        /\ \A i \in at : /\ set.bindings[i].type = DriverType(r) /\ set.bindings[i].count = r.size
                         /\ u.stage \in set.bindings[i].stages

\* get_descriptor: each name, an alias too, leads to the descriptor of the
\* place where the shader reads it.
NamesLeadThere ==
  signature # None => \A u \in Uses :
    LET d == signature.descriptors[signature.map[u.resource.name]]
    IN  d.set = u.resource.set /\ d.reg = u.resource.reg /\ d.type = u.resource.type

\* vk_add_descriptorset and emptydescriptorset: a pool of these sizes has room
\* for a set of the layout.
PoolsHoldASet ==
  signature # None => \A s \in Sets : signature.layouts[s] # None =>
    LET bs == signature.layouts[s].bindings IN
    \A t \in {bs[i].type : i \in DOMAIN bs} :
      /\ t \in DOMAIN signature.pools[s]
      /\ FoldLeft(LAMBDA n, b : IF b.type = t THEN n + b.count ELSE n, 0, bs) <= signature.pools[s][t]

\* create_pipelinereflection: a variable of a shader still belongs to the
\* buffer that holds it in the stage it was found in.
ParentsAreKept ==
  \A i \in DOMAIN shaders : \A k \in DOMAIN shaders[i].vars :
    LET v == shaders[i].vars[k] IN
    \E j \in DOMAIN given[i], m \in 1 .. 4 :
      /\ m \in DOMAIN given[i][j].vars
      /\ given[i][j].vars[m].name = v.name
      /\ SameResource(shaders[i].resources[v.parent], given[i][j].resources[given[i][j].vars[m].parent])

\* vk_remove_rootsignature leaves nothing behind.
NothingLeft == signature = None => live = 0
=============================================================================
