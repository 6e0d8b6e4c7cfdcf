------------------------- MODULE RenderTargetCache -------------------------
(* Render passes and framebuffers, which vk_cmd_bindrendertargets makes when  *)
(* it needs them and keeps until the renderer ends.  Each thread has maps of  *)
(* its own, in a table of all threads that a lock protects.  The entry that   *)
(* is found is read outside the lock, which does no harm before the fourth    *)
(* thread makes the table move: MaxThreads is the bound of this module.       *)
(* The keys are checksums of what the pass or the framebuffer is made of;     *)
(* they are modelled as what goes into them, so that two keys are equal only  *)
(* if the code folds the same words in the same order.                        *)
EXTENDS Naturals, Sequences, FiniteSets, FiniteSetsExt

CONSTANTS
  Threads,
  Names,       \* what the application calls its render targets
  Descs,       \* descriptions [format, mips, layers, slices, lazy] of targets
  Bindings,    \* calls of vk_cmd_bindrendertargets
  MaxTargets,  \* bound: render targets that are ever made
  MaxCalls,    \* bound: calls that bind targets
  MaxThreads,  \* bound: threads that record commands
  None

CacheAssumption == MaxThreads \in 1 .. 3 /\ Cardinality(Threads) <= MaxThreads

Maps == {"passes", "framebuffers"}

VARIABLES
  target,   \* render target of each name, or None
  rtids,    \* counter that numbers the render targets
  pc, call, \* where each thread is, and its arguments
  table,    \* renderpasses, framebuffers: the threads that have a map there
  rpmap,    \* the render passes of each thread
  fbmap,    \* the framebuffers of each thread
  active,   \* the pass that each thread has begun, or None
  made,     \* external: passes and framebuffers the driver has
  calls     \* calls so far

vars == <<target, rtids, pc, call, table, rpmap, fbmap, active, made, calls>>

Init ==
  /\ target = [n \in Names |-> None]
  /\ rtids = 1
  /\ pc = [t \in Threads |-> "idle"] /\ call = [t \in Threads |-> None]
  /\ table = [m \in Maps |-> {}]
  /\ rpmap = [t \in Threads |-> <<>>] /\ fbmap = [t \in Threads |-> <<>>]
  /\ active = [t \in Threads |-> None]
  /\ made = [m \in Maps |-> 0]
  /\ calls = 0
-----------------------------------------------------------------------------
(* Render targets and their views.                                           *)

View(t, mip, layers) == [id |-> t.id, mip |-> mip, layers |-> layers]
Layers(t) == 0 .. t.layers - 1

\* mutant: one place for each layer, and not for each layer of each level.
SliceViewsFlat(t) ==
  IF t.slices THEN [i \in Layers(t) |-> View(t, 0, {i})]
  ELSE [i \in 0 .. t.mips - 1 |-> View(t, i, Layers(t))]

\* slicedescriptors of vk_add_rendertarget: one view for each level, or for
\* each layer of each level.
SliceViews(t) ==
  IF t.slices
  THEN [i \in 0 .. t.mips * t.layers - 1 |-> View(t, i \div t.layers, {i % t.layers})]
  ELSE [i \in 0 .. t.mips - 1 |-> View(t, i, Layers(t))]

\* mutant: an id that was used is used again.
NewIdReused == 1 + Cardinality({n \in Names : target[n] # None})

NewId == rtids

AddRenderTarget(n, d) ==
  /\ target[n] = None /\ rtids <= MaxTargets
  /\ target' = [target EXCEPT ![n] =
       [id |-> NewId, format |-> d.format, mips |-> d.mips, layers |-> d.layers,
        slices |-> d.slices, lazy |-> d.lazy]]
  /\ rtids' = rtids + 1
  /\ UNCHANGED <<pc, call, table, rpmap, fbmap, active, made, calls>>

NamesOf(b) == {b.colors[i] : i \in DOMAIN b.colors} \cup ({b.depth} \ {None})
InUse == UNION {NamesOf(call[t]) : t \in {u \in Threads : call[u] # None}}

\* The application removes a target that no command uses any more.
RemoveRenderTarget(n) ==
  /\ target[n] # None /\ n \notin InUse
  /\ target' = [target EXCEPT ![n] = None]
  /\ UNCHANGED <<rtids, pc, call, table, rpmap, fbmap, active, made, calls>>
-----------------------------------------------------------------------------
(* vk_cmd_bindrendertargets: keys.  A key is the sequence of the words that  *)
(* are folded into the checksum; an array is folded as its own checksum.     *)

Crc(words) == <<0>> \o words

\* The pass of a colour target: of the loop only the last round is left.
ColorPart(b, t) == <<t.format, b.load, IF t.lazy THEN 0 ELSE b.store>>
DepthPart(b, t) == <<t.format, b.load, b.load, IF t.lazy THEN 0 ELSE b.store>>

Last(b) == target[b.colors[Len(b.colors)]]

PassKey(b) ==
  (IF b.colors = <<>> THEN <<>> ELSE <<ColorPart(b, Last(b))>>)
    \o (IF b.depth = None THEN <<>> ELSE <<DepthPart(b, target[b.depth])>>)

FramebufferKey(b) ==
  (IF b.colors = <<>> THEN <<>> ELSE <<<<1, Last(b).id>>>>)
    \o (IF b.depth = None THEN <<>> ELSE <<<<target[b.depth].id>>>>)
    \o (IF b.arrays = <<>> THEN <<>> ELSE <<Crc(b.arrays)>>)
    \o (IF b.levels = <<>> THEN <<>> ELSE <<Crc(b.levels)>>)
    \o (IF b.deptharray = None THEN <<>> ELSE <<<<b.deptharray>>>>)
    \o (IF b.depthlevel = None THEN <<>> ELSE <<<<b.depthlevel>>>>)
-----------------------------------------------------------------------------
(* add_renderpass and add_framebuffer.                                       *)

RenderPass(b) ==
  [colors |-> [i \in DOMAIN b.colors |-> ColorPart(b, target[b.colors[i]])],
   depth |-> IF b.depth = None THEN <<>> ELSE DepthPart(b, target[b.depth])]

NoView == [id |-> 0, mip |-> 0, layers |-> {}]
Slice(t, handle) == IF handle \in DOMAIN SliceViews(t) THEN SliceViews(t)[handle] ELSE NoView

ColorView(b, i) ==
  LET t == target[b.colors[i]] IN
  IF b.levels = <<>> /\ b.arrays = <<>> THEN View(t, 0, Layers(t))
  ELSE Slice(t, IF b.levels = <<>> THEN b.arrays[i]
                ELSE IF b.arrays = <<>> THEN b.levels[i]
                ELSE b.levels[i] * t.layers + b.arrays[i])

\* Both conditions of the code test the layer; with a layer but no level the
\* place is far outside of the array.
DepthView(b) ==
  LET t == target[b.depth] IN
  IF b.depthlevel = None /\ b.deptharray = None THEN View(t, 0, Layers(t))
  ELSE IF b.deptharray = None THEN Slice(t, 0)
  ELSE IF b.depthlevel = None THEN NoView
  ELSE Slice(t, b.depthlevel * t.layers + b.deptharray)

Framebuffer(b, pass) ==
  [views |-> [i \in DOMAIN b.colors |-> ColorView(b, i)]
               \o (IF b.depth = None THEN <<>> ELSE <<DepthView(b)>>),
   pass |-> pass]
-----------------------------------------------------------------------------
(* vk_cmd_bindrendertargets: the steps of a thread.                          *)

CallBind(t) ==
  /\ pc[t] = "idle"
  /\ \E b \in Bindings :
       /\ \A n \in NamesOf(b) : target[n] # None
       /\ call' = [call EXCEPT ![t] = b]
       \* depth targets are made for depth, and levels and layers exist
       /\ \A i \in DOMAIN b.colors :
            LET d == target[b.colors[i]] IN
            /\ b.arrays # <<>> => d.slices /\ b.arrays[i] < d.layers
            /\ b.levels # <<>> => b.levels[i] < d.mips
            /\ d.slices \/ b.arrays = <<>>
       /\ b.depth = None \/
            LET d == target[b.depth] IN
            /\ b.deptharray # None => d.slices /\ b.deptharray < d.layers
            /\ b.depthlevel # None => b.depthlevel < d.mips
  /\ calls < MaxCalls /\ calls' = calls + 1
  /\ active' = [active EXCEPT ![t] = None]
  /\ pc' = [pc EXCEPT ![t] = "passes"]
  /\ UNCHANGED <<target, rtids, table, rpmap, fbmap, made>>

\* get_render_pass_map or get_frame_buffer_map, inside the lock: a thread that
\* is new gets an empty map.
FindMap(t, m) ==
  /\ pc[t] = m
  /\ table' = [table EXCEPT ![m] = @ \cup {t}]
  /\ pc' = [pc EXCEPT ![t] = IF m = "passes" THEN "framebuffers" ELSE "bind"]
  /\ UNCHANGED <<target, rtids, call, rpmap, fbmap, active, made, calls>>

Put(map, k, v) == [x \in DOMAIN map \cup {k} |-> IF x = k THEN v ELSE map[x]]

\* What is in the maps is used, what is not is made and kept.
BindRenderTargets(t) ==
  /\ pc[t] = "bind"
  /\ LET b == call[t]
         rk == PassKey(b)
         fk == FramebufferKey(b)
         rps == IF rk \in DOMAIN rpmap[t] THEN rpmap[t] ELSE Put(rpmap[t], rk, RenderPass(b))
         fbs == IF fk \in DOMAIN fbmap[t] THEN fbmap[t]
                ELSE Put(fbmap[t], fk, Framebuffer(b, rps[rk]))
     IN  /\ rpmap' = [rpmap EXCEPT ![t] = rps]
         /\ fbmap' = [fbmap EXCEPT ![t] = fbs]
         /\ active' = [active EXCEPT ![t] = [pass |-> rps[rk], framebuffer |-> fbs[fk]]]
         /\ made' = [made EXCEPT !["passes"] = @ + Cardinality(DOMAIN rps) - Cardinality(DOMAIN rpmap[t]),
                                 !["framebuffers"] = @ + Cardinality(DOMAIN fbs) - Cardinality(DOMAIN fbmap[t])]
  /\ pc' = [pc EXCEPT ![t] = "idle"]
  /\ UNCHANGED <<target, rtids, call, table, calls>>

\* vk_cmd_end, and vk_cmd_bindrendertargets without a target.
EndPass(t) ==
  /\ pc[t] = "idle" /\ active[t] # None
  /\ active' = [active EXCEPT ![t] = None]
  /\ call' = [call EXCEPT ![t] = None]
  /\ UNCHANGED <<target, rtids, pc, table, rpmap, fbmap, made, calls>>

\* mutant: the framebuffers are forgotten.
DestroyedPassesOnly(m) ==
  IF m = "passes" THEN MapThenSumSet(LAMBDA t : Cardinality(DOMAIN rpmap[t]), table[m]) ELSE 0

\* What the loops of vk_exit_renderer find in the maps of the table.
Destroyed(m) ==
  MapThenSumSet(LAMBDA t : Cardinality(DOMAIN (IF m = "passes" THEN rpmap[t] ELSE fbmap[t])),
                table[m])

\* vk_exit_renderer, when no command is recorded any more.
ExitRenderer ==
  /\ \A t \in Threads : pc[t] = "idle" /\ active[t] = None
  /\ rtids > MaxTargets
  /\ \E m \in Maps : table[m] # {}
  /\ made' = [m \in Maps |-> made[m] - Destroyed(m)]
  /\ table' = [m \in Maps |-> {}]
  /\ rpmap' = [t \in Threads |-> <<>>] /\ fbmap' = [t \in Threads |-> <<>>]
  /\ pc' = [t \in Threads |-> "done"]
  /\ UNCHANGED <<target, rtids, call, active, calls>>

Next ==
  \/ \E n \in Names, d \in Descs : AddRenderTarget(n, d)
  \/ \E n \in Names : RemoveRenderTarget(n)
  \/ \E t \in Threads : CallBind(t)
  \/ \E t \in Threads, m \in Maps : FindMap(t, m)
  \/ \E t \in Threads : BindRenderTargets(t)
  \/ \E t \in Threads : EndPass(t)
  \/ ExitRenderer
Spec == Init /\ [][Next]_vars
-----------------------------------------------------------------------------
(* Properties.                                                               *)

\* The views a call asks for: a level if it gives one, a layer if it gives
\* one, and otherwise the first level and all layers.
Wanted(t, level, layer) ==
  View(t, IF level = None THEN 0 ELSE level, IF layer = None THEN Layers(t) ELSE {layer})
WantedViews(b) ==
  [i \in DOMAIN b.colors |->
     Wanted(target[b.colors[i]], IF b.levels = <<>> THEN None ELSE b.levels[i],
            IF b.arrays = <<>> THEN None ELSE b.arrays[i])]
    \o (IF b.depth = None THEN <<>>
        ELSE <<Wanted(target[b.depth], b.depthlevel, b.deptharray)>>)

\* The calls for which add_framebuffer finds the views that were asked for.  It
\* does not for a depth target with a level but no layer or a layer but no
\* level, as it tests the layer where it means the level, nor for a level of a
\* color target with slices when no layer is given.
PlacesAreFound(b) ==
  /\ (b.depthlevel = None) = (b.deptharray = None)
  /\ b.levels # <<>> /\ b.arrays = <<>> =>
       \A i \in DOMAIN b.colors : ~target[b.colors[i]].slices

\* A pass that was begun draws into the views the call named, in their order,
\* with the formats and operations of the call, whatever the thread had bound
\* before, such calls with half a place included, and whichever targets were
\* removed and made anew in between.
BoundAsAsked ==
  \A t \in Threads : active[t] # None =>
    /\ PlacesAreFound(call[t]) => active[t].framebuffer.views = WantedViews(call[t])
    /\ active[t].pass = RenderPass(call[t])

\* A framebuffer is used with a pass of the formats it was made for.
PassFitsFramebuffer ==
  \A t \in Threads : active[t] # None =>
    LET p == active[t].pass
        q == active[t].framebuffer.pass
    IN  /\ DOMAIN p.colors = DOMAIN q.colors
        /\ \A i \in DOMAIN p.colors : p.colors[i][1] = q.colors[i][1]
        /\ (p.depth = <<>>) = (q.depth = <<>>)

\* What the driver made is in a map of the table, from where the exit finds
\* it: nothing is made twice under one key, and nothing is left over.
MadeIsKept == \A m \in Maps : made[m] = MapThenSumSet(
  LAMBDA t : Cardinality(DOMAIN (IF m = "passes" THEN rpmap[t] ELSE fbmap[t])), table[m])
=============================================================================
