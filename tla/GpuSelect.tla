----------------------------- MODULE GpuSelect ------------------------------
(* The GPU a renderer uses and the extensions its device is created with      *)
(* (_select_best_gpu, add_device).                                            *)
EXTENDS Naturals, Sequences

CONSTANTS
  Machines,         \* inputs: sequences of GPUs,
                    \* [preset, kind, model, vram, families, extensions]
  WantedExtensions, \* wanteddeviceextensions
  RayTracing,       \* those that ray tracing needs
  NoGpu

IsList(s) == Len(s) \in Nat /\ DOMAIN s = 1 .. Len(s)
ASSUME GpuAssumption ==
  /\ RayTracing \subseteq WantedExtensions /\ NoGpu \notin Nat
  /\ \A m \in Machines :
       /\ IsList(m)
       /\ \A i \in DOMAIN m : m[i].preset \in Nat /\ m[i].vram \in Nat /\ IsList(m[i].extensions)

VARIABLES
  gpus,   \* what the driver enumerates
  active, \* index of the active GPU, or NoGpu
  exts    \* extensions of the device, and whether ray tracing is on

selectVars == <<gpus, active, exts>>
-----------------------------------------------------------------------------
(* _select_best_gpu.                                                         *)

\* mutant: a GPU of another model with more memory is better, too.
BetterByMemory(test, ref) ==
  \/ test.preset > ref.preset
  \/ test.vram >= ref.vram

\* _is_gpu_better: preset, then discrete, then the memory of equal models.
Better(test, ref) ==
  IF test.preset # ref.preset THEN test.preset > ref.preset
  ELSE IF (test.kind = "discrete") # (ref.kind = "discrete") THEN test.kind = "discrete"
  ELSE test.model = ref.model /\ test.vram >= ref.vram

Usable(gpu) == \E i \in DOMAIN gpu.families : "graphics" \in gpu.families[i].flags

\* The best of the first i, given that of those before it.
Chosen(list, i, best) ==
  IF (best = NoGpu \/ Better(list[i], list[best])) /\ Usable(list[i]) THEN i ELSE best

Best(list) ==
  LET best[i \in 0 .. Len(list)] == IF i = 0 THEN NoGpu ELSE Chosen(list, i, best[i - 1])
  IN  best[Len(list)]

\* mutant: ray tracing is decided at its first extension.
SeenFirst(s, e) ==
  IF e \notin WantedExtensions THEN s
  ELSE [on |-> s.on \cup {e}, raytracing |-> s.on = {} /\ RayTracing \subseteq {e}]

\* The next extension the driver lists: on are the wanted ones so far, and
\* raytracing tells whether all that it needs have been seen at one of them.
Seen(s, e) ==
  IF e \notin WantedExtensions THEN s
  ELSE [on |-> s.on \cup {e}, raytracing |-> s.raytracing \/ RayTracing \subseteq s.on \cup {e}]

Extensions(listed) ==
  LET seen[i \in 0 .. Len(listed)] ==
        IF i = 0 THEN [on |-> {}, raytracing |-> FALSE] ELSE Seen(seen[i - 1], listed[i])
  IN  seen[Len(listed)]

SelectInit == gpus \in Machines /\ active = NoGpu /\ exts = NoGpu

\* vk_init_renderer gives up when only a software GPU is left.
SelectGpu ==
  /\ active = NoGpu /\ Best(gpus) # NoGpu /\ gpus[Best(gpus)].kind # "cpu"
  /\ active' = Best(gpus) /\ exts' = Extensions(gpus[Best(gpus)].extensions)
  /\ UNCHANGED gpus

\* remove_device
RemoveGpu == active # NoGpu /\ active' = NoGpu /\ exts' = NoGpu /\ UNCHANGED gpus

SelectNext == SelectGpu \/ RemoveGpu
SelectSpec == SelectInit /\ [][SelectNext]_selectVars
-----------------------------------------------------------------------------
(* Properties.                                                               *)

\* _select_best_gpu: whatever order the driver lists the GPUs in, none that
\* can draw has a higher preset than the active one, none of the same preset
\* is discrete when it is not, and none of its model and kind has more memory,
\* although the comparison of two GPUs alone is not an order.
NoneIsBetter ==
  active # NoGpu =>
    LET a == gpus[active] IN
    /\ Usable(a)
    /\ \A i \in DOMAIN gpus : Usable(gpus[i]) =>
         LET g == gpus[i] IN
         /\ g.preset <= a.preset
         /\ g.preset = a.preset => (g.kind = "discrete" => a.kind = "discrete")
         /\ (g.preset = a.preset /\ g.kind = a.kind /\ g.model = a.model) => g.vram <= a.vram

\* add_device: the device has all extensions that are wanted and there, and
\* ray tracing is on exactly if all it needs are, in whatever order they come.
ExtensionsAreAll ==
  active # NoGpu =>
    LET there == {gpus[active].extensions[i] : i \in DOMAIN gpus[active].extensions} IN
    /\ exts.on = there \cap WantedExtensions
    /\ exts.raytracing = (RayTracing \subseteq there /\ there \cap WantedExtensions # {})

\* Both: the best GPU that can draw is taken, with all the extensions that are
\* wanted and there.
BestGpu == NoneIsBetter /\ ExtensionsAreAll
=============================================================================
