------------------------------ MODULE Barriers ------------------------------
(* Resource barriers: the application says which state a texture is in and    *)
(* which one it wants, vk_cmd_resourcebarrier translates both into layouts,   *)
(* accesses, pipeline stages and queue families, and the driver keeps a       *)
(* layout and an owner for each level.  Moving a texture to another queue     *)
(* takes two barriers, a release there and an acquire here, that must say     *)
(* the same.  A state is the set of its RESOURCE_STATE bits.                  *)
EXTENDS Naturals, Sequences, FiniteSets

CONSTANTS
  Levels,        \* the levels of one texture
  States,        \* the states the application uses
  BufferChanges, \* changes <<from, to>> of the state of a buffer in the same call
  Family,        \* queuefamilyindices: the family of each type of queue
  NoOne

QueueTypes == {"graphics", "compute", "transfer"}

\* The bits of a RESOURCE_STATE that the translations below know.
Bits == {"copysrc", "copydst", "vertex", "index", "uav", "indirect", "rt", "depth", "srv",
         "present", "common"}

ASSUME BarrierAssumption ==
  /\ Levels # {} /\ States \subseteq SUBSET Bits
  /\ BufferChanges \subseteq (SUBSET Bits) \X (SUBSET Bits)
  /\ Family \in [QueueTypes -> Nat]

VARIABLES
  state,   \* what the application believes each level is in
  layout,  \* driver: layout of each level
  owner,   \* driver: family that owns each level, or NoOne
  moving,  \* the release of a level that was not acquired yet, or NoOne
  last     \* the last call: its levels, barrier, accesses and stages

barrierVars == <<state, layout, owner, moving, last>>

Undefined == {}
-----------------------------------------------------------------------------
(* Translation of states.                                                    *)

\* _to_vk_image_layout: the first of these bits that is set decides.
LayoutOrder == <<"copysrc", "copydst", "rt", "depth", "uav", "srv", "present">>
LayoutName == [copysrc |-> "TRANSFER_SRC", copydst |-> "TRANSFER_DST", rt |-> "COLOR_ATTACHMENT",
               depth |-> "DEPTH_STENCIL_ATTACHMENT", uav |-> "GENERAL", srv |-> "SHADER_READ_ONLY",
               present |-> "PRESENT_SRC"]
LayoutOf(s) ==
  LET set == {i \in DOMAIN LayoutOrder : LayoutOrder[i] \in s}
  IN  IF set # {} THEN LayoutName[LayoutOrder[CHOOSE i \in set : \A j \in set : i <= j]]
      ELSE IF s = {"common"} THEN "GENERAL" ELSE "UNDEFINED"

\* _to_vk_access_flags.
AccessOf == [copysrc |-> {"TRANSFER_READ"}, copydst |-> {"TRANSFER_WRITE"},
             vertex |-> {"UNIFORM_READ", "VERTEX_ATTRIBUTE_READ"}, index |-> {"INDEX_READ"},
             uav |-> {"SHADER_READ", "SHADER_WRITE"}, indirect |-> {"INDIRECT_COMMAND_READ"},
             rt |-> {"COLOR_READ", "COLOR_WRITE"}, depth |-> {"DEPTH_WRITE"},
             srv |-> {"SHADER_READ"}, present |-> {"MEMORY_READ"}, common |-> {}]
Access(s) == UNION {AccessOf[b] : b \in s}

ShaderAccess == {"UNIFORM_READ", "SHADER_READ", "SHADER_WRITE"}
InputAccess == {"INDEX_READ", "VERTEX_ATTRIBUTE_READ"}
ColorAccess == {"COLOR_READ", "COLOR_WRITE"}

Meets(a, b) == a \cap b # {}

\* mutant: the compute queue takes attachments for shader accesses.
StagesNoFallback(accesses, type) ==
  LET flags ==
        (IF Meets(accesses, ShaderAccess) THEN {"COMPUTE_SHADER"} ELSE {})
          \cup (IF Meets(accesses, {"INDIRECT_COMMAND_READ"}) THEN {"DRAW_INDIRECT"} ELSE {})
          \cup (IF Meets(accesses, {"TRANSFER_READ", "TRANSFER_WRITE"}) THEN {"TRANSFER"} ELSE {})
  IN  IF flags = {} THEN {"TOP_OF_PIPE"} ELSE flags

\* _determine_pipeline_stage_flags.
Stages(accesses, type) ==
  LET graphics ==
        (IF Meets(accesses, InputAccess) THEN {"VERTEX_INPUT"} ELSE {})
          \cup (IF Meets(accesses, ShaderAccess)
                THEN {"VERTEX_SHADER", "FRAGMENT_SHADER", "COMPUTE_SHADER"} ELSE {})
          \cup (IF Meets(accesses, ColorAccess) THEN {"COLOR_OUTPUT"} ELSE {})
          \cup (IF Meets(accesses, {"DEPTH_WRITE"}) THEN {"EARLY_TESTS", "LATE_TESTS"} ELSE {})
      compute == IF Meets(accesses, ShaderAccess) THEN {"COMPUTE_SHADER"} ELSE {}
      flags == (CASE type = "graphics" -> graphics [] type = "compute" -> compute [] OTHER -> {})
          \cup (IF Meets(accesses, {"INDIRECT_COMMAND_READ"}) THEN {"DRAW_INDIRECT"} ELSE {})
          \cup (IF Meets(accesses, {"TRANSFER_READ", "TRANSFER_WRITE"}) THEN {"TRANSFER"} ELSE {})
      others == InputAccess \cup ColorAccess \cup {"DEPTH_WRITE"}
  IN  IF type = "transfer" \/ (type = "compute" /\ Meets(accesses, others))
      THEN {"ALL_COMMANDS"}
      ELSE IF flags = {} THEN {"TOP_OF_PIPE"} ELSE flags
-----------------------------------------------------------------------------
(* vk_cmd_resourcebarrier.                                                   *)

\* mutant: the families of the acquire are swapped.
FamiliesSwapped(type, other, kind, cur) ==
  IF kind # "plain" /\ cur # Undefined
  THEN [src |-> Family[type], dst |-> Family[other]]
  ELSE [src |-> NoOne, dst |-> NoOne]

\* A texture whose state is not defined has no owner to take it from.
FamiliesOf(type, other, kind, cur) ==
  CASE kind = "acquire" /\ cur # Undefined -> [src |-> Family[other], dst |-> Family[type]]
    [] kind = "release" /\ cur # Undefined -> [src |-> Family[type], dst |-> Family[other]]
    [] OTHER -> [src |-> NoOne, dst |-> NoOne]

\* mutant: the layout a storage image is read in is kept for the next use.
BarrierKeepsGeneral(type, other, kind, cur, new) ==
  [old |-> LayoutOf(cur), new |-> IF cur = {"uav"} THEN "GENERAL" ELSE LayoutOf(new),
   src |-> Access(cur), dst |-> Access(new), families |-> FamiliesOf(type, other, kind, cur)]

Barrier(type, other, kind, cur, new) ==
  IF cur = {"uav"} /\ new = {"uav"}
  THEN [old |-> "GENERAL", new |-> "GENERAL", src |-> {"SHADER_WRITE"},
        dst |-> {"SHADER_WRITE", "SHADER_READ"}, families |-> FamiliesOf(type, other, kind, cur)]
  ELSE [old |-> LayoutOf(cur), new |-> LayoutOf(new), src |-> Access(cur), dst |-> Access(new),
        families |-> FamiliesOf(type, other, kind, cur)]

\* The stages are those of the accesses of all barriers of the call; a buffer
\* goes from state buf[1] to state buf[2].
Record(type, ls, b, buf) ==
  LET src == b.src \cup Access(buf[1])
      dst == b.dst \cup Access(buf[2])
  IN  last' = [levels |-> ls, barrier |-> b, src |-> src, dst |-> dst,
               srcstages |-> Stages(src, type), dststages |-> Stages(dst, type)]

BarrierInit ==
  /\ state = [l \in Levels |-> Undefined]
  /\ layout = [l \in Levels |-> "UNDEFINED"]
  /\ owner = [l \in Levels |-> NoOne]
  /\ moving = [l \in Levels |-> NoOne]
  /\ last = NoOne

\* subresourcebarrier: one level, or all of them, then in the same state.
Subresources == {ls \in {{l} : l \in Levels} \cup {Levels} :
                   \A k, l \in ls : state[k] = state[l] /\ moving[k] = moving[l]}
Of(f, ls) == f[CHOOSE l \in ls : TRUE]
With(f, ls, v) == [l \in Levels |-> IF l \in ls THEN v ELSE f[l]]

\* A barrier without a change of queue, among them the first of a texture,
\* that of _initial_transition.
Transition(type, ls, new, buf) ==
  /\ Of(moving, ls) = NoOne /\ \A l \in ls : owner[l] \in {NoOne, Family[type]}
  /\ LET b == Barrier(type, type, "plain", Of(state, ls), new)
     IN  layout' = With(layout, ls, b.new) /\ Record(type, ls, b, buf)
  /\ state' = With(state, ls, new)
  /\ owner' = With(owner, ls, Family[type])
  /\ UNCHANGED moving

\* The release, to a queue of another family: within one there is nothing to
\* give.  The driver changes layout and owner when both halves have run.
ReleaseLevels(type, other, ls, new) ==
  /\ Of(moving, ls) = NoOne /\ \A l \in ls : owner[l] = Family[type]
  /\ Family[other] # Family[type] /\ Of(state, ls) # Undefined
  /\ LET b == Barrier(type, other, "release", Of(state, ls), new)
     IN  /\ moving' = With(moving, ls, [from |-> type, to |-> other, new |-> new, barrier |-> b])
         /\ Record(type, ls, b, <<{}, {}>>)
  /\ UNCHANGED <<state, layout, owner>>

\* The acquire names the same states on the other queue.
AcquireLevels(ls) ==
  LET m == Of(moving, ls) IN
  /\ m # NoOne
  /\ LET b == Barrier(m.to, m.from, "acquire", Of(state, ls), m.new)
     IN  layout' = With(layout, ls, b.new) /\ Record(m.to, ls, b, <<{}, {}>>)
  /\ owner' = With(owner, ls, Family[m.to])
  /\ state' = With(state, ls, m.new)
  /\ moving' = With(moving, ls, NoOne)

BarrierNext ==
  \/ \E t \in QueueTypes, ls \in Subresources, new \in States, buf \in BufferChanges :
       Transition(t, ls, new, buf)
  \/ \E t, o \in QueueTypes, ls \in Subresources, new \in States : ReleaseLevels(t, o, ls, new)
  \/ \E ls \in Subresources : AcquireLevels(ls)
BarrierSpec == BarrierInit /\ [][BarrierNext]_barrierVars
-----------------------------------------------------------------------------
(* Properties.                                                               *)

\* vk_cmd_resourcebarrier, oldLayout: the driver has each level in the layout
\* that the barrier names, whatever the levels went through alone or
\* together and on whichever queues; only undefined contents may be lost.
OldIsCurrent ==
  last' # NoOne => \A l \in last'.levels : last'.barrier.old \in {"UNDEFINED", layout[l]}

\* srcQueueFamilyIndex and the rest of an acquire say the same as the release
\* before it, as the driver needs to give the texture from one to the other.
HalvesMatch ==
  \A l \in Levels : (moving[l] # NoOne /\ moving'[l] = NoOne) =>
    LET r == moving[l].barrier
        a == last'.barrier
    IN  a.families = r.families /\ a.old = r.old /\ a.new = r.new

\* External: which stages may perform an access.
Performs(stage, a) ==
  \/ stage = "ALL_COMMANDS" \/ a = "MEMORY_READ"
  \/ stage = "VERTEX_INPUT" /\ a \in InputAccess
  \/ stage \in {"VERTEX_SHADER", "FRAGMENT_SHADER", "COMPUTE_SHADER"} /\ a \in ShaderAccess
  \/ stage = "COLOR_OUTPUT" /\ a \in ColorAccess
  \/ stage \in {"EARLY_TESTS", "LATE_TESTS"} /\ a = "DEPTH_WRITE"
  \/ stage = "DRAW_INDIRECT" /\ a = "INDIRECT_COMMAND_READ"
  \/ stage = "TRANSFER" /\ a \in {"TRANSFER_READ", "TRANSFER_WRITE"}

\* _determine_pipeline_stage_flags: each access of each barrier of a call is in
\* a stage that performs it, on each type of queue, also when two barriers of
\* one call lead to different cases.
AccessesAreCovered ==
  last # NoOne =>
    /\ \A a \in last.src : \E s \in last.srcstages : Performs(s, a)
    /\ \A a \in last.dst : \E s \in last.dststages : Performs(s, a)

\* All three: the accesses of both sides are covered by the stages, the old
\* layout is the one the driver has, an acquire says what its release said.
BarriersMatch == []AccessesAreCovered /\ [][OldIsCurrent /\ HalvesMatch]_barrierVars
=============================================================================
