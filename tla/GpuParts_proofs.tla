--------------------------- MODULE GpuParts_proofs ---------------------------
(***************************************************************************)
(* Theorems about the parts of the renderer that translate what the        *)
(* application asks for: barriers, for every number of levels and all      *)
(* states, the queues of every device, and the GPU of every machine.       *)
(***************************************************************************)
EXTENDS Barriers, Device, GpuSelect, FiniteSetTheorems, SequenceTheorems,
        NaturalsInduction, WellFoundedInduction, TLAPS

(* Barriers ****************************************************************)

Accesses ==
  {"TRANSFER_READ", "TRANSFER_WRITE", "UNIFORM_READ", "VERTEX_ATTRIBUTE_READ", "INDEX_READ",
   "SHADER_READ", "SHADER_WRITE", "INDIRECT_COMMAND_READ", "COLOR_READ", "COLOR_WRITE",
   "DEPTH_WRITE", "MEMORY_READ"}

LEMMA AccessType ==
  ASSUME NEW s \in SUBSET Bits
  PROVE  Access(s) \subseteq Accesses
<1>1. ASSUME NEW b \in Bits PROVE AccessOf[b] \subseteq Accesses
  BY <1>1 DEF Bits, AccessOf, Accesses
<1>2. QED BY <1>1 DEF Access

\* _determine_pipeline_stage_flags has a stage for each access that it is given.
LEMMA StagesPerform ==
  ASSUME NEW A \in SUBSET Accesses, NEW type \in QueueTypes, NEW a \in A
  PROVE  \E s \in Stages(A, type) : Performs(s, a)
<1> DEFINE graphics ==
             (IF Meets(A, InputAccess) THEN {"VERTEX_INPUT"} ELSE {})
               \cup (IF Meets(A, ShaderAccess)
                     THEN {"VERTEX_SHADER", "FRAGMENT_SHADER", "COMPUTE_SHADER"} ELSE {})
               \cup (IF Meets(A, ColorAccess) THEN {"COLOR_OUTPUT"} ELSE {})
               \cup (IF Meets(A, {"DEPTH_WRITE"}) THEN {"EARLY_TESTS", "LATE_TESTS"} ELSE {})
           compute == IF Meets(A, ShaderAccess) THEN {"COMPUTE_SHADER"} ELSE {}
           own == CASE type = "graphics" -> graphics [] type = "compute" -> compute [] OTHER -> {}
           flags == own
               \cup (IF Meets(A, {"INDIRECT_COMMAND_READ"}) THEN {"DRAW_INDIRECT"} ELSE {})
               \cup (IF Meets(A, {"TRANSFER_READ", "TRANSFER_WRITE"}) THEN {"TRANSFER"} ELSE {})
           rest == InputAccess \cup ColorAccess \cup {"DEPTH_WRITE"}
<1>1. Stages(A, type) = IF type = "transfer" \/ (type = "compute" /\ Meets(A, rest))
                        THEN {"ALL_COMMANDS"}
                        ELSE IF flags = {} THEN {"TOP_OF_PIPE"} ELSE flags
  BY DEF Stages
<1>2. \A S \in SUBSET Accesses : a \in S => Meets(A, S)
  BY DEF Meets
<1>3. CASE type = "transfer" \/ (type = "compute" /\ Meets(A, rest))
  <2>1. "ALL_COMMANDS" \in Stages(A, type)
    BY <1>1, <1>3
  <2>2. QED BY <2>1 DEF Performs
<1>4. CASE ~(type = "transfer" \/ (type = "compute" /\ Meets(A, rest)))
  <2>1. Stages(A, type) = IF flags = {} THEN {"TOP_OF_PIPE"} ELSE flags
    BY <1>1, <1>4
  <2>2. \A s \in flags : s \in Stages(A, type)
    BY <2>1
  <2>3. CASE a = "MEMORY_READ"
    <3>1. Stages(A, type) # {}
      BY <2>1
    <3>2. QED BY <2>3, <3>1 DEF Performs
  <2>4. CASE a = "INDIRECT_COMMAND_READ"
    <3>1. "DRAW_INDIRECT" \in flags
      BY <2>4 DEF Meets
    <3>2. QED BY <2>2, <2>4, <3>1 DEF Performs
  <2>5. CASE a \in {"TRANSFER_READ", "TRANSFER_WRITE"}
    <3>1. "TRANSFER" \in flags
      BY <2>5 DEF Meets
    <3>2. QED BY <2>2, <2>5, <3>1 DEF Performs
  <2>6. CASE a \in ShaderAccess
    <3>1. Meets(A, ShaderAccess)
      BY <2>6 DEF Meets
    <3>2. "COMPUTE_SHADER" \in own
      BY <1>4, <3>1 DEF QueueTypes
    <3>3. "COMPUTE_SHADER" \in flags
      BY <3>2
    <3>4. QED BY <2>2, <2>6, <3>3 DEF Performs
  <2>7. CASE a \in rest
    <3>1. Meets(A, rest)
      BY <2>7 DEF Meets
    <3>2. type = "graphics"
      BY <1>4, <3>1 DEF QueueTypes
    <3>3. own = graphics
      BY <3>2
    <3>4. CASE a \in InputAccess
      <4>1. "VERTEX_INPUT" \in graphics
        BY <3>4 DEF Meets
      <4>2. QED BY <2>2, <3>3, <3>4, <4>1 DEF Performs
    <3>5. CASE a \in ColorAccess
      <4>1. "COLOR_OUTPUT" \in graphics
        BY <3>5 DEF Meets
      <4>2. QED BY <2>2, <3>3, <3>5, <4>1 DEF Performs
    <3>6. CASE a = "DEPTH_WRITE"
      <4>1. "EARLY_TESTS" \in graphics
        BY <3>6 DEF Meets
      <4>2. QED BY <2>2, <3>3, <3>6, <4>1 DEF Performs
    <3>7. QED BY <2>7, <3>4, <3>5, <3>6
  <2>8. a \in {"MEMORY_READ", "INDIRECT_COMMAND_READ", "TRANSFER_READ", "TRANSFER_WRITE"}
          \cup ShaderAccess \cup rest
    BY DEF Accesses, ShaderAccess, InputAccess, ColorAccess
  <2>9. QED BY <2>3, <2>4, <2>5, <2>6, <2>7, <2>8
<1>5. QED BY <1>3, <1>4

\* What a release says of a level that is on its way.
MoveInv(l) ==
  LET m == moving[l] IN
  moving[l] # NoOne =>
    /\ m.from \in QueueTypes /\ m.to \in QueueTypes /\ m.new \in States
    /\ state[l] # Undefined
    /\ m.barrier = Barrier(m.from, m.to, "release", state[l], m.new)

\* The driver has each level in the layout of the state it is believed in, and
\* a release speaks of the state the level still is in.
BarrierInv ==
  /\ state \in [Levels -> SUBSET Bits]
  /\ \A l \in Levels : layout[l] = LayoutOf(state[l])
  /\ \A l \in Levels : MoveInv(l)
  /\ AccessesAreCovered

LEMMA SubresourceFacts ==
  ASSUME NEW ls \in Subresources
  PROVE  /\ ls \in SUBSET Levels
         /\ \A l \in ls : Of(state, ls) = state[l] /\ Of(moving, ls) = moving[l]
<1>1. ls # {} /\ ls \in SUBSET Levels
  BY BarrierAssumption DEF Subresources
<1>2. (CHOOSE l \in ls : TRUE) \in ls
  BY <1>1
<1>3. \A k, l \in ls : state[k] = state[l] /\ moving[k] = moving[l]
  BY DEF Subresources
<1>4. QED BY <1>1, <1>2, <1>3 DEF Of

\* Whatever a call records is covered.
LEMMA RecordCovers ==
  ASSUME NEW type \in QueueTypes, NEW ls, NEW b, NEW buf \in (SUBSET Bits) \X (SUBSET Bits),
         b.src \subseteq Accesses, b.dst \subseteq Accesses, Record(type, ls, b, buf)
  PROVE  AccessesAreCovered' /\ last'.levels = ls /\ last'.barrier = b
<1> DEFINE src == b.src \cup Access(buf[1])
           dst == b.dst \cup Access(buf[2])
<1>1. src \in SUBSET Accesses /\ dst \in SUBSET Accesses
  BY AccessType
<1>2. last' = [levels |-> ls, barrier |-> b, src |-> src, dst |-> dst,
               srcstages |-> Stages(src, type), dststages |-> Stages(dst, type)]
  BY DEF Record
<1>3. /\ last'.src = src /\ last'.dst = dst /\ last'.levels = ls /\ last'.barrier = b
      /\ last'.srcstages = Stages(src, type) /\ last'.dststages = Stages(dst, type)
  BY <1>2
<1>4. \A a \in src : \E s \in Stages(src, type) : Performs(s, a)
  BY <1>1, StagesPerform
<1>5. \A a \in dst : \E s \in Stages(dst, type) : Performs(s, a)
  BY <1>1, StagesPerform
<1> HIDE DEF src, dst
<1>6. QED BY <1>3, <1>4, <1>5, Zenon DEF AccessesAreCovered

\* What the body of vk_cmd_resourcebarrier makes of two states.
LEMMA BarrierFacts ==
  ASSUME NEW type, NEW other, NEW kind, NEW cur \in SUBSET Bits, NEW new \in SUBSET Bits,
         NEW b, b = Barrier(type, other, kind, cur, new)
  PROVE  /\ b.old = LayoutOf(cur) /\ b.new = LayoutOf(new)
         /\ b.families = FamiliesOf(type, other, kind, cur)
         /\ b.src \subseteq Accesses /\ b.dst \subseteq Accesses
<1>1. Access(cur) \subseteq Accesses /\ Access(new) \subseteq Accesses
  BY AccessType
<1>2. CASE cur = {"uav"} /\ new = {"uav"}
  <2>1. LayoutOf({"uav"}) = "GENERAL"
    <3> DEFINE set == {i \in DOMAIN LayoutOrder : LayoutOrder[i] \in {"uav"}}
    <3>1. set = {5}
      BY DEF LayoutOrder
    <3>2. (CHOOSE i \in set : \A j \in set : i <= j) = 5
      BY <3>1
    <3> HIDE DEF set
    <3>3. LayoutName[LayoutOrder[5]] = "GENERAL"
      BY DEF LayoutOrder, LayoutName
    <3>4. LayoutOf({"uav"}) =
            IF set # {} THEN LayoutName[LayoutOrder[CHOOSE i \in set : \A j \in set : i <= j]]
            ELSE IF {"uav"} = {"common"} THEN "GENERAL" ELSE "UNDEFINED"
      BY DEF LayoutOf, set
    <3>5. QED BY <3>1, <3>2, <3>3, <3>4
  <2>2. b =
          [old |-> "GENERAL", new |-> "GENERAL", src |-> {"SHADER_WRITE"},
           dst |-> {"SHADER_WRITE", "SHADER_READ"}, families |-> FamiliesOf(type, other, kind, cur)]
    BY <1>2 DEF Barrier
  <2>3. QED BY <1>2, <2>1, <2>2 DEF Accesses
<1>3. CASE ~(cur = {"uav"} /\ new = {"uav"})
  <2>1. b =
          [old |-> LayoutOf(cur), new |-> LayoutOf(new), src |-> Access(cur), dst |-> Access(new),
           families |-> FamiliesOf(type, other, kind, cur)]
    BY <1>3 DEF Barrier
  <2>2. QED BY <1>1, <2>1
<1>4. QED BY <1>2, <1>3

LEMMA BarrierInitInv == BarrierInit => BarrierInv
<1> SUFFICES ASSUME BarrierInit PROVE BarrierInv
  OBVIOUS
<1>1. LayoutOf(Undefined) = "UNDEFINED"
  <2> DEFINE set == {i \in DOMAIN LayoutOrder : LayoutOrder[i] \in Undefined}
  <2>1. set = {}
    BY DEF Undefined
  <2>2. Undefined # {"common"}
    BY DEF Undefined
  <2>3. QED BY <2>1, <2>2 DEF LayoutOf
<1>2. QED BY <1>1 DEF BarrierInit, BarrierInv, MoveInv, AccessesAreCovered, Undefined

\* What the calls do to levels that they name, and not to others.
Kept(ls) ==
  \A l \in Levels \ ls : state'[l] = state[l] /\ layout'[l] = layout[l] /\ moving'[l] = moving[l]

LEMMA TransitionKeeps ==
  ASSUME BarrierInv, NEW type \in QueueTypes, NEW ls \in Subresources, NEW new \in States,
         NEW buf \in BufferChanges, Transition(type, ls, new, buf)
  PROVE  BarrierInv' /\ OldIsCurrent /\ HalvesMatch
<1> DEFINE cur == Of(state, ls)
           b == Barrier(type, type, "plain", cur, new)
<1>1. /\ ls \in SUBSET Levels
      /\ \A l \in ls : cur = state[l] /\ Of(moving, ls) = moving[l]
  BY SubresourceFacts
<1>2. new \in SUBSET Bits /\ buf \in (SUBSET Bits) \X (SUBSET Bits)
  BY BarrierAssumption
<1>3. cur \in SUBSET Bits
  <2>1. ls # {}
    BY BarrierAssumption DEF Subresources
  <2>2. QED BY <1>1, <2>1 DEF BarrierInv
<1> HIDE DEF cur, b
<1>4. /\ b.old = LayoutOf(cur) /\ b.new = LayoutOf(new)
      /\ b.families = FamiliesOf(type, type, "plain", cur)
      /\ b.src \subseteq Accesses /\ b.dst \subseteq Accesses
  BY <1>2, <1>3, BarrierFacts DEF b
<1>5. /\ layout' = With(layout, ls, b.new) /\ Record(type, ls, b, buf)
      /\ state' = With(state, ls, new) /\ moving' = moving /\ Of(moving, ls) = NoOne
  BY DEF Transition, cur, b
<1>6. AccessesAreCovered' /\ last'.levels = ls /\ last'.barrier = b
  BY <1>2, <1>4, <1>5, RecordCovers
<1>7. \A l \in Levels : /\ state'[l] = IF l \in ls THEN new ELSE state[l]
                        /\ layout'[l] = IF l \in ls THEN LayoutOf(new) ELSE layout[l]
  BY <1>4, <1>5 DEF With
<1>8. state' \in [Levels -> SUBSET Bits]
  BY <1>2, <1>5 DEF With, BarrierInv
<1>9. \A l \in Levels : layout'[l] = LayoutOf(state'[l])
  BY <1>7 DEF BarrierInv
<1>10. ASSUME NEW l \in Levels PROVE MoveInv(l)'
  <2>1. CASE l \in ls
    BY <1>1, <1>5, <2>1 DEF MoveInv
  <2>2. CASE l \notin ls
    <3>1. state'[l] = state[l] /\ moving'[l] = moving[l]
      BY <1>5, <1>7, <2>2
    <3>2. MoveInv(l)
      BY DEF BarrierInv
    <3>3. QED BY <3>1, <3>2, Zenon DEF MoveInv
  <2>3. QED BY <2>1, <2>2
<1>11. OldIsCurrent
  <2>1. ASSUME NEW l \in ls PROVE b.old = layout[l]
    BY <1>1, <1>4, <2>1 DEF BarrierInv
  <2>2. QED BY <1>6, <2>1 DEF OldIsCurrent
<1>12. HalvesMatch
  BY <1>5 DEF HalvesMatch
<1>13. QED BY <1>6, <1>8, <1>9, <1>10, <1>11, <1>12 DEF BarrierInv

LEMMA ReleaseKeeps ==
  ASSUME BarrierInv, NEW type \in QueueTypes, NEW other \in QueueTypes, NEW ls \in Subresources,
         NEW new \in States, ReleaseLevels(type, other, ls, new)
  PROVE  BarrierInv' /\ OldIsCurrent /\ HalvesMatch
<1> DEFINE cur == Of(state, ls)
           b == Barrier(type, other, "release", cur, new)
           m == [from |-> type, to |-> other, new |-> new, barrier |-> b]
<1>1. /\ ls \in SUBSET Levels
      /\ \A l \in ls : cur = state[l] /\ Of(moving, ls) = moving[l]
  BY SubresourceFacts
<1>2. new \in SUBSET Bits /\ <<{}, {}>> \in (SUBSET Bits) \X (SUBSET Bits)
  BY BarrierAssumption
<1>3. cur \in SUBSET Bits
  <2>1. ls # {}
    BY BarrierAssumption DEF Subresources
  <2>2. QED BY <1>1, <2>1 DEF BarrierInv
<1> HIDE DEF cur, b
<1>4. /\ b.old = LayoutOf(cur) /\ b.families = FamiliesOf(type, other, "release", cur)
      /\ b.src \subseteq Accesses /\ b.dst \subseteq Accesses
  BY <1>2, <1>3, BarrierFacts DEF b
<1>5. /\ moving' = With(moving, ls, m) /\ Record(type, ls, b, <<{}, {}>>)
      /\ state' = state /\ layout' = layout /\ Of(moving, ls) = NoOne /\ cur # Undefined
  BY DEF ReleaseLevels, cur, b
<1>6. /\ m.from = type /\ m.to = other /\ m.new = new
      /\ m.barrier = Barrier(m.from, m.to, "release", cur, m.new)
  BY DEF b
<1> HIDE DEF m
<1>7. AccessesAreCovered' /\ last'.levels = ls /\ last'.barrier = b
  BY <1>2, <1>4, <1>5, RecordCovers
<1>8. \A l \in Levels : moving'[l] = IF l \in ls THEN m ELSE moving[l]
  BY <1>5 DEF With
<1>9. ASSUME NEW l \in Levels PROVE MoveInv(l)'
  <2>1. CASE l \in ls
    <3>1. moving'[l] = m /\ state'[l] = cur
      BY <1>1, <1>5, <1>8, <2>1
    <3>2. QED BY <1>5, <1>6, <3>1 DEF MoveInv
  <2>2. CASE l \notin ls
    <3>1. state'[l] = state[l] /\ moving'[l] = moving[l]
      BY <1>5, <1>8, <2>2
    <3>2. MoveInv(l)
      BY DEF BarrierInv
    <3>3. QED BY <3>1, <3>2, Zenon DEF MoveInv
  <2>3. QED BY <2>1, <2>2
<1>10. OldIsCurrent
  <2>1. ASSUME NEW l \in ls PROVE b.old = layout[l]
    BY <1>1, <1>4, <2>1 DEF BarrierInv
  <2>2. QED BY <1>7, <2>1 DEF OldIsCurrent
<1>11. ASSUME NEW l \in Levels, moving[l] # NoOne PROVE moving'[l] = moving[l]
  BY <1>1, <1>5, <1>8, <1>11
<1>12. HalvesMatch
  BY <1>11 DEF HalvesMatch
<1>13. QED BY <1>5, <1>7, <1>9, <1>10, <1>12 DEF BarrierInv

\* The acquire makes of the states what the release made of them.
LEMMA AcquireKeeps ==
  ASSUME BarrierInv, NEW ls \in Subresources, AcquireLevels(ls)
  PROVE  BarrierInv' /\ OldIsCurrent /\ HalvesMatch
<1> DEFINE cur == Of(state, ls)
           m == Of(moving, ls)
           b == Barrier(m.to, m.from, "acquire", cur, m.new)
<1>1. /\ ls \in SUBSET Levels
      /\ \A l \in ls : cur = state[l] /\ m = moving[l]
  BY SubresourceFacts
<1>2. /\ m # NoOne
      /\ layout' = With(layout, ls, b.new) /\ Record(m.to, ls, b, <<{}, {}>>)
      /\ state' = With(state, ls, m.new) /\ moving' = With(moving, ls, NoOne)
  BY DEF AcquireLevels
<1> HIDE DEF cur, m, b
<1>3. /\ m.from \in QueueTypes /\ m.to \in QueueTypes /\ m.new \in States
      /\ cur \in SUBSET Bits /\ cur # Undefined
      /\ m.barrier = Barrier(m.from, m.to, "release", cur, m.new)
  <2>1. PICK l \in ls : TRUE
    BY BarrierAssumption DEF Subresources
  <2>2. l \in Levels /\ cur = state[l] /\ m = moving[l]
    BY <1>1
  <2>3. MoveInv(l) /\ state[l] \in SUBSET Bits
    BY <2>2 DEF BarrierInv
  <2>4. QED BY <1>2, <2>2, <2>3 DEF MoveInv
<1>4. m.new \in SUBSET Bits /\ <<{}, {}>> \in (SUBSET Bits) \X (SUBSET Bits)
  BY <1>3, BarrierAssumption
<1>5. /\ b.old = LayoutOf(cur) /\ b.new = LayoutOf(m.new)
      /\ b.families = FamiliesOf(m.to, m.from, "acquire", cur)
      /\ b.src \subseteq Accesses /\ b.dst \subseteq Accesses
  BY <1>3, <1>4, BarrierFacts DEF b
<1>6. /\ m.barrier.old = LayoutOf(cur) /\ m.barrier.new = LayoutOf(m.new)
      /\ m.barrier.families = FamiliesOf(m.from, m.to, "release", cur)
  <2>1. m.barrier = Barrier(m.from, m.to, "release", cur, m.new) /\ cur \in SUBSET Bits
    BY <1>3
  <2>2. m.new \in SUBSET Bits
    BY <1>4
  <2> DEFINE r == m.barrier
  <2> HIDE DEF r
  <2>3. r = Barrier(m.from, m.to, "release", cur, m.new)
    BY <2>1 DEF r
  <2>4. /\ r.old = LayoutOf(cur) /\ r.new = LayoutOf(m.new)
        /\ r.families = FamiliesOf(m.from, m.to, "release", cur)
    BY <2>1, <2>2, <2>3, BarrierFacts
  <2>5. QED BY <2>4 DEF r
<1>7. FamiliesOf(m.to, m.from, "acquire", cur) = FamiliesOf(m.from, m.to, "release", cur)
  BY <1>3 DEF FamiliesOf
<1>8. AccessesAreCovered' /\ last'.levels = ls /\ last'.barrier = b
  BY <1>2, <1>3, <1>4, <1>5, RecordCovers
<1>9. \A l \in Levels : /\ state'[l] = IF l \in ls THEN m.new ELSE state[l]
                        /\ layout'[l] = IF l \in ls THEN LayoutOf(m.new) ELSE layout[l]
                        /\ moving'[l] = IF l \in ls THEN NoOne ELSE moving[l]
  BY <1>2, <1>5 DEF With
<1>10. state' \in [Levels -> SUBSET Bits]
  BY <1>2, <1>4 DEF With, BarrierInv
<1>11. \A l \in Levels : layout'[l] = LayoutOf(state'[l])
  BY <1>9 DEF BarrierInv
<1>12. ASSUME NEW l \in Levels PROVE MoveInv(l)'
  <2>1. CASE l \in ls
    BY <1>9, <2>1 DEF MoveInv
  <2>2. CASE l \notin ls
    <3>1. state'[l] = state[l] /\ moving'[l] = moving[l]
      BY <1>9, <2>2
    <3>2. MoveInv(l)
      BY DEF BarrierInv
    <3>3. QED BY <3>1, <3>2, Zenon DEF MoveInv
  <2>3. QED BY <2>1, <2>2
<1>13. OldIsCurrent
  <2>1. ASSUME NEW l \in ls PROVE b.old = layout[l]
    BY <1>1, <1>5, <2>1 DEF BarrierInv
  <2>2. QED BY <1>8, <2>1 DEF OldIsCurrent
<1>14. ASSUME NEW l \in Levels, moving[l] # NoOne, moving'[l] = NoOne
       PROVE  /\ last'.barrier.families = moving[l].barrier.families
              /\ last'.barrier.old = moving[l].barrier.old
              /\ last'.barrier.new = moving[l].barrier.new
  <2>1. l \in ls
    BY <1>9, <1>14
  <2>2. moving[l] = m
    BY <1>1, <2>1
  <2>3. QED BY <1>5, <1>6, <1>7, <1>8, <2>2
<1>15. HalvesMatch
  BY <1>14 DEF HalvesMatch
<1>16. QED BY <1>8, <1>10, <1>11, <1>12, <1>13, <1>15 DEF BarrierInv

LEMMA BarrierNextInv ==
  ASSUME BarrierInv, BarrierNext
  PROVE  BarrierInv' /\ OldIsCurrent /\ HalvesMatch
<1>1. CASE \E t \in QueueTypes, ls \in Subresources, new \in States, buf \in BufferChanges :
             Transition(t, ls, new, buf)
  BY <1>1, TransitionKeeps, Zenon
<1>2. CASE \E t, o \in QueueTypes, ls \in Subresources, new \in States :
             ReleaseLevels(t, o, ls, new)
  BY <1>2, ReleaseKeeps, Zenon
<1>3. CASE \E ls \in Subresources : AcquireLevels(ls)
  BY <1>3, AcquireKeeps, Zenon
<1>4. QED BY <1>1, <1>2, <1>3, Zenon DEF BarrierNext

(***************************************************************************)
(* vk_cmd_resourcebarrier, for every texture and all states: the stages of *)
(* a call perform the accesses of both sides, the old layout is the one    *)
(* the driver has, and the acquire of a level says what its release said.  *)
(***************************************************************************)
THEOREM BarriersAreSound == BarrierSpec => BarriersMatch
<1>1. BarrierInv /\ UNCHANGED barrierVars => BarrierInv'
  BY Zenon DEF BarrierInv, MoveInv, AccessesAreCovered, barrierVars
<1>2. BarrierInv => AccessesAreCovered
  BY DEF BarrierInv
<1>3. BarrierInv /\ [BarrierNext]_barrierVars => BarrierInv'
  BY <1>1, BarrierNextInv
<1>4. BarrierInv /\ [BarrierNext]_barrierVars => [OldIsCurrent /\ HalvesMatch]_barrierVars
  BY BarrierNextInv
<1>5. QED BY BarrierInitInv, <1>2, <1>3, <1>4, PTL DEF BarrierSpec, BarriersMatch

(* Numbers *****************************************************************)
\* A set of numbers has a least one.
LEMMA LeastNumber ==
  ASSUME NEW T, T \subseteq Nat, T # {}
  PROVE  \E m \in T : \A i \in T : m <= i
<1>1. PICK m \in T : \A i \in T : ~ (<<i, m>> \in OpToRel(<, Nat))
  BY NatLessThanWellFounded, WFMin
<1>2. ASSUME NEW i \in T PROVE m <= i
  <2>1. m \in Nat /\ i \in Nat
    OBVIOUS
  <2>2. ~ (i < m)
    BY <1>1, <2>1 DEF OpToRel
  <2>3. QED BY <2>1, <2>2
<1>3. QED BY <1>2

LEMMA LeastIsIn ==
  ASSUME NEW T, T \subseteq Nat, T # {}
  PROVE  Least(T) \in T
BY LeastNumber DEF Least

LEMMA GreatestNumber ==
  ASSUME NEW n \in Nat, NEW T, T \subseteq 1 .. n, T # {}
  PROVE  \E m \in T : \A i \in T : i <= m
<1> DEFINE R == {n - i : i \in T}
<1>1. R \subseteq Nat /\ R # {}
  <2>1. \A i \in T : n - i \in Nat
    OBVIOUS
  <2>2. \E i \in T : n - i \in R
    OBVIOUS
  <2>3. QED BY <2>1, <2>2
<1> HIDE DEF R
<1>2. PICK l \in R : \A k \in R : l <= k
  BY <1>1, LeastNumber
<1>3. PICK m \in T : l = n - m
  BY <1>2 DEF R
<1>4. ASSUME NEW i \in T PROVE i <= m
  <2>1. n - i \in R /\ i \in Nat /\ m \in Nat
    BY DEF R
  <2>2. n - m <= n - i
    BY <1>2, <1>3, <2>1
  <2>3. QED BY <2>1, <2>2
<1>5. QED BY <1>4

(* The queues of a device **************************************************)
Entry == [node : Nodes, type : Types, family : DOMAIN Families, index : Nat, handle : Int]

\* The queues of a list on node n whose family has the flags g.
Held(list, n, g) ==
  {k \in 1 .. Len(list) : list[k].node = n /\ Families[list[k].family].flags = g}

LEMMA HeldIsFinite ==
  ASSUME NEW list \in Seq(Entry), NEW n, NEW g
  PROVE  IsFiniteSet(Held(list, n, g)) /\ Cardinality(Held(list, n, g)) \in Nat
<1>1. Held(list, n, g) \in SUBSET (1 .. Len(list)) /\ Len(list) \in Int
  BY DEF Held
<1>2. IsFiniteSet(1 .. Len(list))
  BY <1>1, FS_Interval
<1>3. IsFiniteSet(Held(list, n, g))
  BY <1>1, <1>2, FS_Subset
<1>4. QED BY <1>3, FS_CardinalityType

LEMMA LiveOfIsHeld ==
  ASSUME queues \in Seq(Entry), NEW n, NEW g
  PROVE  LiveOf(n, g) = Cardinality(Held(queues, n, g))
<1>1. Held(queues, n, g) =
        {k \in DOMAIN queues : queues[k].node = n /\ Families[queues[k].family].flags = g}
  BY DEF Held
<1>2. QED BY <1>1 DEF LiveOf

LEMMA HeldOfAppend ==
  ASSUME NEW list \in Seq(Entry), NEW e \in Entry, NEW n, NEW g
  PROVE  Cardinality(Held(Append(list, e), n, g)) =
           IF e.node = n /\ Families[e.family].flags = g THEN Cardinality(Held(list, n, g)) + 1
           ELSE Cardinality(Held(list, n, g))
<1> DEFINE new == Append(list, e)
<1>1. /\ Len(list) \in Nat /\ Len(new) = Len(list) + 1 /\ new[Len(list) + 1] = e
      /\ \A k \in 1 .. Len(list) : new[k] = list[k]
  BY AppendProperties
<1> DEFINE H == Held(list, n, g)
<1>2. IsFiniteSet(H) /\ Cardinality(H) \in Nat /\ Len(list) + 1 \notin H
  <2>1. Len(list) + 1 \notin H
    BY <1>1 DEF Held
  <2>2. QED BY <2>1, HeldIsFinite
<1> HIDE DEF new
<1>3. CASE e.node = n /\ Families[e.family].flags = g
  <2>1. Held(new, n, g) = H \cup {Len(list) + 1}
    BY <1>1, <1>3 DEF Held
  <2>2. Cardinality(Held(new, n, g)) = Cardinality(H) + 1
    <3> HIDE DEF H
    <3>1. QED BY <1>2, <2>1, FS_AddElement
  <2>3. QED BY <1>3, <2>2 DEF new
<1>4. CASE ~(e.node = n /\ Families[e.family].flags = g)
  <2>1. Held(new, n, g) = Held(list, n, g)
    BY <1>1, <1>4 DEF Held
  <2>2. QED BY <1>4, <2>1 DEF new
<1>5. QED BY <1>3, <1>4

LEMMA RemoveAtIs ==
  ASSUME NEW list \in Seq(Entry), NEW k \in 1 .. Len(list)
  PROVE  /\ RemoveAt(list, k) \in Seq(Entry) /\ Len(RemoveAt(list, k)) = Len(list) - 1
         /\ \A i \in 1 .. Len(list) - 1 :
              RemoveAt(list, k)[i] = IF i < k THEN list[i] ELSE list[i + 1]
<1> DEFINE n == Len(list)
           s1 == SubSeq(list, 1, k - 1)
           s2 == SubSeq(list, k + 1, n)
<1>1. n \in Nat /\ k \in Nat /\ 1 <= k /\ k <= n /\ \A i \in 1 .. n : list[i] \in Entry
  OBVIOUS
<1>2. /\ s1 \in Seq(Entry) /\ Len(s1) = k - 1
      /\ \A i \in 1 .. k - 1 : s1[i] = list[i]
  <2>1. 1 \in Int /\ k - 1 \in Int /\ \A i \in 1 .. k - 1 : list[i] \in Entry
    BY <1>1
  <2>2. /\ s1 \in Seq(Entry)
        /\ Len(s1) = IF 1 <= k - 1 THEN (k - 1) - 1 + 1 ELSE 0
        /\ \A i \in 1 .. (k - 1) - 1 + 1 : s1[i] = list[1 + i - 1]
    BY <2>1, SubSeqProperties
  <2> HIDE DEF s1
  <2>3. QED BY <1>1, <2>2
<1>3. /\ s2 \in Seq(Entry) /\ Len(s2) = n - k
      /\ \A i \in 1 .. n - k : s2[i] = list[k + i]
  <2>1. k + 1 \in Int /\ n \in Int /\ \A i \in k + 1 .. n : list[i] \in Entry
    BY <1>1
  <2>2. /\ s2 \in Seq(Entry)
        /\ Len(s2) = IF k + 1 <= n THEN n - (k + 1) + 1 ELSE 0
        /\ \A i \in 1 .. n - (k + 1) + 1 : s2[i] = list[(k + 1) + i - 1]
    BY <2>1, SubSeqProperties
  <2> HIDE DEF s2, n
  <2>3. QED BY <1>1, <2>2
<1>4. RemoveAt(list, k) = s1 \o s2
  BY DEF RemoveAt
<1> HIDE DEF s1, s2
<1>5. /\ s1 \o s2 \in Seq(Entry) /\ Len(s1 \o s2) = Len(s1) + Len(s2)
      /\ \A i \in 1 .. Len(s1) + Len(s2) :
           (s1 \o s2)[i] = IF i <= Len(s1) THEN s1[i] ELSE s2[i - Len(s1)]
  BY <1>2, <1>3, ConcatProperties
<1> HIDE DEF n
<1>6. ASSUME NEW i \in 1 .. n - 1
      PROVE  (s1 \o s2)[i] = IF i < k THEN list[i] ELSE list[i + 1]
  <2>1. i \in 1 .. Len(s1) + Len(s2)
    BY <1>1, <1>2, <1>3, <1>6
  <2>2. CASE i < k
    <3>1. i <= Len(s1) /\ i \in 1 .. k - 1
      BY <1>1, <1>2, <2>2
    <3>2. QED BY <1>2, <1>5, <2>1, <2>2, <3>1
  <2>3. CASE ~(i < k)
    <3>1. ~(i <= Len(s1)) /\ i - Len(s1) \in 1 .. n - k /\ k + (i - Len(s1)) = i + 1
      BY <1>1, <1>2, <2>3
    <3>2. QED BY <1>3, <1>5, <2>1, <2>3, <3>1
  <2>4. QED BY <2>2, <2>3
<1>7. Len(s1 \o s2) = n - 1
  BY <1>1, <1>2, <1>3, <1>5
<1>8. QED BY <1>4, <1>5, <1>6, <1>7 DEF n

LEMMA HeldOfRemoveAt ==
  ASSUME NEW list \in Seq(Entry), NEW k \in 1 .. Len(list), NEW n, NEW g
  PROVE  Cardinality(Held(RemoveAt(list, k), n, g)) =
           IF list[k].node = n /\ Families[list[k].family].flags = g THEN Cardinality(Held(list, n, g)) - 1
           ELSE Cardinality(Held(list, n, g))
<1> DEFINE new == RemoveAt(list, k)
           S == Held(new, n, g)
           T == Held(list, n, g) \ {k}
           f == [j \in S |-> IF j < k THEN j ELSE j + 1]
<1>1. /\ new \in Seq(Entry) /\ Len(new) = Len(list) - 1 /\ Len(list) \in Nat
      /\ \A j \in 1 .. Len(list) - 1 : new[j] = IF j < k THEN list[j] ELSE list[j + 1]
  BY RemoveAtIs
<1> HIDE DEF new
<1>2. IsFiniteSet(S)
  BY <1>1, HeldIsFinite
<1>3. \A j \in S : j \in 1 .. Len(list) - 1 /\ new[j].node = n /\ Families[new[j].family].flags = g
  BY <1>1 DEF Held
<1>4. f \in [S -> T]
  <2>1. ASSUME NEW j \in S PROVE (IF j < k THEN j ELSE j + 1) \in T
    <3>1. CASE j < k
      <4>1. new[j] = list[j] /\ j \in 1 .. Len(list)
        BY <1>1, <1>3, <3>1
      <4>2. QED BY <1>3, <3>1, <4>1 DEF Held
    <3>2. CASE ~(j < k)
      <4>1. new[j] = list[j + 1] /\ j + 1 \in 1 .. Len(list) /\ j + 1 # k
        BY <1>1, <1>3, <3>2
      <4>2. QED BY <1>3, <3>2, <4>1 DEF Held
    <3>3. QED BY <3>1, <3>2
  <2> HIDE DEF S, T
  <2>2. QED BY <2>1
<1>5. \A a, b \in S : f[a] = f[b] => a = b
  <2> HIDE DEF S
  <2>1. QED BY <1>3
<1>6. ASSUME NEW t \in T PROVE \E s \in S : f[s] = t
  <2>1. t \in 1 .. Len(list) /\ t # k /\ list[t].node = n /\ Families[list[t].family].flags = g
    BY DEF Held
  <2>2. CASE t < k
    <3>1. t \in 1 .. Len(list) - 1 /\ new[t] = list[t]
      BY <1>1, <2>1, <2>2
    <3>2. t \in S
      BY <1>1, <2>1, <3>1 DEF Held
    <3> HIDE DEF S
    <3>3. QED BY <2>2, <3>2
  <2>3. CASE t > k
    <3>1. t - 1 \in 1 .. Len(list) - 1 /\ ~(t - 1 < k) /\ (t - 1) + 1 = t
      BY <1>1, <2>1, <2>3
    <3>2. new[t - 1] = list[t]
      BY <1>1, <3>1
    <3>3. t - 1 \in S
      BY <1>1, <2>1, <3>1, <3>2 DEF Held
    <3> HIDE DEF S
    <3>4. QED BY <3>1, <3>3
  <2>4. QED BY <2>1, <2>2, <2>3
<1>7. ExistsBijection(S, T)
  <2> HIDE DEF S, T, f
  <2>1. f \in Bijection(S, T)
    BY <1>4, <1>5, <1>6 DEF Bijection, Injection, Surjection, IsInjective
  <2>2. QED BY <2>1 DEF ExistsBijection
<1>8. Cardinality(T) = Cardinality(S)
  BY <1>2, <1>7, FS_Bijection
<1>9. Cardinality(T) = IF k \in Held(list, n, g) THEN Cardinality(Held(list, n, g)) - 1
                       ELSE Cardinality(Held(list, n, g))
  BY HeldIsFinite, FS_RemoveElement
<1>10. k \in Held(list, n, g) <=> list[k].node = n /\ Families[list[k].family].flags = g
  BY DEF Held
<1>11. QED BY <1>8, <1>9, <1>10 DEF new

\* The families that NoneTooMany is about.
Counted(i) == i # 1 /\ "graphics" \notin Families[i].flags /\ OnlyOneWith(i)

\* What is true of a device that was created.
DeviceLive ==
  /\ created \in [DOMAIN Families -> Nat \ {0}]
  /\ queues \in Seq(Entry)
  /\ used \in [Nodes -> [AllFlags -> Nat]]
  /\ \A n \in Nodes, g \in AllFlags : used[n][g] = Cardinality(Held(queues, n, g))
  /\ \A n \in Nodes, i \in DOMAIN Families :
       Counted(i) => used[n][Families[i].flags] <= created[i]

\* A counter is the number of the live queues of the families with its flags,
\* and stays within what a family was created with.
DeviceInv ==
  /\ created = <<>> => used = <<>> /\ queues = <<>>
  /\ created # <<>> => DeviceLive

\* availablequeues holds what the last of the families with the flags said.
LEMMA AvailableIs ==
  ASSUME DeviceLive, NEW i \in DOMAIN Families
  PROVE  /\ Available(Families[i].flags) \in Nat \ {0}
         /\ OnlyOneWith(i) => Available(Families[i].flags) = created[i]
<1> DEFINE T == {k \in DOMAIN Families : Families[k].flags = Families[i].flags}
           P(k) == /\ Families[k].flags = Families[i].flags
                   /\ \A j \in DOMAIN Families : Families[j].flags = Families[i].flags => j <= k
           c == CHOOSE k \in DOMAIN Families : P(k)
<1>1. PICK m \in T : \A j \in T : j <= m
  <2>1. T # {} /\ T \subseteq 1 .. Len(Families) /\ Len(Families) \in Nat
    BY DeviceAssumption
  <2> HIDE DEF T
  <2>2. QED BY <2>1, GreatestNumber
<1>2. m \in DOMAIN Families /\ P(m)
  BY <1>1
<1>3. c \in DOMAIN Families /\ P(c)
  <2> HIDE DEF P
  <2>1. QED BY <1>2
<1> HIDE DEF c
<1>4. Available(Families[i].flags) = created[c]
  BY DEF Available, c
<1>5. created[c] \in Nat \ {0}
  BY <1>3 DEF DeviceLive
<1>6. OnlyOneWith(i) => c = i
  BY <1>3 DEF OnlyOneWith
<1>7. QED BY <1>4, <1>5, <1>6

LEMMA HasFreeIs ==
  ASSUME DeviceLive, NEW n \in Nodes, NEW i \in DOMAIN Families
  PROVE  /\ HasFree(n, i) <=> used[n][Families[i].flags] < Available(Families[i].flags)
         /\ used[n][Families[i].flags] \in Nat /\ Available(Families[i].flags) \in Nat
<1>1. Families[i].flags \in AllFlags
  BY DEF AllFlags
<1>2. used[n][Families[i].flags] \in Nat
  BY <1>1 DEF DeviceLive
<1>3. QED BY <1>2, AvailableIs DEF HasFree

\* _find_queue_family_index looks at the counters, but for the first family
\* and for those that draw.
LEMMA FoundHasFree ==
  ASSUME DeviceLive, NEW n \in Nodes, NEW t \in Types
  PROVE  LET q == FindQueueFamily(n, t) IN
         /\ q.family \in DOMAIN Families /\ q.index \in Nat
         /\ (q.family # 1 /\ "graphics" \notin Families[q.family].flags) => HasFree(n, q.family)
         /\ (t # "graphics" /\ "graphics" \in Families[q.family].flags) => Dedicated(n, t) = {}
<1> DEFINE d == Least(Dedicated(n, t))
           s == Least(Shared(n, t))
           q == FindQueueFamily(n, t)
<1>1. DOMAIN Families \subseteq Nat /\ 1 \in DOMAIN Families
  BY DeviceAssumption
<1>2. Dedicated(n, t) \subseteq DOMAIN Families /\ Shared(n, t) \subseteq DOMAIN Families
  BY DEF Dedicated, Shared
<1>3. Dedicated(n, t) # {} => d \in Dedicated(n, t)
  BY <1>1, <1>2, LeastIsIn
<1>4. Shared(n, t) # {} => s \in Shared(n, t)
  BY <1>1, <1>2, LeastIsIn
<1>5. \A i \in DOMAIN Families : used[n][Families[i].flags] \in Nat
  BY HasFreeIs
<1>6. q = IF Dedicated(n, t) # {}
          THEN IF t = "graphics" THEN [family |-> d, index |-> 0]
               ELSE [family |-> d, index |-> used[n][Families[d].flags]]
          ELSE IF Shared(n, t) # {} THEN [family |-> s, index |-> used[n][Families[s].flags]]
          ELSE [family |-> 1, index |-> 0]
  BY DEF FindQueueFamily
<1> HIDE DEF d, s, q
<1>7. CASE Dedicated(n, t) # {} /\ t = "graphics"
  <2>1. q.family = d /\ q.index = 0
    BY <1>6, <1>7
  <2>2. d \in DOMAIN Families /\ "graphics" \in Families[d].flags
    BY <1>3, <1>7 DEF Dedicated
  <2>3. QED BY <1>7, <2>1, <2>2 DEF q
<1>8. CASE Dedicated(n, t) # {} /\ t # "graphics"
  <2>1. q.family = d /\ q.index = used[n][Families[d].flags]
    BY <1>6, <1>8
  <2>2. d \in DOMAIN Families /\ HasFree(n, d) /\ "graphics" \notin Families[d].flags
    BY <1>3, <1>8 DEF Dedicated
  <2>3. QED BY <1>5, <2>1, <2>2 DEF q
<1>9. CASE Dedicated(n, t) = {} /\ Shared(n, t) # {}
  <2>1. q.family = s /\ q.index = used[n][Families[s].flags]
    BY <1>6, <1>9
  <2>2. s \in DOMAIN Families /\ HasFree(n, s)
    BY <1>4, <1>9 DEF Shared
  <2>3. QED BY <1>5, <1>9, <2>1, <2>2 DEF q
<1>10. CASE Dedicated(n, t) = {} /\ Shared(n, t) = {}
  <2>1. q.family = 1 /\ q.index = 0
    BY <1>6, <1>10
  <2>2. QED BY <1>1, <1>10, <2>1 DEF q
<1>11. QED BY <1>7, <1>8, <1>9, <1>10

LEMMA AddDeviceKeeps ==
  ASSUME DeviceInv, NEW all \in BOOLEAN, AddDevice(all)
  PROVE  DeviceInv'
<1>1. /\ created = <<>> /\ queues = <<>> /\ queues' = queues
      /\ created' = CreateQueues(Families, all)
      /\ used' = [n \in Nodes |-> [f \in AllFlags |-> 0]]
  BY DEF AddDevice, DeviceInv
<1>2. created' \in [DOMAIN Families -> Nat \ {0}]
  <2>1. ASSUME NEW i \in DOMAIN Families
        PROVE  (CASE Families[i].count > MaxCount /\ all -> MaxCount
                  [] Families[i].count > 1 /\ ~all -> 1
                  [] OTHER -> Families[i].count) \in Nat \ {0}
    BY DeviceAssumption
  <2>2. QED BY <1>1, <2>1 DEF CreateQueues
<1>3. created' # <<>>
  <2>1. 1 \in DOMAIN Families
    BY DeviceAssumption
  <2>2. DOMAIN created' # {}
    BY <1>2, <2>1
  <2>3. QED BY <2>2
<1>4. queues' \in Seq(Entry) /\ Len(queues') = 0
  BY <1>1, EmptySeq
<1>5. used' \in [Nodes -> [AllFlags -> Nat]]
  BY <1>1
<1>6. ASSUME NEW n \in Nodes, NEW g \in AllFlags
      PROVE  used'[n][g] = 0 /\ used'[n][g] = Cardinality(Held(queues', n, g))
  <2>1. used'[n][g] = 0
    BY <1>1
  <2>2. Held(queues', n, g) = {}
    BY <1>4 DEF Held
  <2>3. QED BY <2>1, <2>2, FS_EmptySet
<1>7. ASSUME NEW n \in Nodes, NEW i \in DOMAIN Families
      PROVE  used'[n][Families[i].flags] <= created'[i]
  <2>1. used'[n][Families[i].flags] = 0
    BY <1>6 DEF AllFlags
  <2>2. QED BY <1>2, <2>1
<1>8. DeviceLive'
  BY <1>2, <1>4, <1>5, <1>6, <1>7 DEF DeviceLive
<1>9. QED BY <1>3, <1>8 DEF DeviceInv

LEMMA AddQueueKeeps ==
  ASSUME DeviceInv, NEW n \in Nodes, NEW t \in Types, AddQueue(n, t)
  PROVE  DeviceInv' /\ SharesOnlyThen
<1> DEFINE q == FindQueueFamily(n, t)
           flags == Families[q.family].flags
           e == [node |-> n, type |-> t, family |-> q.family, index |-> q.index,
                 handle |-> q.family - 1]
<1>1. DeviceLive /\ created # <<>>
  BY DEF AddQueue, DeviceInv
<1>2. /\ q.family \in DOMAIN Families /\ q.index \in Nat
      /\ (q.family # 1 /\ "graphics" \notin flags) => HasFree(n, q.family)
      /\ (t # "graphics" /\ "graphics" \in flags) => Dedicated(n, t) = {}
  BY <1>1, FoundHasFree
<1>3. /\ used' = [used EXCEPT ![n][flags] = @ + 1]
      /\ queues' = Append(queues, e) /\ created' = created
  BY DEF AddQueue
<1> HIDE DEF q
<1>4. e \in Entry /\ e.node = n /\ e.type = t /\ e.family = q.family /\ e.index = q.index
  BY <1>2, DeviceAssumption DEF Entry
<1>5. flags \in AllFlags
  BY <1>2 DEF AllFlags
<1> HIDE DEF e, flags
<1>6. /\ queues' \in Seq(Entry) /\ Len(queues') = Len(queues) + 1 /\ Len(queues) \in Nat
      /\ \A k \in 1 .. Len(queues) : queues'[k] = queues[k]
      /\ queues'[Len(queues) + 1] = e
  BY <1>1, <1>3, <1>4, AppendProperties DEF DeviceLive
<1>7. used' \in [Nodes -> [AllFlags -> Nat]]
  BY <1>1, <1>3, <1>5 DEF DeviceLive
<1>8. ASSUME NEW m \in Nodes, NEW g \in AllFlags
      PROVE  /\ used[m][g] \in Nat
             /\ used'[m][g] = IF m = n /\ g = flags THEN used[m][g] + 1 ELSE used[m][g]
             /\ used'[m][g] = Cardinality(Held(queues', m, g))
  <2> DEFINE h == Cardinality(Held(queues, m, g))
  <2>1. h \in Nat /\ used[m][g] = h
    BY <1>1, HeldIsFinite DEF DeviceLive
  <2>2. Cardinality(Held(queues', m, g)) = IF n = m /\ flags = g THEN h + 1 ELSE h
    BY <1>1, <1>3, <1>4, HeldOfAppend DEF DeviceLive, flags
  <2> HIDE DEF h
  <2>3. used'[m][g] = IF m = n /\ g = flags THEN used[m][g] + 1 ELSE used[m][g]
    BY <1>1, <1>3, <1>5 DEF DeviceLive
  <2>4. QED BY <2>1, <2>2, <2>3
<1>9. ASSUME NEW m \in Nodes, NEW i \in DOMAIN Families, Counted(i)
      PROVE  used'[m][Families[i].flags] <= created'[i]
  <2> DEFINE g == Families[i].flags
  <2>1. g \in AllFlags /\ used[m][g] <= created[i] /\ created[i] \in Nat
    BY <1>1, <1>9 DEF AllFlags, DeviceLive
  <2>2. CASE m = n /\ g = flags
    <3>1. q.family = i
      BY <1>2, <1>9, <2>2 DEF Counted, OnlyOneWith, flags
    <3>2. HasFree(n, i)
      BY <1>2, <1>9, <2>2, <3>1 DEF Counted
    <3>3. used[n][g] < created[i] /\ used[n][g] \in Nat
      BY <1>1, <1>9, <3>2, HasFreeIs, AvailableIs DEF Counted
    <3> HIDE DEF g
    <3>4. used'[m][g] = used[n][g] + 1
      BY <1>8, <2>1, <2>2
    <3>5. used'[m][g] <= created'[i]
      BY <1>3, <2>1, <3>3, <3>4
    <3>6. QED BY <3>5 DEF g
  <2>3. CASE ~(m = n /\ g = flags)
    <3>1. used'[m][g] = used[m][g]
      BY <1>8, <2>1, <2>3
    <3>2. QED BY <1>3, <2>1, <3>1
  <2>4. QED BY <2>2, <2>3
<1>10. DeviceInv'
  BY <1>1, <1>3, <1>6, <1>7, <1>8, <1>9 DEF DeviceInv, DeviceLive
<1>11. Last(queues') = e
  BY <1>6 DEF Last
<1>12. ASSUME t # "graphics", "graphics" \in flags, NEW i \in DOMAIN Families,
              t \in Families[i].flags, "graphics" \notin Families[i].flags
       PROVE  LiveOf(n, Families[i].flags) >= Available(Families[i].flags)
  <2>1. ~HasFree(n, i)
    BY <1>2, <1>12 DEF Dedicated
  <2>2. used[n][Families[i].flags] >= Available(Families[i].flags)
    BY <1>1, <2>1, HasFreeIs
  <2>3. used[n][Families[i].flags] = Cardinality(Held(queues, n, Families[i].flags))
    BY <1>1 DEF AllFlags, DeviceLive
  <2>4. LiveOf(n, Families[i].flags) = Cardinality(Held(queues, n, Families[i].flags))
    BY <1>1, LiveOfIsHeld DEF DeviceLive
  <2>5. QED BY <2>2, <2>3, <2>4
<1>13. SharesOnlyThen
  BY <1>4, <1>11, <1>12 DEF SharesOnlyThen, flags
<1>14. QED BY <1>10, <1>13

LEMMA RemoveQueueKeeps ==
  ASSUME DeviceInv, NEW k \in DOMAIN queues, RemoveQueue(k)
  PROVE  DeviceInv' /\ SharesOnlyThen
<1> DEFINE n == queues[k].node
           f == queues[k].family
           flags == Families[f].flags
<1>1. DeviceLive /\ created # <<>>
  BY DEF DeviceInv
<1>2. k \in 1 .. Len(queues) /\ Len(queues) \in Nat /\ queues \in Seq(Entry)
  BY <1>1 DEF DeviceLive
<1>3. n \in Nodes /\ f \in DOMAIN Families
  <2>1. queues[k] \in Entry
    BY <1>2
  <2>2. QED BY <2>1 DEF Entry
<1>4. /\ used' = [used EXCEPT ![n][flags] = @ - 1]
      /\ queues' = RemoveAt(queues, k) /\ created' = created
  BY DEF RemoveQueue
<1>5. flags \in AllFlags
  BY <1>3 DEF AllFlags
<1>6. /\ queues' \in Seq(Entry) /\ Len(queues') = Len(queues) - 1
      /\ \A i \in 1 .. Len(queues) - 1 : queues'[i] = IF i < k THEN queues[i] ELSE queues[i + 1]
  BY <1>2, <1>4, RemoveAtIs
<1>7. used[n][flags] \in Nat \ {0}
  <2>1. k \in Held(queues, n, flags)
    BY <1>2 DEF Held
  <2>2. IsFiniteSet(Held(queues, n, flags)) /\ Cardinality(Held(queues, n, flags)) \in Nat
    BY <1>2, HeldIsFinite
  <2>3. Cardinality(Held(queues, n, flags)) # 0
    BY <2>1, <2>2, FS_EmptySet
  <2>4. used[n][flags] = Cardinality(Held(queues, n, flags))
    BY <1>1, <1>3, <1>5 DEF DeviceLive
  <2>5. QED BY <2>2, <2>3, <2>4
<1> HIDE DEF n, f, flags
<1>8. used' \in [Nodes -> [AllFlags -> Nat]]
  <2>1. used[n][flags] - 1 \in Nat
    BY <1>7
  <2>2. QED BY <1>1, <1>3, <1>4, <1>5, <2>1 DEF DeviceLive
<1>9. ASSUME NEW m \in Nodes, NEW g \in AllFlags
      PROVE  /\ used[m][g] \in Nat
             /\ used'[m][g] = IF m = n /\ g = flags THEN used[m][g] - 1 ELSE used[m][g]
             /\ used'[m][g] = Cardinality(Held(queues', m, g))
  <2> DEFINE h == Cardinality(Held(queues, m, g))
  <2>1. h \in Nat /\ used[m][g] = h
    BY <1>1, HeldIsFinite DEF DeviceLive
  <2>2. Cardinality(Held(queues', m, g)) = IF n = m /\ flags = g THEN h - 1 ELSE h
    BY <1>2, <1>4, HeldOfRemoveAt DEF n, f, flags
  <2> HIDE DEF h
  <2>3. used'[m][g] = IF m = n /\ g = flags THEN used[m][g] - 1 ELSE used[m][g]
    BY <1>1, <1>3, <1>4, <1>5 DEF DeviceLive
  <2>4. QED BY <2>1, <2>2, <2>3
<1>10. ASSUME NEW m \in Nodes, NEW i \in DOMAIN Families, Counted(i)
       PROVE  used'[m][Families[i].flags] <= created'[i]
  <2>1. Families[i].flags \in AllFlags
    BY DEF AllFlags
  <2>2. used[m][Families[i].flags] <= created[i] /\ created[i] \in Nat
    BY <1>1, <1>10 DEF DeviceLive
  <2>3. used'[m][Families[i].flags] <= used[m][Families[i].flags]
        /\ used[m][Families[i].flags] \in Nat /\ used'[m][Families[i].flags] \in Int
    BY <1>9, <2>1
  <2>4. QED BY <1>4, <2>2, <2>3
<1>11. DeviceInv'
  BY <1>1, <1>4, <1>6, <1>8, <1>9, <1>10 DEF DeviceInv, DeviceLive
<1>12. SharesOnlyThen
  BY <1>2, <1>6 DEF SharesOnlyThen
<1>13. QED BY <1>11, <1>12

LEMMA DeviceNextInv ==
  ASSUME DeviceInv, DeviceNext
  PROVE  DeviceInv' /\ SharesOnlyThen
<1>1. CASE \E all \in BOOLEAN : AddDevice(all)
  <2>1. DeviceInv' /\ queues' = queues
    BY <1>1, AddDeviceKeeps DEF AddDevice
  <2>2. queues = <<>>
    BY <1>1 DEF AddDevice, DeviceInv
  <2>3. QED BY <2>1, <2>2 DEF SharesOnlyThen
<1>2. CASE RemoveDevice
  <2>1. created' = <<>> /\ used' = <<>> /\ queues' = queues /\ queues = <<>>
    BY <1>2 DEF RemoveDevice
  <2>2. QED BY <2>1 DEF DeviceInv, SharesOnlyThen
<1>3. CASE \E n \in Nodes, t \in Types : AddQueue(n, t)
  BY <1>3, AddQueueKeeps
<1>4. CASE \E k \in DOMAIN queues : RemoveQueue(k)
  BY <1>4, RemoveQueueKeeps
<1>5. QED BY <1>1, <1>2, <1>3, <1>4 DEF DeviceNext

(***************************************************************************)
(* vk_add_queue and vk_remove_queue, for all families whatever flags they  *)
(* share, any number of GPUs and of queues: no more queues of a family     *)
(* that has flags of its own, does not draw and is not the first live than *)
(* it was created with, and queues share a family that draws only when     *)
(* all that was counted of the other families was given out.               *)
(***************************************************************************)
THEOREM QueuesAreWithinTheirFamily == DeviceSpec => QueuesAreCounted
<1>1. DeviceInit => DeviceInv
  BY DEF DeviceInit, DeviceInv
<1>2. DeviceInv /\ UNCHANGED deviceVars => DeviceInv'
  BY DEF DeviceInv, DeviceLive, deviceVars, Held
<1>3. DeviceInv => NoneTooMany
  <2>1. SUFFICES ASSUME DeviceLive, NEW n \in Nodes, NEW i \in DOMAIN Families, Counted(i)
                 PROVE  LiveOf(n, Families[i].flags) <= created[i]
    BY DEF DeviceInv, NoneTooMany, Counted
  <2>2. used[n][Families[i].flags] = Cardinality(Held(queues, n, Families[i].flags))
    BY <2>1 DEF AllFlags, DeviceLive
  <2>3. LiveOf(n, Families[i].flags) = Cardinality(Held(queues, n, Families[i].flags))
    BY <2>1, LiveOfIsHeld DEF DeviceLive
  <2>4. used[n][Families[i].flags] <= created[i]
    BY <2>1 DEF DeviceLive
  <2>5. QED BY <2>2, <2>3, <2>4
<1>4. DeviceInv /\ [DeviceNext]_deviceVars => DeviceInv'
  BY <1>2, DeviceNextInv
<1>5. DeviceInv /\ [DeviceNext]_deviceVars => [SharesOnlyThen]_deviceVars
  BY DeviceNextInv
<1>6. QED BY <1>1, <1>3, <1>4, <1>5, PTL DEF DeviceSpec, QueuesAreCounted

(* The choice of a GPU *****************************************************)

\* The first n steps of a search have an outcome.
LEMMA BestExists ==
  ASSUME NEW list, NEW n \in Nat
  PROVE  \E f : f = [i \in 0 .. n |-> IF i = 0 THEN NoGpu ELSE Chosen(list, i, f[i - 1])]
<1> DEFINE Go(f, i) == IF i = 0 THEN NoGpu ELSE Chosen(list, i, f[i - 1])
           T == {m \in Nat : ~ \E f : f = [i \in 0 .. m |-> Go(f, i)]}
<1>1. SUFFICES ASSUME T # {} PROVE FALSE
  OBVIOUS
<1>2. PICK m \in T : \A k \in T : m <= k
  BY <1>1, LeastNumber
<1>3. m \in Nat /\ ~ \E f : f = [i \in 0 .. m |-> Go(f, i)]
  OBVIOUS
<1>4. CASE m = 0
  <2> DEFINE f == [i \in 0 .. 0 |-> NoGpu]
  <2>1. f = [i \in 0 .. 0 |-> Go(f, i)]
    OBVIOUS
  <2>2. QED BY <1>3, <1>4, <2>1
<1>5. CASE m # 0
  <2>1. m - 1 \in Nat /\ m - 1 \notin T
    <3> HIDE DEF T
    <3>1. m - 1 \in Nat /\ ~(m <= m - 1)
      BY <1>3, <1>5
    <3>2. QED BY <1>2, <3>1
  <2>2. PICK g : g = [i \in 0 .. m - 1 |-> Go(g, i)]
    BY <2>1
  <2> DEFINE f == [i \in 0 .. m |-> Go(g, i)]
  <2>3. ASSUME NEW i \in 0 .. m PROVE Go(g, i) = Go(f, i)
    <3>1. CASE i = 0
      BY <3>1
    <3>2. CASE i # 0
      <4>1. i - 1 \in 0 .. m - 1 /\ i - 1 \in 0 .. m
        BY <1>3, <3>2
      <4>2. g[i - 1] = Go(g, i - 1)
        BY <2>2, <4>1
      <4>3. f[i - 1] = Go(g, i - 1)
        BY <4>1
      <4> HIDE DEF f
      <4>4. QED BY <3>2, <4>2, <4>3
    <3>3. QED BY <3>1, <3>2
  <2>4. f = [i \in 0 .. m |-> Go(f, i)]
    BY <2>3
  <2> HIDE DEF f
  <2>5. QED BY <1>3, <2>4
<1>6. QED BY <1>4, <1>5

\* The order that is left of the comparison of two GPUs.
AtLeast(a, g) ==
  /\ g.preset <= a.preset
  /\ g.preset = a.preset => (g.kind = "discrete" => a.kind = "discrete")
  /\ (g.preset = a.preset /\ (g.kind = "discrete" <=> a.kind = "discrete") /\ g.model = a.model)
       => g.vram <= a.vram

LEMMA BetterIsAtLeast ==
  ASSUME NEW c, NEW b, NEW g, c.preset \in Nat, b.preset \in Nat, g.preset \in Nat,
         c.vram \in Nat, b.vram \in Nat, g.vram \in Nat
  PROVE  /\ AtLeast(c, c)
         /\ AtLeast(b, g) /\ Better(c, b) => AtLeast(c, g)
         /\ ~Better(c, b) => AtLeast(b, c)
<1> DEFINE cd == c.kind = "discrete"
           bd == b.kind = "discrete"
           gd == g.kind = "discrete"
<1>1. Better(c, b) <=> IF c.preset # b.preset THEN c.preset > b.preset
                       ELSE IF ~(cd <=> bd) THEN cd
                       ELSE c.model = b.model /\ c.vram >= b.vram
  BY DEF Better
<1>2. AtLeast(c, c)
  BY DEF AtLeast
<1>3. AtLeast(b, g) <=> /\ g.preset <= b.preset
                        /\ g.preset = b.preset => (gd => bd)
                        /\ (g.preset = b.preset /\ (gd <=> bd) /\ g.model = b.model) => g.vram <= b.vram
  BY DEF AtLeast
<1>4. AtLeast(c, g) <=> /\ g.preset <= c.preset
                        /\ g.preset = c.preset => (gd => cd)
                        /\ (g.preset = c.preset /\ (gd <=> cd) /\ g.model = c.model) => g.vram <= c.vram
  BY DEF AtLeast
<1>5. AtLeast(b, c) <=> /\ c.preset <= b.preset
                        /\ c.preset = b.preset => (cd => bd)
                        /\ (c.preset = b.preset /\ (cd <=> bd) /\ c.model = b.model) => c.vram <= b.vram
  BY DEF AtLeast
<1> HIDE DEF cd, bd, gd
<1>6. AtLeast(b, g) /\ Better(c, b) => AtLeast(c, g)
  BY <1>1, <1>3, <1>4
<1>7. ~Better(c, b) => AtLeast(b, c)
  BY <1>1, <1>5
<1>8. QED BY <1>2, <1>6, <1>7

\* After the first i: the best is one that can draw, and no other is above it.
BestOfFirst(list, i, b) ==
  \/ b = NoGpu /\ \A j \in 1 .. i : ~Usable(list[j])
  \/ /\ b \in 1 .. i /\ Usable(list[b])
     /\ \A j \in 1 .. i : Usable(list[j]) => AtLeast(list[b], list[j])

LEMMA ChosenIsBest ==
  ASSUME NEW list, NEW i \in Nat \ {0}, NEW b, BestOfFirst(list, i - 1, b), NoGpu \notin Nat,
         \A j \in 1 .. i : list[j].preset \in Nat /\ list[j].vram \in Nat
  PROVE  BestOfFirst(list, i, Chosen(list, i, b))
<1>1. CASE ~Usable(list[i])
  <2>1. Chosen(list, i, b) = b
    BY <1>1 DEF Chosen
  <2>2. 1 .. i = (1 .. i - 1) \cup {i}
    OBVIOUS
  <2>3. QED BY <1>1, <2>1, <2>2 DEF BestOfFirst
<1>2. CASE Usable(list[i]) /\ b = NoGpu
  <2>1. Chosen(list, i, b) = i
    BY <1>2 DEF Chosen
  <2>2. AtLeast(list[i], list[i])
    BY BetterIsAtLeast
  <2>3. \A j \in 1 .. i - 1 : ~Usable(list[j])
    BY <1>2 DEF BestOfFirst
  <2>4. QED BY <1>2, <2>1, <2>2, <2>3 DEF BestOfFirst
<1>3. CASE Usable(list[i]) /\ b # NoGpu
  <2>1. /\ b \in 1 .. i - 1 /\ Usable(list[b])
        /\ \A j \in 1 .. i - 1 : Usable(list[j]) => AtLeast(list[b], list[j])
    BY <1>3 DEF BestOfFirst
  <2>2. b \in 1 .. i /\ i \in 1 .. i
    BY <2>1
  <2>3. CASE Better(list[i], list[b])
    <3>1. Chosen(list, i, b) = i
      BY <1>3, <2>3 DEF Chosen
    <3>2. ASSUME NEW j \in 1 .. i, Usable(list[j]) PROVE AtLeast(list[i], list[j])
      <4>1. CASE j = i
        BY <2>2, <4>1, BetterIsAtLeast
      <4>2. CASE j \in 1 .. i - 1
        <5>1. AtLeast(list[b], list[j])
          BY <2>1, <3>2, <4>2
        <5>2. QED BY <2>2, <2>3, <5>1, BetterIsAtLeast
      <4>3. QED BY <4>1, <4>2
    <3>3. QED BY <1>3, <2>2, <3>1, <3>2 DEF BestOfFirst
  <2>4. CASE ~Better(list[i], list[b])
    <3>1. Chosen(list, i, b) = b
      BY <1>3, <2>4 DEF Chosen
    <3>2. AtLeast(list[b], list[i])
      BY <2>2, <2>4, BetterIsAtLeast
    <3>3. \A j \in 1 .. i : j = i \/ j \in 1 .. i - 1
      OBVIOUS
    <3>4. QED BY <2>1, <2>2, <3>1, <3>2, <3>3 DEF BestOfFirst
  <2>5. QED BY <2>3, <2>4
<1>4. QED BY <1>1, <1>2, <1>3

\* _select_best_gpu finds the best GPU of every machine.
LEMMA BestIsBest ==
  ASSUME NEW list, IsList(list), \A j \in DOMAIN list : list[j].preset \in Nat /\ list[j].vram \in Nat
  PROVE  BestOfFirst(list, Len(list), Best(list))
<1> DEFINE n == Len(list)
           Go(f, i) == IF i = 0 THEN NoGpu ELSE Chosen(list, i, f[i - 1])
           best == CHOOSE f : f = [i \in 0 .. n |-> Go(f, i)]
<1>1. n \in Nat /\ \A j \in 1 .. n : list[j].preset \in Nat /\ list[j].vram \in Nat
  BY DEF IsList
<1>2. Best(list) = best[n]
  BY DEF Best
<1> HIDE DEF n
<1>3. best = [i \in 0 .. n |-> Go(best, i)]
  <2>1. \E f : f = [i \in 0 .. n |-> Go(f, i)]
    BY <1>1, BestExists
  <2> HIDE DEF Go
  <2>2. QED BY <2>1
<1> HIDE DEF best
<1>4. ASSUME NEW i \in 0 .. n PROVE BestOfFirst(list, i, best[i])
  <2> DEFINE T == {k \in 0 .. n : ~BestOfFirst(list, k, best[k])}
  <2>1. SUFFICES ASSUME T # {} PROVE FALSE
    OBVIOUS
  <2>2. PICK m \in T : \A k \in T : m <= k
    <3>1. T \subseteq Nat
      BY <1>1
    <3>2. QED BY <2>1, <3>1, LeastNumber
  <2>3. m \in 0 .. n /\ ~BestOfFirst(list, m, best[m])
    OBVIOUS
  <2>4. CASE m = 0
    <3>1. best[m] = NoGpu
      BY <1>3, <2>3, <2>4
    <3>2. QED BY <2>3, <2>4, <3>1 DEF BestOfFirst
  <2>5. CASE m # 0
    <3>1. m - 1 \in 0 .. n /\ m \in Nat \ {0} /\ ~(m <= m - 1)
      BY <1>1, <2>3, <2>5
    <3>2. BestOfFirst(list, m - 1, best[m - 1])
      BY <2>2, <3>1
    <3>3. best[m] = Chosen(list, m, best[m - 1])
      BY <1>3, <2>3, <2>5
    <3>4. \A j \in 1 .. m : list[j].preset \in Nat /\ list[j].vram \in Nat
      BY <1>1, <2>3
    <3>5. QED BY <2>3, <3>1, <3>2, <3>3, <3>4, ChosenIsBest, GpuAssumption
  <2>6. QED BY <2>4, <2>5
<1>5. BestOfFirst(list, n, best[n])
  BY <1>1, <1>4
<1>6. QED BY <1>2, <1>5 DEF n

LEMMA SeenExists ==
  ASSUME NEW listed, NEW n \in Nat
  PROVE  \E f : f = [i \in 0 .. n |-> IF i = 0 THEN [on |-> {}, raytracing |-> FALSE]
                                      ELSE Seen(f[i - 1], listed[i])]
<1> DEFINE none == [on |-> {}, raytracing |-> FALSE]
           Go(f, i) == IF i = 0 THEN none ELSE Seen(f[i - 1], listed[i])
           T == {m \in Nat : ~ \E f : f = [i \in 0 .. m |-> Go(f, i)]}
<1> HIDE DEF none
<1>1. SUFFICES ASSUME T # {} PROVE FALSE
  BY DEF none
<1>2. PICK m \in T : \A k \in T : m <= k
  BY <1>1, LeastNumber
<1>3. m \in Nat /\ ~ \E f : f = [i \in 0 .. m |-> Go(f, i)]
  OBVIOUS
<1>4. CASE m = 0
  <2> DEFINE f == [i \in 0 .. 0 |-> none]
  <2>1. f = [i \in 0 .. 0 |-> Go(f, i)]
    OBVIOUS
  <2>2. QED BY <1>3, <1>4, <2>1
<1>5. CASE m # 0
  <2>1. m - 1 \in Nat /\ m - 1 \notin T
    <3> HIDE DEF T
    <3>1. m - 1 \in Nat /\ ~(m <= m - 1)
      BY <1>3, <1>5
    <3>2. QED BY <1>2, <3>1
  <2>2. PICK g : g = [i \in 0 .. m - 1 |-> Go(g, i)]
    BY <2>1
  <2> DEFINE f == [i \in 0 .. m |-> Go(g, i)]
  <2>3. ASSUME NEW i \in 0 .. m PROVE Go(g, i) = Go(f, i)
    <3>1. CASE i = 0
      BY <3>1
    <3>2. CASE i # 0
      <4>1. i - 1 \in 0 .. m - 1 /\ i - 1 \in 0 .. m
        BY <1>3, <3>2
      <4>2. g[i - 1] = Go(g, i - 1)
        BY <2>2, <4>1
      <4>3. f[i - 1] = Go(g, i - 1)
        BY <4>1
      <4> HIDE DEF f
      <4>4. QED BY <3>2, <4>2, <4>3
    <3>3. QED BY <3>1, <3>2
  <2>4. f = [i \in 0 .. m |-> Go(f, i)]
    BY <2>3
  <2> HIDE DEF f
  <2>5. QED BY <1>3, <2>4
<1>6. QED BY <1>4, <1>5

\* What the first i names of a list come to.
There(listed, i) == {listed[j] : j \in 1 .. i}
SeenOfFirst(listed, i, s) ==
  /\ s.on = There(listed, i) \cap WantedExtensions
  /\ s.raytracing = (RayTracing \subseteq There(listed, i) /\ There(listed, i) \cap WantedExtensions # {})

LEMMA SeenIsAll ==
  ASSUME NEW listed, NEW i \in Nat \ {0}, NEW s, SeenOfFirst(listed, i - 1, s)
  PROVE  SeenOfFirst(listed, i, Seen(s, listed[i]))
<1> DEFINE e == listed[i]
           th == There(listed, i - 1)
           new == There(listed, i)
<1>1. new = th \cup {e}
  <2>1. 1 .. i = (1 .. i - 1) \cup {i}
    OBVIOUS
  <2>2. QED BY <2>1 DEF There
<1>2. s.on = th \cap WantedExtensions /\ s.raytracing = (RayTracing \subseteq th /\ th \cap WantedExtensions # {})
  BY DEF SeenOfFirst
<1> HIDE DEF th, new, e
<1>3. RayTracing \subseteq WantedExtensions
  BY GpuAssumption
<1>4. CASE e \notin WantedExtensions
  <2>1. Seen(s, e) = s
    BY <1>4 DEF Seen
  <2>2. new \cap WantedExtensions = th \cap WantedExtensions /\ (RayTracing \subseteq new <=> RayTracing \subseteq th)
    BY <1>1, <1>3, <1>4
  <2>3. QED BY <1>2, <2>1, <2>2 DEF SeenOfFirst, new, e
<1>5. CASE e \in WantedExtensions
  <2> DEFINE r == s.raytracing \/ RayTracing \subseteq s.on \cup {e}
  <2>1. Seen(s, e).on = s.on \cup {e} /\ Seen(s, e).raytracing = r
    BY <1>5 DEF Seen
  <2>2. s.on \cup {e} = new \cap WantedExtensions
    BY <1>1, <1>2, <1>5
  <2>3. new \cap WantedExtensions # {}
    BY <1>1, <1>5
  <2>4. r <=> RayTracing \subseteq new
    <3>1. s.raytracing => RayTracing \subseteq new
      BY <1>1, <1>2
    <3>2. RayTracing \subseteq s.on \cup {e} <=> RayTracing \subseteq new
      BY <1>3, <2>2
    <3>3. QED BY <3>1, <3>2
  <2> HIDE DEF r
  <2>5. r = (RayTracing \subseteq new /\ new \cap WantedExtensions # {})
    <3>1. r \in BOOLEAN
      BY DEF r
    <3>2. QED BY <2>3, <2>4, <3>1
  <2>6. QED BY <2>1, <2>2, <2>5 DEF SeenOfFirst, new, e
<1>6. QED BY <1>4, <1>5

\* add_device turns on what is wanted and there.
LEMMA ExtensionsAreSeen ==
  ASSUME NEW listed, IsList(listed)
  PROVE  SeenOfFirst(listed, Len(listed), Extensions(listed))
<1> DEFINE n == Len(listed)
           none == [on |-> {}, raytracing |-> FALSE]
           Go(f, i) == IF i = 0 THEN none ELSE Seen(f[i - 1], listed[i])
           seen == CHOOSE f : f = [i \in 0 .. n |-> Go(f, i)]
<1>1. n \in Nat
  BY DEF IsList
<1>2. Extensions(listed) = seen[n]
  BY DEF Extensions
<1> HIDE DEF n
<1>3. seen = [i \in 0 .. n |-> Go(seen, i)]
  <2>1. \E f : f = [i \in 0 .. n |-> Go(f, i)]
    BY <1>1, SeenExists
  <2> HIDE DEF Go
  <2>2. QED BY <2>1
<1> HIDE DEF seen
<1>4. ASSUME NEW i \in 0 .. n PROVE SeenOfFirst(listed, i, seen[i])
  <2> DEFINE T == {k \in 0 .. n : ~SeenOfFirst(listed, k, seen[k])}
  <2>1. SUFFICES ASSUME T # {} PROVE FALSE
    OBVIOUS
  <2>2. PICK m \in T : \A k \in T : m <= k
    <3>1. T \subseteq Nat
      BY <1>1
    <3>2. QED BY <2>1, <3>1, LeastNumber
  <2>3. m \in 0 .. n /\ ~SeenOfFirst(listed, m, seen[m])
    OBVIOUS
  <2>4. CASE m = 0
    <3>1. seen[m] = none
      BY <1>3, <2>3, <2>4
    <3>2. There(listed, 0) = {}
      BY DEF There
    <3>3. none.on = {} /\ none.raytracing = FALSE
      OBVIOUS
    <3>4. SeenOfFirst(listed, 0, none)
      BY <3>2, <3>3 DEF SeenOfFirst
    <3>5. QED BY <2>3, <2>4, <3>1, <3>4
  <2>5. CASE m # 0
    <3>1. m - 1 \in 0 .. n /\ m \in Nat \ {0} /\ ~(m <= m - 1)
      BY <1>1, <2>3, <2>5
    <3>2. SeenOfFirst(listed, m - 1, seen[m - 1])
      BY <2>2, <3>1
    <3>3. seen[m] = Seen(seen[m - 1], listed[m])
      BY <1>3, <2>3, <2>5
    <3>4. QED BY <2>3, <3>1, <3>2, <3>3, SeenIsAll
  <2>6. QED BY <2>4, <2>5
<1>5. SeenOfFirst(listed, n, seen[n])
  BY <1>1, <1>4
<1>6. QED BY <1>2, <1>5 DEF n

\* The device that is active is the one that was selected, with its extensions.
SelectInv ==
  /\ gpus \in Machines
  /\ active # NoGpu => active = Best(gpus) /\ exts = Extensions(gpus[active].extensions)

LEMMA SelectedIsBest ==
  ASSUME SelectInv
  PROVE  BestGpu
<1>1. SUFFICES ASSUME active # NoGpu PROVE NoneIsBetter /\ ExtensionsAreAll
  BY DEF BestGpu, NoneIsBetter, ExtensionsAreAll
<1> DEFINE n == Len(gpus)
           a == gpus[active]
           listed == a.extensions
<1>2. /\ n \in Nat /\ DOMAIN gpus = 1 .. n /\ IsList(gpus)
      /\ \A i \in DOMAIN gpus : gpus[i].preset \in Nat /\ gpus[i].vram \in Nat
                                /\ IsList(gpus[i].extensions)
  BY GpuAssumption DEF SelectInv, IsList
<1>3. BestOfFirst(gpus, n, active)
  BY <1>1, <1>2, BestIsBest DEF SelectInv
<1>4. /\ active \in 1 .. n /\ Usable(a)
      /\ \A j \in 1 .. n : Usable(gpus[j]) => AtLeast(a, gpus[j])
  BY <1>1, <1>3 DEF BestOfFirst
<1>5. SeenOfFirst(listed, Len(listed), exts) /\ DOMAIN listed = 1 .. Len(listed)
  BY <1>1, <1>2, <1>4, ExtensionsAreSeen DEF SelectInv, IsList
<1> HIDE DEF n, a
<1>6. ASSUME NEW i \in DOMAIN gpus, Usable(gpus[i])
      PROVE  /\ gpus[i].preset <= a.preset
             /\ gpus[i].preset = a.preset => (gpus[i].kind = "discrete" => a.kind = "discrete")
             /\ (gpus[i].preset = a.preset /\ gpus[i].kind = a.kind /\ gpus[i].model = a.model)
                  => gpus[i].vram <= a.vram
  <2>1. AtLeast(a, gpus[i])
    BY <1>2, <1>4, <1>6
  <2>2. QED BY <2>1 DEF AtLeast
<1>7. NoneIsBetter
  BY <1>4, <1>6 DEF NoneIsBetter, a
<1>8. There(listed, Len(listed)) = {listed[i] : i \in DOMAIN listed}
  BY <1>5 DEF There
<1>9. ExtensionsAreAll
  BY <1>5, <1>8, Zenon DEF ExtensionsAreAll, SeenOfFirst, a
<1>10. QED BY <1>7, <1>9

(***************************************************************************)
(* _select_best_gpu and add_device, for every machine: in whatever order   *)
(* the GPUs and their extensions are listed, no GPU that can draw is above *)
(* the one that is used, and all wanted extensions that it has are on.     *)
(***************************************************************************)
THEOREM TheBestGpuIsUsed == SelectSpec => []BestGpu
<1>1. SelectInit => SelectInv
  BY DEF SelectInit, SelectInv
<1>2. SelectInv /\ [SelectNext]_selectVars => SelectInv'
  <2>1. SUFFICES ASSUME SelectInv, [SelectNext]_selectVars PROVE SelectInv'
    OBVIOUS
  <2>2. CASE SelectGpu
    BY <2>1, <2>2 DEF SelectGpu, SelectInv
  <2>3. CASE RemoveGpu
    BY <2>1, <2>3 DEF RemoveGpu, SelectInv
  <2>4. CASE UNCHANGED selectVars
    BY <2>1, <2>4 DEF selectVars, SelectInv
  <2>5. QED BY <2>1, <2>2, <2>3, <2>4 DEF SelectNext
<1>3. SelectInv => BestGpu
  BY SelectedIsBest
<1>4. QED BY <1>1, <1>2, <1>3, PTL DEF SelectSpec
=============================================================================
