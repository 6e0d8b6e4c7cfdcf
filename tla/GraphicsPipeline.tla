-------------------------- MODULE GraphicsPipeline --------------------------
(* add_graphicspipeline: the vertex layout is turned into bindings and        *)
(* attributes, and pipelines are made against a temporary render pass.  The   *)
(* loop over the five stages closes at the end of the function, so each turn  *)
(* makes a pipeline of the stages found so far and destroys the render pass.  *)
EXTENDS Naturals, Sequences, FiniteSets, SequencesExt, Folds

CONSTANTS
  Layouts,       \* vertex layouts, sequences of [binding, rate, size, location]
  StageSets,     \* stages of the shaders
  MaxAttributes, \* MAX_VERTEX_ATTRIBS
  None

VARIABLES
  desc,      \* what is asked for: [layout, stages]; None before the call
  turn,      \* i of the loop
  stages,    \* stages collected so far
  pass,      \* "none", "live" or "destroyed": the temporary render pass
  input,     \* [bindings, attributes] of the last pipeline
  pipelines, \* driver: pipelines made, with their stages and the state of the pass
  failed     \* an assertion failed

vars == <<desc, turn, stages, pass, input, pipelines, failed>>
-----------------------------------------------------------------------------
(* The vertex input state.                                                   *)

Size(attribute) == attribute.size

\* mutant: a binding counts the sizes of the attributes before this one only.
DescribeLate(sofar, attribute) ==
  LET known == sofar.bindings # <<>> /\ Last(sofar.bindings).binding = attribute.binding
      entry == IF known THEN Last(sofar.bindings)
               ELSE [binding |-> attribute.binding, rate |-> attribute.rate, stride |-> 0]
      now == [entry EXCEPT !.rate = attribute.rate, !.stride = IF known THEN @ + Size(attribute) ELSE @]
  IN  [bindings |-> Append(IF known THEN Front(sofar.bindings) ELSE sofar.bindings, now),
       attributes |-> Append(sofar.attributes, attribute)]

\* One turn of the loop over the attributes: a binding that differs from the
\* one before opens an entry; the rate is that of the last attribute.
Describe(sofar, attribute) ==
  LET known == sofar.bindings # <<>> /\ Last(sofar.bindings).binding = attribute.binding
      entry == IF known THEN Last(sofar.bindings)
               ELSE [binding |-> attribute.binding, rate |-> attribute.rate, stride |-> 0]
      now == [entry EXCEPT !.rate = attribute.rate, !.stride = @ + Size(attribute)]
  IN  [bindings |-> Append(IF known THEN Front(sofar.bindings) ELSE sofar.bindings, now),
       attributes |-> Append(sofar.attributes, attribute)]

VertexInput(layout) ==
  FoldLeft(Describe, [bindings |-> <<>>, attributes |-> <<>>],
           SubSeq(layout, 1, IF Len(layout) > MaxAttributes THEN MaxAttributes ELSE Len(layout)))
-----------------------------------------------------------------------------
Order == <<"vert", "tesc", "tese", "geom", "frag">>

Init ==
  /\ desc = None /\ turn = 0 /\ stages = <<>> /\ pass = "none"
  /\ input = None /\ pipelines = <<>> /\ failed = FALSE

\* Up to the loop: the render pass is made of the formats asked for.
AddGraphicsPipeline(layout, set) ==
  /\ desc = None
  /\ desc' = [layout |-> layout, stages |-> set]
  /\ turn' = 1 /\ pass' = "live"
  /\ UNCHANGED <<stages, input, pipelines, failed>>

\* One turn: a stage of the shader is added; no stage yet is an assertion; the
\* pipeline replaces the handle of the one before; the pass is destroyed.
Turn ==
  /\ turn \in DOMAIN Order /\ ~failed
  /\ LET found == IF Order[turn] \in desc.stages THEN Append(stages, Order[turn]) ELSE stages IN
     IF found = <<>>
     THEN failed' = TRUE /\ UNCHANGED <<desc, turn, stages, pass, input, pipelines>>
     ELSE /\ stages' = found
          /\ input' = VertexInput(desc.layout)
          /\ pipelines' = Append(pipelines, [stages |-> found, pass |-> pass])
          /\ pass' = "destroyed" /\ turn' = turn + 1
          /\ UNCHANGED <<desc, failed>>

Next ==
  \/ \E layout \in Layouts, set \in StageSets : AddGraphicsPipeline(layout, set)
  \/ Turn
Spec == Init /\ [][Next]_vars
-----------------------------------------------------------------------------
(* Properties.                                                               *)

\* The vertex input state, computed by a running pointer to the last binding,
\* describes the layout when its attributes are grouped by binding: each
\* binding once, with the sum of the sizes of its attributes, and each
\* attribute in a binding that is described.
LayoutIsDescribed ==
  (input # None /\ Len(desc.layout) <= MaxAttributes) =>
    LET of(b) == {i \in DOMAIN desc.layout : desc.layout[i].binding = b}
        grouped == \A i, j, k \in DOMAIN desc.layout :
                     (i < j /\ j < k /\ desc.layout[i].binding = desc.layout[k].binding) =>
                       desc.layout[j].binding = desc.layout[i].binding
    IN  grouped =>
          /\ \A b \in {desc.layout[i].binding : i \in DOMAIN desc.layout} :
               Cardinality({k \in DOMAIN input.bindings : input.bindings[k].binding = b}) = 1
          /\ \A k \in DOMAIN input.bindings :
               input.bindings[k].stride =
                 FoldLeft(LAMBDA n, a : n + Size(a), 0,
                          SelectSeq(desc.layout, LAMBDA a : a.binding = input.bindings[k].binding))
          /\ input.attributes = desc.layout

\* "Create tempporary renderpass for pipeline creation": a pipeline is made
\* while this render pass exists.
TemporaryPassIsLive == \A k \in DOMAIN pipelines : pipelines[k].pass = "live"
=============================================================================
