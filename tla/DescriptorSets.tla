--------------------------- MODULE DescriptorSets ---------------------------
(* Binding descriptor sets: vk_cmd_binddescset binds a set and, for a new     *)
(* pipeline layout, the empty ones too; vk_cmd_binddescsetwithrootcbvs        *)
(* rewrites the dynamic buffers of a set if they changed since the last time. *)
EXTENDS Naturals, Sequences

CONSTANTS
  Sigs,       \* root signatures
  Layout,     \* what each has at each set: "none", "empty", "static", "filled"
  DynamicSet, \* the filled set of each signature that has dynamic buffers, or None
  Indices,    \* sets of one descriptor set object (maxsets)
  Buffers,    \* buffers bound as root constant buffers
  MaxBinds,   \* bound: binds with root constant buffers in one command buffer
  None

Sets == 0 .. 3

VARIABLES
  bound,       \* driver: the signature each set number is bound for, or None
  layout,      \* boundpipelinelayout of the command buffer
  uniform,     \* driver: dynamic buffer of each index, [buffer, size] or None
  cache,       \* dynamicuniformdata of each index
  recorded,    \* binds in the command buffer: index and what was asked
  astray       \* a set of another layout was bound since layout was set

vars == <<bound, layout, uniform, cache, recorded, astray>>
-----------------------------------------------------------------------------
(* Recording.                                                                *)

Init ==
  /\ bound = [s \in Sets |-> None] /\ layout = None
  /\ uniform = [i \in Indices |-> None] /\ cache = [i \in Indices |-> None]
  /\ recorded = <<>> /\ astray = FALSE

Begin == bound' = [s \in Sets |-> None] /\ layout' = None /\ astray' = FALSE

\* vk_reset_cmdpool and vk_cmd_begin, after the work was submitted and done.
BeginCmd ==
  /\ Begin /\ recorded' = <<>>
  /\ UNCHANGED <<uniform, cache>>

\* External: binding a set for a layout keeps what is bound for this layout.
DriverBind(b, sig, s) == [t \in Sets |-> IF t = s THEN sig ELSE IF b[t] = sig THEN sig ELSE None]

EmptySets(sig) == {s \in Sets : Layout[sig][s] \in {"empty", "static"}}

\* mutant: the empty sets are bound once for all layouts.
WithEmptySetsOnce(sig, b) ==
  IF layout # None THEN b
  ELSE [t \in Sets |-> IF t \in EmptySets(sig) THEN sig ELSE IF b[t] = sig THEN sig ELSE None]

\* A new layout: its empty sets are bound one after the other.
WithEmptySets(sig, b) ==
  IF layout = sig \/ EmptySets(sig) = {} THEN b
  ELSE [t \in Sets |-> IF t \in EmptySets(sig) THEN sig ELSE IF b[t] = sig THEN sig ELSE None]

BindDescSet(sig, s) ==
  /\ Layout[sig][s] = "filled"
  /\ bound' = DriverBind(WithEmptySets(sig, bound), sig, s)
  /\ layout' = sig
  /\ astray' = (astray /\ layout = sig)
  /\ UNCHANGED <<uniform, cache, recorded>>

\* mutant: only the buffer is compared.
ChangedBuffer(index, b, size) == cache[index] = None \/ cache[index].buffer # b

Changed(index, b, size) == cache[index] # [buffer |-> b, size |-> size]

\* Nothing keeps a set from being rewritten while a command that reads it is
\* recorded.  The empty sets are not bound here, and layout stays as it is.
BindWithRootCbvs(sig, index, b, offset, size) ==
  /\ DynamicSet[sig] # None /\ Len(recorded) < MaxBinds
  /\ IF Changed(index, b, size)
     THEN /\ cache' = [cache EXCEPT ![index] = [buffer |-> b, size |-> size]]
          /\ uniform' = [uniform EXCEPT ![index] = [buffer |-> b, size |-> size]]
     ELSE UNCHANGED <<cache, uniform>>
  /\ bound' = DriverBind(bound, sig, DynamicSet[sig])
  /\ recorded' = Append(recorded, [index |-> index, buffer |-> b, size |-> size, offset |-> offset])
  /\ astray' = (astray \/ (layout # None /\ layout # sig))
  /\ UNCHANGED <<layout>>

Next ==
  \/ BeginCmd
  \/ \E g \in Sigs, s \in Sets : BindDescSet(g, s)
  \/ \E g \in Sigs, i \in Indices, b \in Buffers, o \in {0, 1}, z \in {1, 2} :
       BindWithRootCbvs(g, i, b, o, z)
Spec == Init /\ [][Next]_vars
-----------------------------------------------------------------------------
(* Properties.                                                               *)

\* "Vulkan requires to bind all descriptor sets upto the highest set number
\* even if they are empty" (vk_cmd_binddescset): when all sets that the
\* application fills are bound for the layout at hand, so are all others; that
\* is, unless a set with root constant buffers of another layout came after the
\* layout was set, as the empty sets are then not bound again.
NoSetIsMissing ==
  (layout # None /\ ~astray /\ \A s \in Sets : Layout[layout][s] = "filled" => bound[s] = layout) =>
    \A s \in EmptySets(layout) : bound[s] = layout

\* No later bind of the command buffer gave the index another buffer or size.
LastOfIndex(i) ==
  \A j \in i + 1 .. Len(recorded) : recorded[j].index = recorded[i].index =>
    recorded[j].buffer = recorded[i].buffer /\ recorded[j].size = recorded[i].size

\* dynamicuniformdata: each recorded bind reads the buffer and the size it
\* named when the commands run, though most binds rewrite nothing, in whatever
\* order indices, buffers and sizes change; that is, unless a later bind of the
\* command buffer rewrites the same set with something else.
RootBuffersAsAsked ==
  \A i \in DOMAIN recorded : LastOfIndex(i) =>
    uniform[recorded[i].index] = [buffer |-> recorded[i].buffer, size |-> recorded[i].size]
=============================================================================
