------------------------------- MODULE Device -------------------------------
(* The queues of a device: how many it is created with, and how they are      *)
(* handed out of its families (add_device, vk_add_queue, vk_remove_queue).    *)
EXTENDS Naturals, Sequences, FiniteSets, SequencesExt

CONSTANTS
  Families,   \* queue families of the GPU, [flags, count]
  Types,      \* queue types to ask for; a type is also the flag it requires
  Nodes,      \* linked GPUs
  MaxCount,   \* MAX_QUEUE_COUNT
  MaxLive     \* bound: queues at a time

\* Several families may have the same flags.
ASSUME DeviceAssumption ==
  /\ MaxCount \in Nat \ {0}
  /\ Len(Families) \in Nat \ {0} /\ DOMAIN Families = 1 .. Len(Families)
  /\ \A i \in DOMAIN Families : Families[i].count \in Nat \ {0}

VARIABLES
  created, \* driver: queues created in each family; empty without a device
  used,    \* usedqueues by node and flags of a family
  queues   \* live queues, in the order they were added

deviceVars == <<created, used, queues>>
-----------------------------------------------------------------------------
(* add_device.                                                               *)

\* One queue of each family, or all of them up to a limit.
CreateQueues(families, all) ==
  [i \in DOMAIN families |->
     CASE families[i].count > MaxCount /\ all -> MaxCount
       [] families[i].count > 1 /\ ~all -> 1
       [] OTHER -> families[i].count]

AllFlags == {Families[i].flags : i \in DOMAIN Families}

\* availablequeues by the flags of a family: each family with the same flags
\* overwrites what the one before it said.
Available(flags) ==
  created[CHOOSE i \in DOMAIN Families :
    Families[i].flags = flags /\ \A j \in DOMAIN Families : Families[j].flags = flags => j <= i]

DeviceInit == created = <<>> /\ used = <<>> /\ queues = <<>>

AddDevice(all) ==
  /\ created = <<>>
  /\ created' = CreateQueues(Families, all)
  /\ used' = [n \in Nodes |-> [f \in AllFlags |-> 0]]
  /\ UNCHANGED queues

RemoveDevice ==
  /\ created # <<>> /\ queues = <<>>
  /\ created' = <<>> /\ used' = <<>>
  /\ UNCHANGED queues
-----------------------------------------------------------------------------
(* vk_add_queue.                                                             *)

\* mutant: one more than there are.
HasFreeOneMore(node, i) == used[node][Families[i].flags] <= Available(Families[i].flags)

HasFree(node, i) == used[node][Families[i].flags] < Available(Families[i].flags)

Least(S) == CHOOSE i \in S : \A j \in S : i <= j

\* mutant: the first family that can do it, whatever else it can do.
DedicatedAny(node, type) == {i \in DOMAIN Families : type \in Families[i].flags /\ HasFree(node, i)}

\* The families of the first loop of _find_queue_family_index.  It stops at
\* the first that fits, so the search for the least other flags has no effect.
Dedicated(node, type) ==
  {i \in DOMAIN Families :
     /\ type \in Families[i].flags
     /\ type # "graphics" => "graphics" \notin Families[i].flags /\ HasFree(node, i)}
Shared(node, type) == {i \in DOMAIN Families : type \in Families[i].flags /\ HasFree(node, i)}

\* A graphics queue is always the first of its family; with no family left,
\* it is the first queue of the first family.
FindQueueFamily(node, type) ==
  LET found(i) == [family |-> i, index |-> used[node][Families[i].flags]] IN
  IF Dedicated(node, type) # {}
  THEN IF type = "graphics" THEN [family |-> Least(Dedicated(node, type)), index |-> 0]
       ELSE found(Least(Dedicated(node, type)))
  ELSE IF Shared(node, type) # {} THEN found(Least(Shared(node, type)))
  ELSE [family |-> 1, index |-> 0]

\* handle is the number of the queue that the driver is asked for: the index of
\* the family, counted from 0, and not index.  So nothing keeps it below what
\* the family was created with, nor two queues of a family apart, and no
\* property is about it.
AddQueue(node, type) ==
  /\ created # <<>> /\ Len(queues) < MaxLive
  /\ LET q == FindQueueFamily(node, type)
         flags == Families[q.family].flags
     IN  /\ used' = [used EXCEPT ![node][flags] = @ + 1]
         /\ queues' = Append(queues, [node |-> node, type |-> type, family |-> q.family,
                                      index |-> q.index, handle |-> q.family - 1])
  /\ UNCHANGED created

RemoveQueue(k) ==
  /\ used' = [used EXCEPT ![queues[k].node][Families[queues[k].family].flags] = @ - 1]
  /\ queues' = RemoveAt(queues, k)
  /\ UNCHANGED created

DeviceNext ==
  \/ \E all \in BOOLEAN : AddDevice(all)
  \/ RemoveDevice
  \/ \E n \in Nodes, t \in Types : AddQueue(n, t)
  \/ \E k \in DOMAIN queues : RemoveQueue(k)
DeviceSpec == DeviceInit /\ [][DeviceNext]_deviceVars
-----------------------------------------------------------------------------
(* Properties.                                                               *)

\* Live queues on a node from families with these flags.
LiveOf(node, flags) ==
  Cardinality({k \in DOMAIN queues :
    queues[k].node = node /\ Families[queues[k].family].flags = flags})

OnlyOneWith(i) == \A j \in DOMAIN Families : Families[j].flags = Families[i].flags => j = i

\* usedqueues against availablequeues: over all orders of adding and removing
\* queues, no more of them live than a family was created with.  This is not
\* so of families that draw and of the first one, whose queues are given out
\* again and again, nor of families whose flags another one has too.
NoneTooMany ==
  created # <<>> =>
    \A n \in Nodes, i \in DOMAIN Families :
      (i # 1 /\ "graphics" \notin Families[i].flags /\ OnlyOneWith(i)) =>
        LiveOf(n, Families[i].flags) <= created[i]

\* "If hardware doesn't provide a dedicated queue try to find a non-dedicated
\* one": a compute or transfer queue competes with the graphics queue only
\* when all that availablequeues counts of the other families were given out.
SharesOnlyThen ==
  Len(queues') > Len(queues) =>
    LET q == Last(queues') IN
    (q.type # "graphics" /\ "graphics" \in Families[q.family].flags) =>
      \A i \in DOMAIN Families :
        (q.type \in Families[i].flags /\ "graphics" \notin Families[i].flags) =>
          LiveOf(q.node, Families[i].flags) >= Available(Families[i].flags)

\* Both: families are not overdrawn, and dedicated ones come first.
QueuesAreCounted == []NoneTooMany /\ [][SharesOnlyThen]_deviceVars
=============================================================================
