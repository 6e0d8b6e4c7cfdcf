------------------------- MODULE DescriptorUpdates -------------------------
(* vk_update_descriptorset collects what it writes in two arrays of fixed     *)
(* size, the writes and their infos, and hands them to the driver whenever    *)
(* one of them is full.                                                       *)
EXTENDS Integers, Sequences, SequencesExt

CONSTANTS
  Params,     \* sequences of [binding, start, values, size] to update
  MaxWrites,  \* MAX_WRITE_SETS
  Room,       \* MAX_DESCRIPTOR_INFO_BYTES, in units of the smallest info
  MaxUpdates, \* bound: updates
  None,
  Unknown     \* what a place holds after a write gone wrong

UpdateAssumption == MaxWrites \in Nat \ {0} /\ Room \in Nat

VARIABLES
  content, \* driver: [binding, element] -> value of the set under test
  wanted,  \* what the last call asked to be there when it returns
  params,  \* what the last call was given
  updates  \* updates so far

vars == <<content, wanted, params, updates>>
-----------------------------------------------------------------------------
Places == {<<b, e>> : b \in 0 .. 2, e \in 0 .. 7}

\* External: vkUpdateDescriptorSets reads the infos where they are now.  A
\* count below zero is one of billions to the driver, which reads behind the
\* infos and writes behind the set: after it nothing is known of the set.
Write(set, w, buf) ==
  IF w.count < 0 THEN [p \in Places |-> Unknown]
  ELSE [p \in Places |->
     IF p[1] = w.binding /\ p[2] >= w.dst /\ p[2] < w.dst + w.count
     THEN buf[w.at + (p[2] - w.dst) * w.size] ELSE set[p]]
Send(u) == [u EXCEPT !.set = FoldLeft(LAMBDA s, w : Write(s, w, u.buf), @, u.writes)]

\* No place for another write: hand over all of them.
FlushWrites(u) ==
  IF Len(u.writes) >= MaxWrites THEN [Send(u) EXCEPT !.writes = <<>>, !.used = 0] ELSE u

\* mutant: the rest of the array is written from its beginning.
FlushInfosAgain(u, p, i) ==
  LET n == Len(u.writes)
      full == [u EXCEPT !.writes[n].count = i - u.last]
      w == [full.writes[n] EXCEPT !.count = Len(p.values) - i, !.at = 0]
  IN  IF u.used + p.size >= Room
      THEN [Send(full) EXCEPT !.writes = <<w>>, !.last = i, !.used = 0]
      ELSE u

\* FLUSH_OVERFLOW_DESCRIPTOR_UPDATES: no place for the info of element i, so
\* what there is is handed over, the write at hand up to here, and goes on as
\* the first.  The count of the rest takes the place in the descriptor for the
\* place in the array: it is short by where the array starts, or below zero.
FlushInfos(u, p, i) ==
  LET n == Len(u.writes)
      full == [u EXCEPT !.writes[n].count = i - u.last]
      dst == full.writes[n].dst + full.writes[n].count
      w == [full.writes[n] EXCEPT !.dst = dst, !.count = Len(p.values) - dst, !.at = 0]
  IN  IF u.used + p.size >= Room
      THEN [Send(full) EXCEPT !.writes = <<w>>, !.last = i, !.used = 0]
      ELSE u

Info(u, p, i) ==
  LET v == FlushInfos(u, p, i) IN
  [v EXCEPT !.buf[v.used] = p.values[i + 1], !.used = @ + p.size]

\* One parameter: a write for it, and the infos of its array.
UpdateParam(u, p) ==
  LET v == FlushWrites(u)
      w == [binding |-> p.binding, dst |-> p.start, count |-> Len(p.values), at |-> v.used, size |-> p.size]
  IN  FoldLeft(LAMBDA x, i : Info(x, p, i), [v EXCEPT !.writes = Append(@, w), !.last = 0],
               [k \in 1 .. Len(p.values) |-> k - 1])

Update(set, ps) ==
  Send(FoldLeft(UpdateParam,
    [set |-> set, writes |-> <<>>, buf |-> [i \in 0 .. Room |-> None], used |-> 0, last |-> 0],
    ps)).set

Asked(set, p) ==
  [x \in Places |-> IF x[1] = p.binding /\ x[2] >= p.start /\ x[2] < p.start + Len(p.values)
                    THEN p.values[x[2] - p.start + 1] ELSE set[x]]

UpdateDescriptorSet(ps) ==
  /\ updates < MaxUpdates /\ updates' = updates + 1
  /\ params' = ps
  /\ content' = Update(content, ps)
  /\ wanted' = FoldLeft(Asked, content, ps)

Init == /\ content = [p \in Places |-> None] /\ wanted = [p \in Places |-> None]
        /\ params = <<>> /\ updates = 0
Next == \E ps \in Params : UpdateDescriptorSet(ps)
Spec == Init /\ [][Next]_vars
-----------------------------------------------------------------------------
\* Room that the infos of the first k parameters take.
RoomOf(ps, k) == FoldLeft(LAMBDA n, p : n + p.size * Len(p.values), 0, SubSeq(ps, 1, k))

\* Arrays that do not start at element 0 come before the infos run out.
OffsetsFit(ps) == \A k \in DOMAIN ps : ps[k].start # 0 => RoomOf(ps, k) < Room

\* vk_update_descriptorset: after a call the driver has in each place what the
\* last parameter for it named, and elsewhere what was there before, wherever
\* the writes or the infos were full in between; of a call with an offset the
\* infos have to hold the array and all before it ("to update 6th entry in a
\* bindless texture descriptor, arrayoffset will be 6 and count will be 1").
UpdatesArrive == OffsetsFit(params) => content = wanted
=============================================================================
