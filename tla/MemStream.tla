----------------------------- MODULE MemStream -----------------------------
(* Memory streams: a buffer that grows by whole steps, or that is borrowed    *)
(* from the caller, a cursor, and the copy from one stream to another.        *)
EXTENDS Naturals, Sequences

CONSTANTS
  Streams,
  UserBytes, \* what the callers write; 0 stands for bytes nobody wrote
  GrowSize,  \* MEMORY_STREAM_GROW_SIZE
  CopySize,  \* STREAM_COPY_BUFFER_SIZE
  MaxWrite,  \* bound: bytes of one call
  MaxBytes,  \* bound: cursor of a stream
  NoStream   \* no stream, no copy, no answer yet

Stored == UserBytes \cup {0}
Memory == [buffer : Seq(Stored), cursor : Nat, size : Nat, flags : SUBSET {"read", "write", "append"}, owner : BOOLEAN]
Copying == [from : Streams, to : Streams, left : Nat, taken : Seq(Stored), ok : BOOLEAN \cup {NoStream}]

ASSUME MemStreamAssumption ==
  /\ {GrowSize, CopySize} \subseteq Nat \ {0} /\ MaxWrite \in Nat /\ MaxBytes \in Nat /\ 0 \notin UserBytes
  /\ NoStream \notin Memory /\ NoStream \notin Copying /\ NoStream \notin BOOLEAN

VARIABLES
  stream, \* NoStream or [buffer, cursor, size, flags, owner]; the capacity is the buffer's length
  copy    \* fs_copy_stream: NoStream or [from, to, left, taken, ok]

streamVars == <<stream, copy>>
-----------------------------------------------------------------------------
Least(a, b) == IF a <= b THEN a ELSE b
Greater(a, b) == IF a >= b THEN a ELSE b

\* Whole steps of the grow size.
Rounded(n) == GrowSize * (n \div GrowSize + (IF n % GrowSize = 0 THEN 0 ELSE 1))

Resized(buffer, n) == [i \in 1 .. n |-> IF i <= Len(buffer) THEN buffer[i] ELSE 0]

StreamInit == stream = [s \in Streams |-> NoStream] /\ copy = NoStream

Writes(flags) == flags \cap {"write", "append"} # {}

\* fs_open_mstream: a stream that writes gets a buffer of its own unless it is
\* given one; an appending one starts at the end.
Open(s, buffer, flags, owner) ==
  /\ stream[s] = NoStream /\ copy = NoStream
  /\ LET fresh == Writes(flags) /\ (~owner \/ buffer = <<>>) IN
     stream' = [stream EXCEPT ![s] =
       [buffer |-> IF fresh THEN Resized(buffer, Rounded(Len(buffer))) ELSE buffer,
        cursor |-> IF "append" \in flags THEN Len(buffer) ELSE 0,
        size |-> Len(buffer), flags |-> flags, owner |-> owner \/ fresh]]
  /\ UNCHANGED copy

\* mstream_cap
Available(m, n) == Least(n, Greater(m.size - m.cursor, 0))

\* mstream_read: how much it reads.
ReadCount(m, n) ==
  IF "read" \notin m.flags \/ m.cursor >= m.size THEN 0 ELSE Available(m, n)

AfterRead(m, n) == [m EXCEPT !.cursor = @ + ReadCount(m, n)]

\* mutant: the new buffer starts empty.
GrownFresh(m, n) ==
  IF n > Len(m.buffer) - m.cursor THEN Resized(<<>>, Rounded(m.cursor + n)) ELSE m.buffer

Grown(m, n) ==
  IF n > Len(m.buffer) - m.cursor THEN Resized(m.buffer, Rounded(m.cursor + n)) ELSE m.buffer

\* mstream_write
AfterWrite(m, new) ==
  IF ~Writes(m.flags) THEN m
  ELSE LET end == m.cursor + Len(new)
           room == Grown(m, Len(new))
       IN  [m EXCEPT !.buffer = [i \in DOMAIN room |->
                                   IF i > m.cursor /\ i <= end THEN new[i - m.cursor] ELSE room[i]],
                     !.cursor = end, !.size = Greater(@, end)]

Read(s, n) ==
  /\ stream[s] # NoStream /\ copy = NoStream
  /\ stream' = [stream EXCEPT ![s] = AfterRead(@, n)]
  /\ UNCHANGED copy

Write(s, new) ==
  /\ stream[s] # NoStream /\ copy = NoStream /\ stream[s].cursor + Len(new) <= MaxBytes
  /\ stream' = [stream EXCEPT ![s] = AfterWrite(@, new)]
  /\ UNCHANGED copy

Close(s) ==
  /\ stream[s] # NoStream /\ copy = NoStream
  /\ stream' = [stream EXCEPT ![s] = NoStream]
  /\ UNCHANGED copy

\* fs_copy_stream up to its loop: the buffer of a destination that holds less
\* than the length is made to hold it, wherever its cursor is and whoever owns
\* it.
StartCopy(from, to, n) ==
  /\ copy = NoStream /\ from # to /\ stream[from] # NoStream /\ stream[to] # NoStream
  /\ stream[to].cursor + n <= MaxBytes
  /\ copy' = [from |-> from, to |-> to, left |-> n, taken |-> <<>>, ok |-> NoStream]
  /\ stream' = IF stream[to].buffer # <<>> /\ Len(stream[to].buffer) < n
               THEN [stream EXCEPT ![to].buffer = Resized(@, Rounded(n))] ELSE stream

\* mutant: what was read is not compared with what was written.
TurnOkAlways(read, wrote) == TRUE

TurnOk(read, wrote) == wrote = read

\* One turn: as much is written as was asked for, though less may have been
\* read, and then the copy fails.
CopyTurn ==
  /\ copy # NoStream /\ copy.ok = NoStream /\ copy.left > 0
  /\ LET from == stream[copy.from]
         asked == Least(copy.left, CopySize)
         read == ReadCount(from, asked)
         data == [i \in 1 .. asked |-> IF i <= read THEN from.buffer[from.cursor + i] ELSE 0]
         wrote == IF Writes(stream[copy.to].flags) THEN asked ELSE 0
     IN  IF read = 0
         THEN copy' = [copy EXCEPT !.ok = FALSE] /\ UNCHANGED stream
         ELSE /\ stream' = [stream EXCEPT ![copy.from] = AfterRead(@, asked),
                                          ![copy.to] = AfterWrite(@, data)]
              /\ copy' = IF TurnOk(read, wrote)
                         THEN [copy EXCEPT !.left = @ - asked,
                                           !.taken = @ \o SubSeq(from.buffer, from.cursor + 1, from.cursor + read)]
                         ELSE [copy EXCEPT !.ok = FALSE]

CopyEnds ==
  /\ copy # NoStream
  /\ IF copy.ok = NoStream THEN copy.left = 0 /\ copy' = [copy EXCEPT !.ok = TRUE]
     ELSE copy' = NoStream
  /\ UNCHANGED stream

Data == UNION {[1 .. n -> UserBytes] : n \in 0 .. MaxWrite}
Flags == {{"read"}, {"write"}, {"read", "write"}, {"read", "write", "append"}}

StreamNext ==
  \/ \E s \in Streams, b \in Data, f \in Flags, o \in BOOLEAN : Open(s, b, f, o)
  \/ \E s \in Streams, n \in 1 .. MaxWrite : Read(s, n)
  \/ \E s \in Streams, d \in Data : Write(s, d)
  \/ \E s \in Streams : Close(s)
  \/ \E s, t \in Streams, n \in 1 .. MaxBytes : StartCopy(s, t, n)
  \/ CopyTurn
  \/ CopyEnds
StreamSpec == StreamInit /\ [][StreamNext]_streamVars
-----------------------------------------------------------------------------
(* Properties.                                                               *)

\* The reader sees the first size bytes of the buffer.
Abstract == INSTANCE AbstractStream WITH
  Bytes <- UserBytes \cup {0},
  MaxWrite <- Greater(MaxWrite, CopySize),
  bytes <- [s \in Streams |-> IF stream[s] = NoStream THEN <<>> ELSE SubSeq(stream[s].buffer, 1, stream[s].size)],
  cursor <- [s \in Streams |-> IF stream[s] = NoStream THEN 0 ELSE stream[s].cursor]

\* fs_copy_stream: where it says it copied, the destination holds before its
\* cursor the bytes that the source had after its own, over all turns.
CopiedIsExact ==
  (copy # NoStream /\ copy.ok = TRUE) =>
    LET to == stream[copy.to] IN
    /\ Writes(to.flags) /\ to.cursor <= to.size
    /\ SubSeq(to.buffer, to.cursor - Len(copy.taken) + 1, to.cursor) = copy.taken

\* mstream_write, mstream_read, fs_open_mstream and fs_copy_stream implement a
\* byte stream: growing, borrowing and preparing a copy change nothing that a
\* reader can see; and a copy that succeeds is exact.
RefinesAbstractStream == Abstract!Spec /\ []CopiedIsExact
=============================================================================
