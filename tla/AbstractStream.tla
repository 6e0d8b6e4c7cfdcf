--------------------------- MODULE AbstractStream ---------------------------
(* What a memory stream is to its users: bytes and a cursor.  Nothing is lost *)
(* or changed except where a write puts new bytes.                            *)
EXTENDS Naturals, Sequences

CONSTANTS Streams, Bytes, MaxWrite

VARIABLES
  bytes,   \* stream -> what it holds
  cursor   \* stream -> bytes before the next read or write

vars == <<bytes, cursor>>

Overwritten(old, at, new) ==
  LET end == at + Len(new) IN
  [i \in 1 .. (IF Len(old) > end THEN Len(old) ELSE end) |->
     IF i > at /\ i <= end THEN new[i - at] ELSE old[i]]

Write(s, new) ==
  /\ bytes' = [bytes EXCEPT ![s] = Overwritten(@, cursor[s], new)]
  /\ cursor' = [cursor EXCEPT ![s] = @ + Len(new)]

Read(s, n) ==
  /\ cursor[s] + n <= Len(bytes[s])
  /\ cursor' = [cursor EXCEPT ![s] = @ + n]
  /\ UNCHANGED bytes

\* One turn of a copy: a read of one stream and a write to the other.
Copy(from, to, n, new) ==
  /\ cursor[from] + n <= Len(bytes[from])
  /\ bytes' = [bytes EXCEPT ![to] = Overwritten(@, cursor[to], new)]
  /\ cursor' = [cursor EXCEPT ![from] = @ + n, ![to] = @ + Len(new)]

Open(s) ==
  /\ bytes' \in {[bytes EXCEPT ![s] = b] : b \in UNION {[1 .. n -> Bytes] : n \in 0 .. MaxWrite}}
  /\ cursor' \in {[cursor EXCEPT ![s] = 0], [cursor EXCEPT ![s] = Len(bytes'[s])]}

Close(s) == bytes' = [bytes EXCEPT ![s] = <<>>] /\ cursor' = [cursor EXCEPT ![s] = 0]

Next ==
  \/ \E s \in Streams : Open(s) \/ Close(s)
  \/ \E s \in Streams, n \in 0 .. MaxWrite : \E new \in [1 .. n -> Bytes] : Write(s, new)
  \/ \E s \in Streams, n \in 0 .. MaxWrite : Read(s, n)
  \/ \E s, t \in Streams, m, n \in 0 .. MaxWrite :
       s # t /\ \E new \in [1 .. n -> Bytes] : Copy(s, t, m, new)
Init == bytes = [s \in Streams |-> <<>>] /\ cursor = [s \in Streams |-> 0]
Spec == Init /\ [][Next]_vars
=============================================================================
