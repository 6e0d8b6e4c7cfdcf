------------------------------ MODULE LfQueue ------------------------------
(***************************************************************************)
(* The lock-free bounded queue of src/src/datastructures/lfqueue.h, which   *)
(* carries every job from tc_run_jobs to the workers (fiber.c).            *)
(*                                                                         *)
(* Each cell has a sequence number.  A cell whose number is the ticket p   *)
(* waits for the writer of ticket p; number p+1 means that ticket p is     *)
(* published; the reader that drains it sets p+N, the cell's next ticket.  *)
(* One action is one access to shared memory: load write or read, load a   *)
(* cell's sequence, compare-and-swap, plain access to the data, store of   *)
(* the sequence.  Tests of local variables belong to the action before     *)
(* them.  Positions are 64-bit in the code and never wrap in practice;     *)
(* here they are naturals, cut off by MaxPuts.                             *)
(*                                                                         *)
(* The macro CAS of core.h takes the address of its second argument, and   *)
(* lf_queue_put and lf_queue_get pass it &pos (lines 48 and 72), which has *)
(* no address.  The model takes what is meant: pos is the value the        *)
(* compare-and-swap expects, and when it fails, pos is what it found.      *)
(***************************************************************************)
EXTENDS Integers, Sequences, TLC

CONSTANTS
  Threads,  \* worker threads calling the queue
  Values,   \* job pointers
  None,     \* content of a cell before the first put; *data before a get
  N,        \* elements: the number of cells (mask + 1)
  MaxPuts   \* bound: no put is called once this many tickets were claimed

\* lf_queue_init asserts elements >= 2 (and a power of two, which makes
\* pos & mask the remainder; the algorithm itself needs only >= 2).
ASSUME NAssumption == N \in Nat /\ N >= 2
ASSUME MaxPutsAssumption == MaxPuts \in Nat
ASSUME NoneAssumption == None \notin Values

VARIABLES
  write,    \* queue->write: next ticket of a producer
  read,     \* queue->read: next ticket of a consumer
  seq,      \* seq[i]: queue->buffer[i].sequence
  data,     \* data[i]: queue->buffer[i].data
  pc,       \* pc[t]: where thread t is in lf_queue_put or lf_queue_get
  pos,      \* pos[t]: local variable pos
  arg,      \* arg[t]: the value thread t is putting
  got,      \* got[t]: *data of the last successful get of t
  log       \* history: log[p+1] is the value that was given ticket p

vars == <<write, read, seq, data, pc, pos, arg, got, log>>

PutPC == {"put_pos", "put_seq", "put_cas", "put_data", "put_publish"}
GetPC == {"get_pos", "get_seq", "get_cas", "get_data", "get_release"}
Writing == {"put_data", "put_publish"}   \* owns a claimed cell
Reading == {"get_data", "get_release"}   \* owns a cell it drains
Owning == Writing \cup Reading

Cell(p) == p % N

TypeOK ==
  /\ write \in Nat
  /\ read \in Nat
  /\ seq \in [0..N-1 -> Nat]
  /\ data \in [0..N-1 -> Values \cup {None}]
  /\ pc \in [Threads -> {"idle"} \cup PutPC \cup GetPC]
  /\ pos \in [Threads -> Nat]
  /\ arg \in [Threads -> Values \cup {None}]
  /\ got \in [Threads -> Values \cup {None}]
  /\ log \in Seq(Values)
  /\ \A t \in Threads : pc[t] \in PutPC => arg[t] \in Values

Init ==
  /\ write = 0
  /\ read = 0
  /\ seq = [i \in 0..N-1 |-> i]
  /\ data = [i \in 0..N-1 |-> None]
  /\ pc = [t \in Threads |-> "idle"]
  /\ pos = [t \in Threads |-> 0]
  /\ arg = [t \in Threads |-> None]
  /\ got = [t \in Threads |-> None]
  /\ log = <<>>

-----------------------------------------------------------------------------
Goto(t, label) == pc' = [pc EXCEPT ![t] = label]

CallPut(t, v) ==
  /\ pc[t] = "idle"
  /\ write < MaxPuts
  /\ arg' = [arg EXCEPT ![t] = v]
  /\ Goto(t, "put_pos")
  /\ UNCHANGED <<write, read, seq, data, pos, got, log>>

PutLoadPos(t) ==
  /\ pc[t] = "put_pos"
  /\ pos' = [pos EXCEPT ![t] = write]
  /\ Goto(t, "put_seq")
  /\ UNCHANGED <<write, read, seq, data, arg, got, log>>

\* The cell waits for this ticket: try to claim it.
PutSeqMatches(t) ==
  /\ pc[t] = "put_seq"
  /\ seq[Cell(pos[t])] = pos[t]
  /\ Goto(t, "put_cas")
  /\ UNCHANGED <<write, read, seq, data, pos, arg, got, log>>

\* Mutant: "dif <= 0" reports a free cell as full.
PutFails_WhenFree(t) ==
  /\ pc[t] = "put_seq"
  /\ seq[Cell(pos[t])] <= pos[t]
  /\ Goto(t, "idle")
  /\ pos' = [pos EXCEPT ![t] = 0]
  /\ arg' = [arg EXCEPT ![t] = None]
  /\ UNCHANGED <<write, read, seq, data, got, log>>

\* dif < 0: the cell still holds the value of ticket pos - N; return false.
PutFails(t) ==
  /\ pc[t] = "put_seq"
  /\ seq[Cell(pos[t])] < pos[t]
  /\ Goto(t, "idle")
  /\ pos' = [pos EXCEPT ![t] = 0]
  /\ arg' = [arg EXCEPT ![t] = None]
  /\ UNCHANGED <<write, read, seq, data, got, log>>

\* dif > 0: pos is stale; load it again.
PutSeqAhead(t) ==
  /\ pc[t] = "put_seq"
  /\ seq[Cell(pos[t])] > pos[t]
  /\ Goto(t, "put_pos")
  /\ UNCHANGED <<write, read, seq, data, pos, arg, got, log>>

\* Mutant: a store instead of the compare-and-swap.
PutClaim_Store(t) ==
  /\ pc[t] = "put_cas"
  /\ write' = pos[t] + 1
  /\ log' = Append(log, arg[t])
  /\ Goto(t, "put_data")
  /\ UNCHANGED <<read, seq, data, pos, arg, got>>

PutClaim(t) ==
  /\ pc[t] = "put_cas"
  /\ write = pos[t]
  /\ write' = pos[t] + 1
  /\ log' = Append(log, arg[t])
  /\ Goto(t, "put_data")
  /\ UNCHANGED <<read, seq, data, pos, arg, got>>

\* A failed compare-and-swap stores the current value in pos.
PutClaimLost(t) ==
  /\ pc[t] = "put_cas"
  /\ write # pos[t]
  /\ pos' = [pos EXCEPT ![t] = write]
  /\ Goto(t, "put_seq")
  /\ UNCHANGED <<write, read, seq, data, arg, got, log>>

PutData(t) ==
  /\ pc[t] = "put_data"
  /\ data' = [data EXCEPT ![Cell(pos[t])] = arg[t]]
  /\ Goto(t, "put_publish")
  /\ UNCHANGED <<write, read, seq, pos, arg, got, log>>

PutPublish(t) ==
  /\ pc[t] = "put_publish"
  /\ seq' = [seq EXCEPT ![Cell(pos[t])] = pos[t] + 1]
  /\ Goto(t, "idle")
  /\ pos' = [pos EXCEPT ![t] = 0]
  /\ arg' = [arg EXCEPT ![t] = None]
  /\ UNCHANGED <<write, read, data, got, log>>

-----------------------------------------------------------------------------
CallGet(t) ==
  /\ pc[t] = "idle"
  /\ Goto(t, "get_pos")
  /\ UNCHANGED <<write, read, seq, data, pos, arg, got, log>>

GetLoadPos(t) ==
  /\ pc[t] = "get_pos"
  /\ pos' = [pos EXCEPT ![t] = read]
  /\ Goto(t, "get_seq")
  /\ UNCHANGED <<write, read, seq, data, arg, got, log>>

\* Mutant: a cell that is claimed but not yet published is taken.
GetSeqMatches_Unpublished(t) ==
  /\ pc[t] = "get_seq"
  /\ seq[Cell(pos[t])] = pos[t]
  /\ Goto(t, "get_cas")
  /\ UNCHANGED <<write, read, seq, data, pos, arg, got, log>>

GetSeqMatches(t) ==
  /\ pc[t] = "get_seq"
  /\ seq[Cell(pos[t])] = pos[t] + 1
  /\ Goto(t, "get_cas")
  /\ UNCHANGED <<write, read, seq, data, pos, arg, got, log>>

\* Mutant: "dif <= 0" reports a published cell as empty.
GetFails_WhenPublished(t) ==
  /\ pc[t] = "get_seq"
  /\ seq[Cell(pos[t])] <= pos[t] + 1
  /\ Goto(t, "idle")
  /\ pos' = [pos EXCEPT ![t] = 0]
  /\ UNCHANGED <<write, read, seq, data, arg, got, log>>

\* dif < 0: nothing is published at this ticket; return false.
GetFails(t) ==
  /\ pc[t] = "get_seq"
  /\ seq[Cell(pos[t])] < pos[t] + 1
  /\ Goto(t, "idle")
  /\ pos' = [pos EXCEPT ![t] = 0]
  /\ UNCHANGED <<write, read, seq, data, arg, got, log>>

GetSeqAhead(t) ==
  /\ pc[t] = "get_seq"
  /\ seq[Cell(pos[t])] > pos[t] + 1
  /\ Goto(t, "get_pos")
  /\ UNCHANGED <<write, read, seq, data, pos, arg, got, log>>

GetClaim(t) ==
  /\ pc[t] = "get_cas"
  /\ read = pos[t]
  /\ read' = pos[t] + 1
  /\ Goto(t, "get_data")
  /\ UNCHANGED <<write, seq, data, pos, arg, got, log>>

GetClaimLost(t) ==
  /\ pc[t] = "get_cas"
  /\ read # pos[t]
  /\ pos' = [pos EXCEPT ![t] = read]
  /\ Goto(t, "get_seq")
  /\ UNCHANGED <<write, read, seq, data, arg, got, log>>

\* Mutant: the value is copied from the cell of the next ticket.
GetData_NextCell(t) ==
  /\ pc[t] = "get_data"
  /\ got' = [got EXCEPT ![t] = data[Cell(pos[t] + 1)]]
  /\ Goto(t, "get_release")
  /\ UNCHANGED <<write, read, seq, data, pos, arg, log>>

GetData(t) ==
  /\ pc[t] = "get_data"
  /\ got' = [got EXCEPT ![t] = data[Cell(pos[t])]]
  /\ Goto(t, "get_release")
  /\ UNCHANGED <<write, read, seq, data, pos, arg, log>>

GetRelease(t) ==
  /\ pc[t] = "get_release"
  /\ seq' = [seq EXCEPT ![Cell(pos[t])] = pos[t] + N]
  /\ Goto(t, "idle")
  /\ pos' = [pos EXCEPT ![t] = 0]
  /\ UNCHANGED <<write, read, data, arg, got, log>>

-----------------------------------------------------------------------------
\* The steps of a call that has begun; a call must be able to finish alone.
Step(t) ==
  \/ PutLoadPos(t) \/ PutSeqMatches(t) \/ PutFails(t) \/ PutSeqAhead(t)
  \/ PutClaim(t) \/ PutClaimLost(t) \/ PutData(t) \/ PutPublish(t)
  \/ GetLoadPos(t) \/ GetSeqMatches(t) \/ GetFails(t) \/ GetSeqAhead(t)
  \/ GetClaim(t) \/ GetClaimLost(t) \/ GetData(t) \/ GetRelease(t)

Next ==
  \E t \in Threads :
    \/ \E v \in Values : CallPut(t, v)
    \/ CallGet(t)
    \/ Step(t)

Spec == Init /\ [][Next]_vars

-----------------------------------------------------------------------------
\* No two threads are ever inside the same cell: the plain (non-atomic)
\* accesses cell->data = data and *data = cell->data never race, whoever
\* won the two compare-and-swaps.
CellOwnership ==
  \A t, u \in Threads :
    /\ t # u
    /\ pc[t] \in Owning
    /\ pc[u] \in Owning
    => Cell(pos[t]) # Cell(pos[u])

\* Consumers never overtake producers, and producers never lap consumers by
\* more than the number of cells: no unread value is overwritten.
TicketWindow == read <= write /\ write <= read + N

\* A consumer that owns a ticket reads the value that was given that ticket,
\* not one of an earlier or a later lap of the ring.
ReadsOwnTicket ==
  \A t \in Threads :
    pc[t] = "get_data" =>
      /\ pos[t] < Len(log)
      /\ data[Cell(pos[t])] = log[pos[t] + 1]

\* lf_queue_put returns false only when all cells are taken or a consumer
\* has claimed a cell and not yet released it: "full" may be spurious, but
\* only for as long as some lf_queue_get is between lines 72 and 84.
FullIsHonest ==
  [][\A t \in Threads : PutFails(t) =>
       \/ write - read = N
       \/ \E u \in Threads : pc[u] \in Reading]_vars

\* lf_queue_get returns false only when the queue is empty or a producer has
\* claimed a cell and not yet published it.
EmptyIsHonest ==
  [][\A t \in Threads : GetFails(t) =>
       \/ read = write
       \/ \E u \in Threads : pc[u] \in Writing]_vars

\* Both: a call is refused only when the ring is full (empty), or while some
\* other call is inside a cell.
RefusalsAreHonest == FullIsHonest /\ EmptyIsHonest

\* The queue implements the abstract first-in first-out queue.  A put takes
\* effect when its compare-and-swap succeeds, and so does a get, although
\* the value is copied later.
Abs == INSTANCE AbstractQueue WITH
  Capacity <- N,
  queue <- SubSeq(log, read + 1, write),
  hand <- [t \in Threads |->
             IF pc[t] = "get_data" THEN log[pos[t] + 1] ELSE got[t]]
RefinesAbstractQueue == Abs!Spec

-----------------------------------------------------------------------------
\* The inductive invariant behind the four safety properties.  A cell is at
\* all times in one of four conditions for the ticket p it serves.
FreeFor(i, p) == seq[i] = p /\ write <= p /\ p < read + N
ClaimedFor(i, p) ==
  /\ seq[i] = p /\ read <= p /\ p < write
  /\ \E t \in Threads : pc[t] \in Writing /\ pos[t] = p
PublishedFor(i, p) ==
  seq[i] = p + 1 /\ read <= p /\ p < write /\ data[i] = log[p + 1]
DrainedFor(i, p) ==
  /\ seq[i] = p + 1 /\ p < read /\ write <= p + N
  /\ \E t \in Threads : pc[t] \in Reading /\ pos[t] = p

CellInv(i) ==
  \E p \in 0 .. write + N :
    /\ Cell(p) = i
    /\ FreeFor(i, p) \/ ClaimedFor(i, p) \/ PublishedFor(i, p) \/ DrainedFor(i, p)

\* What a thread knows at each label, whatever the others do meanwhile.
WriterInv(t) ==
  /\ pc[t] \in {"put_seq", "put_cas"} => pos[t] <= write
  /\ pc[t] = "put_cas" /\ pos[t] = write => seq[Cell(pos[t])] = pos[t]
  /\ pc[t] \in Writing =>
       /\ read <= pos[t] /\ pos[t] < write
       /\ seq[Cell(pos[t])] = pos[t]
       /\ log[pos[t] + 1] = arg[t]
  /\ pc[t] = "put_publish" => data[Cell(pos[t])] = arg[t]

ReaderInv(t) ==
  /\ pc[t] \in {"get_seq", "get_cas"} => pos[t] <= read
  /\ pc[t] = "get_cas" /\ pos[t] = read => seq[Cell(pos[t])] = pos[t] + 1
  /\ pc[t] \in Reading =>
       /\ pos[t] < read /\ write <= pos[t] + N
       /\ seq[Cell(pos[t])] = pos[t] + 1
       /\ data[Cell(pos[t])] = log[pos[t] + 1]

IInv ==
  /\ TypeOK
  /\ Len(log) = write
  /\ TicketWindow
  /\ \A i \in 0 .. N-1 : CellInv(i)
  /\ \A t \in Threads : WriterInv(t) /\ ReaderInv(t)
  /\ CellOwnership

\* The code treats all threads and all values alike.
Symmetry == Permutations(Threads) \cup Permutations(Values)
=============================================================================
