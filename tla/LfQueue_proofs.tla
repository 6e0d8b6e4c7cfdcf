--------------------------- MODULE LfQueue_proofs ---------------------------
(* Machine-checked proofs about LfQueue, for every number of threads, every *)
(* ring size N >= 2 and every bound on the number of puts.                 *)
EXTENDS LfQueue, SequenceTheorems, TLAPS

\* Division with remainder by the ring size.
LEMMA Division ==
  \A p \in Nat : /\ p \div N \in Int
                 /\ p % N \in 0 .. N-1
                 /\ p = N * (p \div N) + (p % N)
  BY NAssumption, Z3

\* Division with remainder is unique.
LEMMA DivisionUnique ==
  ASSUME NEW q \in Int, NEW k \in Int, NEW r \in 0 .. N-1, NEW s \in 0 .. N-1,
         N * q + r = N * k + s
  PROVE  r = s
<1>1. N * (q - k) = s - r
  BY NAssumption, Z3
<1>2. CASE q - k >= 1
  <2>1. N * (q - k) >= N
    BY <1>2, NAssumption, Z3
  <2>2. QED BY <1>1, <2>1, NAssumption
<1>3. CASE k - q >= 1
  <2>1. N * (q - k) <= -N
    BY <1>3, NAssumption, Z3
  <2>2. QED BY <1>1, <2>1, NAssumption
<1>4. CASE q = k
  BY <1>4, NAssumption
<1>5. QED
  BY <1>2, <1>3, <1>4, NAssumption

\* A ticket's cell exists (pos & mask is an index of the ring).
LEMMA CellType == \A p \in Nat : Cell(p) \in 0 .. N-1
  BY Division DEF Cell

\* Ticket p + N uses the cell of ticket p, one lap later.
LEMMA CellLap == ASSUME NEW p \in Nat PROVE Cell(p + N) = Cell(p)
<1> DEFINE q == p \div N  k == (p + N) \div N
<1>1. q \in Int /\ p % N \in 0 .. N-1 /\ p = N * q + (p % N)
  BY Division
<1>2. k \in Int /\ (p + N) % N \in 0 .. N-1 /\ p + N = N * k + ((p + N) % N)
  BY Division, NAssumption
<1> HIDE DEF q, k
<1>3. N * (q + 1) + (p % N) = N * k + ((p + N) % N)
  BY <1>1, <1>2, NAssumption, Z3
<1>4. p % N = (p + N) % N
  BY <1>1, <1>2, <1>3, DivisionUnique
<1>5. QED
  BY <1>4 DEF Cell

\* Two successive tickets use different cells: needs at least two cells.
LEMMA CellSucc == ASSUME NEW p \in Nat PROVE Cell(p + 1) # Cell(p)
<1> DEFINE q == p \div N  k == (p + 1) \div N  r == p % N
<1>1. q \in Int /\ r \in 0 .. N-1 /\ p = N * q + r
  BY Division
<1>2. k \in Int /\ (p + 1) % N \in 0 .. N-1 /\ p + 1 = N * k + ((p + 1) % N)
  BY Division, NAssumption
<1>3. SUFFICES ASSUME (p + 1) % N = r PROVE FALSE
  BY DEF Cell
<1> HIDE DEF q, k, r
<1>4. CASE r + 1 < N
  <2>1. r + 1 \in 0 .. N-1 /\ N * q + (r + 1) = N * k + r
    BY <1>1, <1>2, <1>3, <1>4, NAssumption
  <2>2. r + 1 = r
    BY <2>1, <1>1, <1>2, DivisionUnique
  <2>3. QED BY <2>2, <1>1, NAssumption
<1>5. CASE r + 1 = N
  <2>1. PICK m \in Int : m = q + 1
    BY <1>1
  <2>2. 0 \in 0 .. N-1 /\ N * m + 0 = N * k + r
    BY <2>1, <1>1, <1>2, <1>3, <1>5, NAssumption, Z3
  <2>3. 0 = r
    BY <2>2, <1>1, <1>2, DivisionUnique
  <2>4. QED BY <2>3, <1>5, NAssumption
<1>6. QED
  BY <1>1, <1>4, <1>5, NAssumption

-----------------------------------------------------------------------------
(***************************************************************************)
(* Type correctness                                                        *)
(***************************************************************************)
LEMMA InitType == Init => TypeOK
  BY NAssumption, NoneAssumption DEF Init, TypeOK, PutPC, GetPC

LEMMA NextType == TypeOK /\ [Next]_vars => TypeOK'
<1> SUFFICES ASSUME TypeOK, [Next]_vars PROVE TypeOK'
  OBVIOUS
<1> USE NAssumption DEF TypeOK, Goto, PutPC, GetPC
<1>1. ASSUME NEW t \in Threads, NEW v \in Values, CallPut(t, v) PROVE TypeOK'
  BY <1>1 DEF CallPut
<1>2. ASSUME NEW t \in Threads, CallGet(t) PROVE TypeOK'
  BY <1>2 DEF CallGet
<1>3. ASSUME NEW t \in Threads, Step(t) PROVE TypeOK'
  <2>1. CASE PutLoadPos(t) \/ GetLoadPos(t)
    BY <2>1 DEF PutLoadPos, GetLoadPos
  <2>2. CASE PutSeqMatches(t) \/ PutSeqAhead(t) \/ GetSeqMatches(t) \/ GetSeqAhead(t)
    BY <2>2 DEF PutSeqMatches, PutSeqAhead, GetSeqMatches, GetSeqAhead
  <2>3. CASE PutFails(t)
    BY <2>3 DEF PutFails
  <2>3a. CASE GetFails(t)
    BY <2>3a DEF GetFails
  <2>4. CASE PutClaim(t)
    BY <2>4 DEF PutClaim
  <2>5. CASE GetClaim(t)
    BY <2>5 DEF GetClaim
  <2>6. CASE PutClaimLost(t) \/ GetClaimLost(t)
    BY <2>6 DEF PutClaimLost, GetClaimLost
  <2>7. CASE PutData(t)
    BY <2>7 DEF PutData
  <2>8. CASE GetData(t)
    BY <2>8, CellType DEF GetData
  <2>9. CASE PutPublish(t)
    <3>1. pos[t] + 1 \in Nat
      OBVIOUS
    <3>2. QED BY <2>9, <3>1 DEF PutPublish
  <2>9a. CASE GetRelease(t)
    <3>1. pos[t] + N \in Nat
      OBVIOUS
    <3>2. QED BY <2>9a, <3>1 DEF GetRelease
  <2>10. QED
    BY <1>3, <2>1, <2>2, <2>3, <2>3a, <2>4, <2>5, <2>6, <2>7, <2>8, <2>9, <2>9a DEF Step
<1>4. CASE UNCHANGED vars
  BY <1>4 DEF vars
<1>5. QED
  BY <1>1, <1>2, <1>3, <1>4 DEF Next

\* The queue's fields, its history and every caller's local variables keep
\* their types, for all threads, values and ring sizes.
THEOREM TypeCorrect == Spec => []TypeOK
  BY InitType, NextType, PTL DEF Spec

-----------------------------------------------------------------------------
(***************************************************************************)
(* The inductive invariant                                                 *)
(***************************************************************************)
LEMMA InitInv == Init => IInv
<1> SUFFICES ASSUME Init PROVE IInv
  OBVIOUS
<1> USE NAssumption DEF Init
<1>1. TypeOK
  BY InitType
<1>2. Len(log) = write /\ TicketWindow
  BY DEF TicketWindow
<1>3. ASSUME NEW i \in 0 .. N-1 PROVE CellInv(i)
  <2>1. Cell(i) = i
    <3>1. i \in Nat /\ i = N * 0 + i
      BY Z3
    <3>2. i \div N \in Int /\ i % N \in 0 .. N-1 /\ i = N * (i \div N) + (i % N)
      BY <3>1, Division
    <3> DEFINE q == i \div N  r == i % N
    <3> HIDE DEF q, r
    <3>3. q \in Int /\ 0 \in Int /\ r \in 0 .. N-1 /\ N * q + r = N * 0 + i
      BY <3>1, <3>2 DEF q, r
    <3>4. r = i
      <4>1. \A a, b \in Int : \A v, w \in 0 .. N-1 : N * a + v = N * b + w => v = w
        BY DivisionUnique
      <4>2. QED BY <3>3, <4>1, Zenon
    <3>5. QED BY <3>4 DEF Cell, r
  <2>2. FreeFor(i, i)
    BY DEF FreeFor
  <2>3. QED
    BY <2>1, <2>2 DEF CellInv
<1>4. ASSUME NEW t \in Threads PROVE WriterInv(t) /\ ReaderInv(t)
  BY DEF WriterInv, ReaderInv, Writing, Reading
<1>5. CellOwnership
  BY DEF CellOwnership, Owning, Writing, Reading
<1>6. QED
  BY <1>1, <1>2, <1>3, <1>4, <1>5 DEF IInv

\* A step of t that only moves t between labels outside every cell.
LEMMA LocalStep ==
  ASSUME IInv, TypeOK', NEW t \in Threads,
         UNCHANGED <<write, read, seq, data, log>>,
         pc[t] \notin Owning, pc'[t] \notin Owning,
         \A u \in Threads \ {t} : /\ pc'[u] = pc[u]
                                  /\ pos'[u] = pos[u]
                                  /\ arg'[u] = arg[u],
         WriterInv(t)', ReaderInv(t)'
  PROVE  IInv'
<1>1. (Len(log) = write)' /\ TicketWindow'
  BY DEF IInv, TicketWindow
<1>2. ASSUME NEW i \in 0 .. N-1 PROVE CellInv(i)'
  <2>1. PICK p \in 0 .. write + N :
          /\ Cell(p) = i
          /\ FreeFor(i, p) \/ ClaimedFor(i, p) \/ PublishedFor(i, p) \/ DrainedFor(i, p)
    BY <1>2 DEF IInv, CellInv
  <2>2. Cell(p)' = i /\ p \in 0 .. (write + N)'
    BY <2>1 DEF Cell
  <2>3. CASE FreeFor(i, p)
    BY <2>2, <2>3 DEF FreeFor, CellInv
  <2>4. CASE ClaimedFor(i, p)
    <3>1. ClaimedFor(i, p)'
      BY <2>4 DEF ClaimedFor, Owning
    <3>2. QED BY <2>2, <3>1 DEF CellInv
  <2>5. CASE PublishedFor(i, p)
    BY <2>2, <2>5 DEF PublishedFor, CellInv
  <2>6. CASE DrainedFor(i, p)
    <3>1. DrainedFor(i, p)'
      BY <2>6 DEF DrainedFor, Owning
    <3>2. QED BY <2>2, <3>1 DEF CellInv
  <2>7. QED
    BY <2>1, <2>3, <2>4, <2>5, <2>6
<1>3. ASSUME NEW u \in Threads PROVE WriterInv(u)' /\ ReaderInv(u)'
  <2>1. CASE u = t
    BY <2>1
  <2>2. CASE u # t
    <3>1. WriterInv(u) /\ ReaderInv(u)
      BY DEF IInv
    <3>2. QED BY <2>2, <3>1 DEF WriterInv, ReaderInv, Cell
  <2>3. QED BY <2>1, <2>2
<1>4. CellOwnership'
  BY DEF IInv, CellOwnership, Cell
<1>5. QED
  BY <1>1, <1>2, <1>3, <1>4 DEF IInv

\* When the cell of the next put ticket waits for that ticket, the queue is
\* not full.
LEMMA NextCellFree ==
  ASSUME IInv, seq[Cell(write)] = write
  PROVE  write < read + N
<1> USE NAssumption
<1>1. write \in Nat /\ read \in Nat /\ Cell(write) \in 0 .. N-1
  BY CellType DEF IInv, TypeOK
<1>2. PICK p \in 0 .. write + N :
        /\ Cell(p) = Cell(write)
        /\ \/ FreeFor(Cell(write), p) \/ ClaimedFor(Cell(write), p)
           \/ PublishedFor(Cell(write), p) \/ DrainedFor(Cell(write), p)
  BY <1>1 DEF IInv, CellInv
<1>3. p \in Nat /\ p + 1 # write
  BY <1>1, <1>2, CellSucc
<1>4. FreeFor(Cell(write), p)
  BY <1>1, <1>2, <1>3 DEF ClaimedFor, PublishedFor, DrainedFor
<1>5. QED
  BY <1>1, <1>3, <1>4 DEF FreeFor

\* When the cell of the next get ticket is published, the queue is not empty
\* and the cell holds the value of that ticket.
LEMMA NextCellPublished ==
  ASSUME IInv, seq[Cell(read)] = read + 1
  PROVE  read < write /\ data[Cell(read)] = log[read + 1]
<1> USE NAssumption
<1>1. write \in Nat /\ read \in Nat /\ Cell(read) \in 0 .. N-1
  BY CellType DEF IInv, TypeOK
<1>2. PICK p \in 0 .. write + N :
        /\ Cell(p) = Cell(read)
        /\ \/ FreeFor(Cell(read), p) \/ ClaimedFor(Cell(read), p)
           \/ PublishedFor(Cell(read), p) \/ DrainedFor(Cell(read), p)
  BY <1>1 DEF IInv, CellInv
<1>3. p \in Nat /\ p # read + 1
  BY <1>1, <1>2, CellSucc
<1>4. PublishedFor(Cell(read), p)
  BY <1>1, <1>2, <1>3 DEF FreeFor, ClaimedFor, PublishedFor, DrainedFor
<1>5. QED
  BY <1>1, <1>3, <1>4 DEF PublishedFor

\* Nobody is inside a cell that is about to be claimed for a put ...
LEMMA NextPutCellUnowned ==
  ASSUME IInv, seq[Cell(write)] = write, NEW u \in Threads, pc[u] \in Owning
  PROVE  Cell(pos[u]) # Cell(write)
<1>1. write \in Nat /\ pos[u] \in Nat /\ WriterInv(u) /\ ReaderInv(u)
  BY DEF IInv, TypeOK
<1>2. CASE pc[u] \in Writing
  BY <1>1, <1>2 DEF WriterInv
<1>3. CASE pc[u] \in Reading
  BY <1>1, <1>3, CellSucc DEF ReaderInv
<1>4. QED
  BY <1>2, <1>3 DEF Owning

\* ... or for a get.
LEMMA NextGetCellUnowned ==
  ASSUME IInv, seq[Cell(read)] = read + 1, NEW u \in Threads, pc[u] \in Owning
  PROVE  Cell(pos[u]) # Cell(read)
<1>1. read \in Nat /\ pos[u] \in Nat /\ WriterInv(u) /\ ReaderInv(u)
  BY DEF IInv, TypeOK
<1>2. CASE pc[u] \in Writing
  BY <1>1, <1>2, CellSucc DEF WriterInv
<1>3. CASE pc[u] \in Reading
  BY <1>1, <1>3 DEF ReaderInv
<1>4. QED
  BY <1>2, <1>3 DEF Owning

LEMMA PutClaimInv ==
  ASSUME IInv, TypeOK', NEW t \in Threads, PutClaim(t)
  PROVE  IInv'
<1> USE NAssumption
<1>1. /\ write \in Nat /\ read \in Nat /\ pos[t] = write
      /\ seq[Cell(write)] = write /\ arg[t] \in Values
      /\ log \in Seq(Values) /\ Len(log) = write /\ read <= write
  BY DEF IInv, TypeOK, TicketWindow, WriterInv, PutClaim, PutPC
<1>2. /\ write' = write + 1
      /\ UNCHANGED <<read, seq, data, pos, arg>>
      /\ log' \in Seq(Values) /\ Len(log') = write + 1 /\ log'[write + 1] = arg[t]
      /\ \A k \in 1 .. write : log'[k] = log[k]
  BY <1>1 DEF PutClaim
<1>3. /\ pc'[t] = "put_data" /\ pc[t] = "put_cas"
      /\ \A u \in Threads \ {t} : pc'[u] = pc[u]
  BY DEF PutClaim, Goto, IInv, TypeOK
<1>4. write < read + N
  BY <1>1, NextCellFree
<1>5. (Len(log) = write)' /\ TicketWindow'
  BY <1>1, <1>2, <1>4 DEF IInv, TicketWindow
<1>6. ASSUME NEW i \in 0 .. N-1 PROVE CellInv(i)'
  <2>1. CASE i = Cell(write)
    <3>1. PICK w \in Nat : w = write
      BY <1>1
    <3>2. ClaimedFor(i, w)'
      BY <2>1, <3>1, <1>1, <1>2, <1>3 DEF IInv, TicketWindow, ClaimedFor, Writing
    <3>3. w \in 0 .. (write + N)' /\ Cell(w)' = i
      BY <1>1, <1>2, <2>1, <3>1 DEF Cell
    <3>4. QED
      BY <3>2, <3>3 DEF CellInv
  <2>2. CASE i # Cell(write)
    <3>1. PICK p \in 0 .. write + N :
            /\ Cell(p) = i
            /\ FreeFor(i, p) \/ ClaimedFor(i, p) \/ PublishedFor(i, p) \/ DrainedFor(i, p)
      BY DEF IInv, CellInv
    <3>2. p \in Nat /\ p # write /\ p + N # write
      <4>1. p \in Nat /\ Cell(p + N) = Cell(p)
        BY <1>1, CellLap
      <4>2. QED BY <2>2, <3>1, <4>1
    <3>3. p \in 0 .. (write + N)' /\ Cell(p)' = i
      BY <1>1, <1>2, <3>1 DEF Cell
    <3>4. CASE FreeFor(i, p)
      BY <1>1, <1>2, <3>2, <3>3, <3>4 DEF FreeFor, CellInv
    <3>5. CASE ClaimedFor(i, p)
      <4>1. ClaimedFor(i, p)'
        BY <1>1, <1>2, <1>3, <3>2, <3>5 DEF ClaimedFor, Writing
      <4>2. QED BY <3>3, <4>1 DEF CellInv
    <3>6. CASE PublishedFor(i, p)
      <4>1. PublishedFor(i, p)'
        BY <1>1, <1>2, <3>2, <3>6 DEF PublishedFor
      <4>2. QED BY <3>3, <4>1 DEF CellInv
    <3>7. CASE DrainedFor(i, p)
      <4>1. DrainedFor(i, p)'
        BY <1>1, <1>2, <1>3, <3>2, <3>7 DEF DrainedFor, Reading
      <4>2. QED BY <3>3, <4>1 DEF CellInv
    <3>8. QED
      BY <3>1, <3>4, <3>5, <3>6, <3>7
  <2>3. QED
    BY <2>1, <2>2
<1>7. ASSUME NEW u \in Threads PROVE WriterInv(u)' /\ ReaderInv(u)'
  <2>1. WriterInv(u) /\ ReaderInv(u) /\ pos[u] \in Nat
    BY DEF IInv, TypeOK
  <2>2. CASE u = t
    BY <1>1, <1>2, <1>3, <2>2 DEF IInv, TicketWindow, WriterInv, ReaderInv, Writing, Reading, Cell
  <2>3. CASE u # t
    <3>1. WriterInv(u)'
      BY <1>1, <1>2, <1>3, <2>1, <2>3 DEF WriterInv, Writing, Cell
    <3>2. ASSUME pc[u] \in Reading PROVE write < pos[u] + N
      <4>1. Cell(pos[u] + N) = Cell(pos[u])
        BY <2>1, CellLap
      <4>2. Cell(pos[u]) # Cell(write)
        BY <1>1, <3>2, NextPutCellUnowned DEF Owning
      <4>3. write <= pos[u] + N /\ write # pos[u] + N
        BY <2>1, <3>2, <4>1, <4>2 DEF ReaderInv
      <4>4. QED BY <1>1, <2>1, <4>3
    <3>3. CASE pc[u] \in Reading
      BY <1>1, <1>2, <1>3, <2>1, <2>3, <3>1, <3>2, <3>3 DEF ReaderInv, Reading, Cell
    <3>4. CASE pc[u] \notin Reading
      BY <1>2, <1>3, <2>1, <2>3, <3>1, <3>4 DEF ReaderInv, Reading, Cell
    <3>5. QED BY <3>1, <3>3, <3>4
  <2>4. QED BY <2>2, <2>3
<1>8. CellOwnership'
  <2>1. \A u \in Threads : pc[u] \in Owning => Cell(pos[u]) # Cell(pos[t])
    BY <1>1, NextPutCellUnowned
  <2>2. QED
    BY <1>2, <1>3, <2>1 DEF IInv, CellOwnership, Cell
<1>9. QED
  BY <1>5, <1>6, <1>7, <1>8 DEF IInv

LEMMA GetClaimInv ==
  ASSUME IInv, TypeOK', NEW t \in Threads, GetClaim(t)
  PROVE  IInv'
<1> USE NAssumption
<1>1. /\ write \in Nat /\ read \in Nat /\ pos[t] = read
      /\ seq[Cell(read)] = read + 1
      /\ read < write /\ data[Cell(read)] = log[read + 1]
      /\ write <= read + N /\ Len(log) = write
  BY NextCellPublished DEF IInv, TypeOK, TicketWindow, ReaderInv, GetClaim
<1>2. /\ read' = read + 1
      /\ UNCHANGED <<write, seq, data, pos, arg, log>>
  BY <1>1 DEF GetClaim
<1>3. /\ pc'[t] = "get_data" /\ pc[t] = "get_cas"
      /\ \A u \in Threads \ {t} : pc'[u] = pc[u]
  BY DEF GetClaim, Goto, IInv, TypeOK
<1>4. (Len(log) = write)' /\ TicketWindow'
  BY <1>1, <1>2 DEF TicketWindow
<1>5. ASSUME NEW i \in 0 .. N-1 PROVE CellInv(i)'
  <2>1. CASE i = Cell(read)
    <3>1. PICK r \in Nat : r = read
      BY <1>1
    <3>2. DrainedFor(i, r)'
      BY <2>1, <3>1, <1>1, <1>2, <1>3 DEF DrainedFor, Reading
    <3>3. r \in 0 .. (write + N)' /\ Cell(r)' = i
      BY <1>1, <1>2, <2>1, <3>1 DEF Cell
    <3>4. QED
      BY <3>2, <3>3 DEF CellInv
  <2>2. CASE i # Cell(read)
    <3>1. PICK p \in 0 .. write + N :
            /\ Cell(p) = i
            /\ FreeFor(i, p) \/ ClaimedFor(i, p) \/ PublishedFor(i, p) \/ DrainedFor(i, p)
      BY DEF IInv, CellInv
    <3>2. p \in Nat /\ p # read
      BY <1>1, <2>2, <3>1
    <3>3. p \in 0 .. (write + N)' /\ Cell(p)' = i
      BY <1>1, <1>2, <3>1 DEF Cell
    <3>4. CASE FreeFor(i, p)
      BY <1>1, <1>2, <3>2, <3>3, <3>4 DEF FreeFor, CellInv
    <3>5. CASE ClaimedFor(i, p)
      <4>1. ClaimedFor(i, p)'
        BY <1>1, <1>2, <1>3, <3>2, <3>5 DEF ClaimedFor, Writing
      <4>2. QED BY <3>3, <4>1 DEF CellInv
    <3>6. CASE PublishedFor(i, p)
      <4>1. PublishedFor(i, p)'
        BY <1>1, <1>2, <3>2, <3>6 DEF PublishedFor
      <4>2. QED BY <3>3, <4>1 DEF CellInv
    <3>7. CASE DrainedFor(i, p)
      <4>1. DrainedFor(i, p)'
        BY <1>1, <1>2, <1>3, <3>2, <3>7, SMTT(20) DEF DrainedFor, Reading
      <4>2. QED BY <3>3, <4>1 DEF CellInv
    <3>8. QED
      BY <3>1, <3>4, <3>5, <3>6, <3>7
  <2>3. QED
    BY <2>1, <2>2
<1>6. ASSUME NEW u \in Threads PROVE WriterInv(u)' /\ ReaderInv(u)'
  <2>1. WriterInv(u) /\ ReaderInv(u) /\ pos[u] \in Nat
    BY DEF IInv, TypeOK
  <2>2. CASE u = t
    BY <1>1, <1>2, <1>3, <2>2 DEF WriterInv, ReaderInv, Writing, Reading, Cell
  <2>3. CASE u # t
    <3>1. ReaderInv(u)'
      BY <1>1, <1>2, <1>3, <2>1, <2>3 DEF ReaderInv, Reading, Cell
    <3>2. pc[u] \in Writing => pos[u] # read
      BY <1>1, NextGetCellUnowned DEF Owning
    <3>3. WriterInv(u)'
      BY <1>1, <1>2, <1>3, <2>1, <2>3, <3>2 DEF WriterInv, Writing, Cell
    <3>4. QED BY <3>1, <3>3
  <2>4. QED BY <2>2, <2>3
<1>7. CellOwnership'
  <2>1. \A u \in Threads : pc[u] \in Owning => Cell(pos[u]) # Cell(pos[t])
    BY <1>1, NextGetCellUnowned
  <2>2. QED
    BY <1>2, <1>3, <2>1 DEF IInv, CellOwnership, Cell
<1>8. QED
  BY <1>4, <1>5, <1>6, <1>7 DEF IInv

\* A thread working inside its own cell leaves every other cell as it was.
LEMMA OtherCell ==
  ASSUME IInv, NEW t \in Threads, NEW i \in 0 .. N-1, i # Cell(pos[t]),
         UNCHANGED <<write, read, log>>, seq'[i] = seq[i], data'[i] = data[i],
         \A u \in Threads \ {t} : pc'[u] = pc[u] /\ pos'[u] = pos[u]
  PROVE  CellInv(i)'
<1>1. PICK p \in 0 .. write + N :
        /\ Cell(p) = i
        /\ FreeFor(i, p) \/ ClaimedFor(i, p) \/ PublishedFor(i, p) \/ DrainedFor(i, p)
  BY DEF IInv, CellInv
<1>2. p \in 0 .. (write + N)' /\ Cell(p)' = i /\ pos[t] # p
  BY <1>1 DEF Cell
<1>3. CASE FreeFor(i, p)
  BY <1>2, <1>3 DEF FreeFor, CellInv
<1>4. CASE ClaimedFor(i, p)
  <2>1. ClaimedFor(i, p)'
    BY <1>2, <1>4 DEF ClaimedFor
  <2>2. QED BY <1>2, <2>1 DEF CellInv
<1>5. CASE PublishedFor(i, p)
  BY <1>2, <1>5 DEF PublishedFor, CellInv
<1>6. CASE DrainedFor(i, p)
  <2>1. DrainedFor(i, p)'
    BY <1>2, <1>6 DEF DrainedFor
  <2>2. QED BY <1>2, <2>1 DEF CellInv
<1>7. QED
  BY <1>1, <1>3, <1>4, <1>5, <1>6

\* ... and every other thread's knowledge as it was.
LEMMA OtherThread ==
  ASSUME IInv, NEW t \in Threads, pc[t] \in Owning,
         UNCHANGED <<write, read, log>>,
         \A i \in 0 .. N-1 : i # Cell(pos[t]) => seq'[i] = seq[i] /\ data'[i] = data[i],
         NEW u \in Threads, u # t,
         pc'[u] = pc[u], pos'[u] = pos[u], arg'[u] = arg[u]
  PROVE  WriterInv(u)' /\ ReaderInv(u)'
<1>1. /\ WriterInv(u) /\ ReaderInv(u) /\ pos[u] \in Nat
      /\ Cell(pos[u]) \in 0 .. N-1
  BY CellType DEF IInv, TypeOK
<1>2. pc[u] \in Owning => Cell(pos[u]) # Cell(pos[t])
  BY DEF IInv, CellOwnership
<1>3. pc[u] = "put_cas" /\ pos[u] = write => Cell(pos[u]) # Cell(pos[t])
  BY <1>1, NextPutCellUnowned DEF WriterInv
<1>4. pc[u] = "get_cas" /\ pos[u] = read => Cell(pos[u]) # Cell(pos[t])
  BY <1>1, NextGetCellUnowned DEF ReaderInv
<1>5. WriterInv(u)'
  BY <1>1, <1>2, <1>3 DEF WriterInv, Writing, Owning, Cell
<1>6. ReaderInv(u)'
  BY <1>1, <1>2, <1>4 DEF ReaderInv, Reading, Owning, Cell
<1>7. QED
  BY <1>5, <1>6

LEMMA PutDataInv ==
  ASSUME IInv, TypeOK', NEW t \in Threads, PutData(t)
  PROVE  IInv'
<1>1. /\ pc[t] = "put_data" /\ pos[t] \in Nat /\ write \in Nat /\ N \in Nat
      /\ WriterInv(t) /\ Cell(pos[t]) \in 0 .. N-1
      /\ data \in [0 .. N-1 -> Values \cup {None}]
  BY CellType, NAssumption DEF IInv, TypeOK, PutData
<1>2. /\ UNCHANGED <<write, read, seq, pos, arg, log>>
      /\ pc'[t] = "put_publish"
      /\ \A u \in Threads \ {t} : pc'[u] = pc[u]
      /\ data'[Cell(pos[t])] = arg[t]
      /\ \A i \in 0 .. N-1 : i # Cell(pos[t]) => data'[i] = data[i]
  BY <1>1 DEF PutData, Goto, IInv, TypeOK
<1>3. (Len(log) = write)' /\ TicketWindow'
  BY <1>2 DEF IInv, TicketWindow
<1>4. ASSUME NEW i \in 0 .. N-1 PROVE CellInv(i)'
  <2>1. CASE i = Cell(pos[t])
    <3>1. PICK p \in Nat : p = pos[t]
      BY <1>1
    <3>2. ClaimedFor(i, p)'
      BY <1>1, <1>2, <2>1, <3>1 DEF ClaimedFor, WriterInv, Writing
    <3>3. p \in 0 .. (write + N)' /\ Cell(p)' = i
      BY <1>1, <1>2, <2>1, <3>1 DEF WriterInv, Writing, Cell
    <3>4. QED BY <3>2, <3>3 DEF CellInv
  <2>2. QED
    BY <1>2, <2>1, OtherCell
<1>5. ASSUME NEW u \in Threads PROVE WriterInv(u)' /\ ReaderInv(u)'
  <2>1. CASE u = t
    BY <1>1, <1>2, <2>1 DEF WriterInv, ReaderInv, Writing, Reading, Cell
  <2>2. QED
    BY <1>1, <1>2, <2>1, OtherThread DEF Owning, Writing
<1>6. CellOwnership'
  BY <1>1, <1>2 DEF IInv, CellOwnership, Owning, Writing, Cell
<1>7. QED
  BY <1>3, <1>4, <1>5, <1>6 DEF IInv

LEMMA PutPublishInv ==
  ASSUME IInv, TypeOK', NEW t \in Threads, PutPublish(t)
  PROVE  IInv'
<1>1. /\ pc[t] = "put_publish" /\ pos[t] \in Nat /\ write \in Nat /\ N \in Nat
      /\ WriterInv(t) /\ Cell(pos[t]) \in 0 .. N-1
      /\ seq \in [0 .. N-1 -> Nat]
  BY CellType, NAssumption DEF IInv, TypeOK, PutPublish
<1>2. /\ UNCHANGED <<write, read, data, log>>
      /\ pc'[t] = "idle"
      /\ \A u \in Threads \ {t} : /\ pc'[u] = pc[u] /\ pos'[u] = pos[u]
                                  /\ arg'[u] = arg[u]
      /\ seq'[Cell(pos[t])] = pos[t] + 1
      /\ \A i \in 0 .. N-1 : i # Cell(pos[t]) => seq'[i] = seq[i]
  BY <1>1 DEF PutPublish, Goto, IInv, TypeOK
<1>3. (Len(log) = write)' /\ TicketWindow'
  BY <1>2 DEF IInv, TicketWindow
<1>4. ASSUME NEW i \in 0 .. N-1 PROVE CellInv(i)'
  <2>1. CASE i = Cell(pos[t])
    <3>1. PICK p \in Nat : p = pos[t]
      BY <1>1
    <3>2. PublishedFor(i, p)'
      BY <1>1, <1>2, <2>1, <3>1 DEF PublishedFor, WriterInv, Writing
    <3>3. p \in 0 .. (write + N)' /\ Cell(p)' = i
      BY <1>1, <1>2, <2>1, <3>1 DEF WriterInv, Writing, Cell
    <3>4. QED BY <3>2, <3>3 DEF CellInv
  <2>2. QED
    BY <1>2, <2>1, OtherCell
<1>5. ASSUME NEW u \in Threads PROVE WriterInv(u)' /\ ReaderInv(u)'
  <2>1. CASE u = t
    BY <1>1, <1>2, <2>1 DEF WriterInv, ReaderInv, Writing, Reading
  <2>2. QED
    BY <1>1, <1>2, <2>1, OtherThread DEF Owning, Writing
<1>6. CellOwnership'
  BY <1>1, <1>2 DEF IInv, CellOwnership, Owning, Writing, Reading, Cell
<1>7. QED
  BY <1>3, <1>4, <1>5, <1>6 DEF IInv

LEMMA GetDataInv ==
  ASSUME IInv, TypeOK', NEW t \in Threads, GetData(t)
  PROVE  IInv'
<1>1. /\ pc[t] = "get_data" /\ pos[t] \in Nat /\ write \in Nat /\ read \in Nat
      /\ N \in Nat /\ read <= write
      /\ ReaderInv(t) /\ Cell(pos[t]) \in 0 .. N-1
  BY CellType, NAssumption DEF IInv, TypeOK, TicketWindow, GetData
<1>2. /\ UNCHANGED <<write, read, seq, data, pos, arg, log>>
      /\ pc'[t] = "get_release"
      /\ \A u \in Threads \ {t} : pc'[u] = pc[u]
  BY DEF GetData, Goto, IInv, TypeOK
<1>3. (Len(log) = write)' /\ TicketWindow'
  BY <1>2 DEF IInv, TicketWindow
<1>4. ASSUME NEW i \in 0 .. N-1 PROVE CellInv(i)'
  <2>1. CASE i = Cell(pos[t])
    <3>1. PICK p \in Nat : p = pos[t]
      BY <1>1
    <3>2. DrainedFor(i, p)'
      BY <1>1, <1>2, <2>1, <3>1 DEF DrainedFor, ReaderInv, Reading
    <3>3. p \in 0 .. (write + N)' /\ Cell(p)' = i
      BY <1>1, <1>2, <2>1, <3>1 DEF ReaderInv, Reading, Cell
    <3>4. QED BY <3>2, <3>3 DEF CellInv
  <2>2. QED
    BY <1>2, <2>1, OtherCell
<1>5. ASSUME NEW u \in Threads PROVE WriterInv(u)' /\ ReaderInv(u)'
  <2>1. CASE u = t
    BY <1>1, <1>2, <2>1 DEF WriterInv, ReaderInv, Writing, Reading, Cell
  <2>2. QED
    BY <1>1, <1>2, <2>1, OtherThread DEF Owning, Reading
<1>6. CellOwnership'
  BY <1>1, <1>2 DEF IInv, CellOwnership, Owning, Reading, Cell
<1>7. QED
  BY <1>3, <1>4, <1>5, <1>6 DEF IInv

LEMMA GetReleaseInv ==
  ASSUME IInv, TypeOK', NEW t \in Threads, GetRelease(t)
  PROVE  IInv'
<1>1. /\ pc[t] = "get_release" /\ pos[t] \in Nat /\ write \in Nat /\ read \in Nat
      /\ N \in Nat /\ read <= write
      /\ ReaderInv(t) /\ Cell(pos[t]) \in 0 .. N-1
      /\ seq \in [0 .. N-1 -> Nat]
  BY CellType, NAssumption DEF IInv, TypeOK, TicketWindow, GetRelease
<1>2. /\ UNCHANGED <<write, read, data, arg, log>>
      /\ pc'[t] = "idle"
      /\ \A u \in Threads \ {t} : pc'[u] = pc[u] /\ pos'[u] = pos[u]
      /\ seq'[Cell(pos[t])] = pos[t] + N
      /\ \A i \in 0 .. N-1 : i # Cell(pos[t]) => seq'[i] = seq[i]
  BY <1>1 DEF GetRelease, Goto, IInv, TypeOK
<1>3. (Len(log) = write)' /\ TicketWindow'
  BY <1>2 DEF IInv, TicketWindow
<1>4. ASSUME NEW i \in 0 .. N-1 PROVE CellInv(i)'
  <2>1. CASE i = Cell(pos[t])
    <3>1. PICK p \in Nat : p = pos[t] + N
      BY <1>1
    <3>2. Cell(p) = i
      BY <1>1, <2>1, <3>1, CellLap
    <3>3. FreeFor(i, p)'
      BY <1>1, <1>2, <2>1, <3>1 DEF FreeFor, ReaderInv, Reading
    <3>4. p \in 0 .. (write + N)' /\ Cell(p)' = i
      <4>1. Cell(p)' = Cell(p)
        BY DEF Cell
      <4>2. p \in 0 .. (write + N)'
        <5>1. write \in Nat /\ pos[t] \in Nat /\ pos[t] <= write /\ write' = write /\ N \in Nat
          BY <1>1, <1>2, NAssumption DEF ReaderInv, Reading, IInv, TypeOK
        <5>2. QED BY <3>1, <5>1
      <4>3. QED BY <3>2, <4>1, <4>2
    <3>5. QED BY <3>3, <3>4 DEF CellInv
  <2>2. QED
    BY <1>2, <2>1, OtherCell
<1>5. ASSUME NEW u \in Threads PROVE WriterInv(u)' /\ ReaderInv(u)'
  <2>1. CASE u = t
    BY <1>1, <1>2, <2>1 DEF WriterInv, ReaderInv, Writing, Reading
  <2>2. QED
    BY <1>1, <1>2, <2>1, OtherThread DEF Owning, Reading
<1>6. CellOwnership'
  BY <1>1, <1>2 DEF IInv, CellOwnership, Owning, Writing, Reading, Cell
<1>7. QED
  BY <1>3, <1>4, <1>5, <1>6 DEF IInv

LEMMA NextInv == IInv /\ [Next]_vars => IInv'
<1> SUFFICES ASSUME IInv, [Next]_vars PROVE IInv'
  OBVIOUS
<1>1. TypeOK /\ TypeOK'
  BY NextType DEF IInv
<1>2. ASSUME NEW t \in Threads, NEW v \in Values, CallPut(t, v) PROVE IInv'
  <2>1. /\ UNCHANGED <<write, read, seq, data, log>>
        /\ pc[t] \notin Owning /\ pc'[t] = "put_pos"
        /\ \A u \in Threads \ {t} : pc'[u] = pc[u] /\ pos'[u] = pos[u] /\ arg'[u] = arg[u]
    BY <1>1, <1>2 DEF CallPut, Goto, TypeOK, Owning, Writing, Reading
  <2>2. pc'[t] \notin Owning /\ WriterInv(t)' /\ ReaderInv(t)'
    BY <2>1 DEF WriterInv, ReaderInv, Owning, Writing, Reading
  <2>3. QED BY <1>1, <2>1, <2>2, LocalStep
<1>3. ASSUME NEW t \in Threads, CallGet(t) PROVE IInv'
  <2>1. /\ UNCHANGED <<write, read, seq, data, log>>
        /\ pc[t] \notin Owning /\ pc'[t] = "get_pos"
        /\ \A u \in Threads \ {t} : pc'[u] = pc[u] /\ pos'[u] = pos[u] /\ arg'[u] = arg[u]
    BY <1>1, <1>3 DEF CallGet, Goto, TypeOK, Owning, Writing, Reading
  <2>2. pc'[t] \notin Owning /\ WriterInv(t)' /\ ReaderInv(t)'
    BY <2>1 DEF WriterInv, ReaderInv, Owning, Writing, Reading
  <2>3. QED BY <1>1, <2>1, <2>2, LocalStep
<1>4. ASSUME NEW t \in Threads, Step(t) PROVE IInv'
  <2>1. CASE PutLoadPos(t) \/ PutClaimLost(t)
    <3>1. /\ UNCHANGED <<write, read, seq, data, log>>
          /\ pc[t] \notin Owning /\ pc'[t] = "put_seq" /\ pos'[t] = write
          /\ \A u \in Threads \ {t} : pc'[u] = pc[u] /\ pos'[u] = pos[u] /\ arg'[u] = arg[u]
      BY <1>1, <2>1 DEF PutLoadPos, PutClaimLost, Goto, TypeOK, Owning, Writing, Reading
    <3>2. pc'[t] \notin Owning /\ WriterInv(t)' /\ ReaderInv(t)'
      BY <1>1, <3>1 DEF TypeOK, WriterInv, ReaderInv, Owning, Writing, Reading
    <3>3. QED BY <1>1, <3>1, <3>2, LocalStep
  <2>2. CASE GetLoadPos(t) \/ GetClaimLost(t)
    <3>1. /\ UNCHANGED <<write, read, seq, data, log>>
          /\ pc[t] \notin Owning /\ pc'[t] = "get_seq" /\ pos'[t] = read
          /\ \A u \in Threads \ {t} : pc'[u] = pc[u] /\ pos'[u] = pos[u] /\ arg'[u] = arg[u]
      BY <1>1, <2>2 DEF GetLoadPos, GetClaimLost, Goto, TypeOK, Owning, Writing, Reading
    <3>2. pc'[t] \notin Owning /\ WriterInv(t)' /\ ReaderInv(t)'
      BY <1>1, <3>1 DEF TypeOK, WriterInv, ReaderInv, Owning, Writing, Reading
    <3>3. QED BY <1>1, <3>1, <3>2, LocalStep
  <2>3. CASE PutSeqMatches(t)
    <3>1. /\ UNCHANGED <<write, read, seq, data, log, pos, arg>>
          /\ pc[t] \notin Owning /\ pc'[t] = "put_cas"
          /\ \A u \in Threads \ {t} : pc'[u] = pc[u]
      BY <1>1, <2>3 DEF PutSeqMatches, Goto, TypeOK, Owning, Writing, Reading
    <3>2. pos[t] <= write /\ seq[Cell(pos[t])] = pos[t]
      BY <2>3 DEF IInv, WriterInv, PutSeqMatches
    <3>3. pc'[t] \notin Owning /\ WriterInv(t)' /\ ReaderInv(t)'
      BY <3>1, <3>2 DEF WriterInv, ReaderInv, Owning, Writing, Reading, Cell
    <3>4. QED BY <1>1, <3>1, <3>3, LocalStep
  <2>4. CASE GetSeqMatches(t)
    <3>1. /\ UNCHANGED <<write, read, seq, data, log, pos, arg>>
          /\ pc[t] \notin Owning /\ pc'[t] = "get_cas"
          /\ \A u \in Threads \ {t} : pc'[u] = pc[u]
      BY <1>1, <2>4 DEF GetSeqMatches, Goto, TypeOK, Owning, Writing, Reading
    <3>2. pos[t] <= read /\ seq[Cell(pos[t])] = pos[t] + 1
      BY <2>4 DEF IInv, ReaderInv, GetSeqMatches
    <3>3. pc'[t] \notin Owning /\ WriterInv(t)' /\ ReaderInv(t)'
      BY <3>1, <3>2 DEF WriterInv, ReaderInv, Owning, Writing, Reading, Cell
    <3>4. QED BY <1>1, <3>1, <3>3, LocalStep
  <2>5. CASE PutFails(t) \/ GetFails(t) \/ PutSeqAhead(t) \/ GetSeqAhead(t)
    <3>1. /\ UNCHANGED <<write, read, seq, data, log>>
          /\ pc[t] \notin Owning /\ pc'[t] \in {"idle", "put_pos", "get_pos"}
          /\ \A u \in Threads \ {t} : pc'[u] = pc[u] /\ pos'[u] = pos[u] /\ arg'[u] = arg[u]
      BY <1>1, <2>5 DEF PutFails, GetFails, PutSeqAhead, GetSeqAhead, Goto, TypeOK,
                        Owning, Writing, Reading
    <3>2. pc'[t] \notin Owning /\ WriterInv(t)' /\ ReaderInv(t)'
      BY <3>1 DEF WriterInv, ReaderInv, Owning, Writing, Reading
    <3>3. QED BY <1>1, <3>1, <3>2, LocalStep
  <2>6. QED
    BY <1>1, <1>4, <2>1, <2>2, <2>3, <2>4, <2>5, PutClaimInv, PutDataInv,
       PutPublishInv, GetClaimInv, GetDataInv, GetReleaseInv DEF Step
<1>5. CASE UNCHANGED vars
  BY <1>5 DEF vars, IInv, TypeOK, TicketWindow, CellInv, FreeFor, ClaimedFor,
              PublishedFor, DrainedFor, WriterInv, ReaderInv, CellOwnership, Cell
<1>6. QED
  BY <1>2, <1>3, <1>4, <1>5 DEF Next

LEMMA Invariance == Spec => []IInv
  BY InitInv, NextInv, PTL DEF Spec

\* Mutual exclusion on every cell of the ring: the non-atomic accesses to
\* cell->data never race.
THEOREM CellsExclusive == Spec => []CellOwnership
<1>1. IInv => CellOwnership
  BY DEF IInv
<1>2. QED
  BY <1>1, Invariance, PTL

\* Consumers never overtake producers and producers never lap consumers.
THEOREM TicketsInWindow == Spec => []TicketWindow
<1>1. IInv => TicketWindow
  BY DEF IInv
<1>2. QED
  BY <1>1, Invariance, PTL

\* A consumer copies the value that was put under its own ticket.
THEOREM ReadersGetTheirTicket == Spec => []ReadsOwnTicket
<1>1. IInv => ReadsOwnTicket
  <2> SUFFICES ASSUME IInv, NEW t \in Threads, pc[t] = "get_data"
               PROVE  pos[t] < Len(log) /\ data[Cell(pos[t])] = log[pos[t] + 1]
    BY DEF ReadsOwnTicket
  <2>1. /\ ReaderInv(t) /\ Len(log) = write /\ read <= write
        /\ pos[t] \in Nat /\ read \in Nat /\ write \in Nat
    BY DEF IInv, TypeOK, TicketWindow
  <2>2. QED
    BY <2>1 DEF ReaderInv, Reading
<1>2. QED
  BY <1>1, Invariance, PTL

-----------------------------------------------------------------------------
(***************************************************************************)
(* What callers of the queue see: a refused call was right to be refused,  *)
(* and the ring implements the first-in first-out queue of AbstractQueue.  *)
(***************************************************************************)
\* Two tickets of one cell are at least a lap apart.
LEMMA CellApart ==
  ASSUME NEW p \in Nat, NEW q \in Nat, Cell(p) = Cell(q), p < q
  PROVE  p + N <= q
<1> DEFINE k == p \div N  m == q \div N  r == p % N
<1>1. k \in Int /\ r \in 0 .. N-1 /\ p = N * k + r
  BY Division
<1>2. m \in Int /\ q = N * m + r
  BY Division DEF Cell
<1> HIDE DEF k, m, r
<1>3. N * (m - k) = q - p
  BY <1>1, <1>2, NAssumption, Z3
<1>4. m - k >= 1
  <2>1. SUFFICES ASSUME m - k <= 0 PROVE FALSE
    BY <1>1, <1>2
  <2>2. N * (m - k) <= 0
    BY <2>1, <1>1, <1>2, NAssumption, Z3
  <2>3. QED
    BY <2>2, <1>3
<1>5. N * (m - k) >= N
  BY <1>1, <1>2, <1>4, NAssumption, Z3
<1>6. QED
  BY <1>3, <1>5, NAssumption

\* The ticket a cell serves, and which of the four phases it is in.
LEMMA CellPhase ==
  ASSUME IInv, NEW q \in Nat
  PROVE  \E p \in Nat :
           /\ Cell(p) = Cell(q)
           /\ \/ FreeFor(Cell(q), p) \/ ClaimedFor(Cell(q), p)
              \/ PublishedFor(Cell(q), p) \/ DrainedFor(Cell(q), p)
<1>1. Cell(q) \in 0 .. N-1 /\ write \in Nat
  BY CellType DEF IInv, TypeOK
<1>2. CellInv(Cell(q))
  BY <1>1 DEF IInv
<1>3. QED
  BY <1>1, <1>2, NAssumption DEF CellInv

\* A put is refused only when the ring is full or a consumer is still inside
\* a cell it has claimed.
LEMMA RefusedPut ==
  ASSUME IInv, NEW t \in Threads, PutFails(t)
  PROVE  write - read = N \/ \E u \in Threads : pc[u] \in Reading
<1>1. /\ pos[t] \in Nat /\ write \in Nat /\ read \in Nat
      /\ write <= read + N /\ pos[t] <= write /\ seq[Cell(pos[t])] < pos[t]
  BY DEF IInv, TypeOK, TicketWindow, WriterInv, PutFails
<1>2. PICK p \in Nat :
        /\ Cell(p) = Cell(pos[t])
        /\ \/ FreeFor(Cell(pos[t]), p) \/ ClaimedFor(Cell(pos[t]), p)
           \/ PublishedFor(Cell(pos[t]), p) \/ DrainedFor(Cell(pos[t]), p)
  BY <1>1, CellPhase
<1>3. p < pos[t]
  BY <1>1, <1>2 DEF FreeFor, ClaimedFor, PublishedFor, DrainedFor
<1>4. p + N <= pos[t]
  BY <1>1, <1>2, <1>3, CellApart
<1>5. CASE DrainedFor(Cell(pos[t]), p)
  BY <1>5 DEF DrainedFor
<1>6. CASE FreeFor(Cell(pos[t]), p)
  BY <1>1, <1>3, <1>6 DEF FreeFor
<1>7. CASE ClaimedFor(Cell(pos[t]), p) \/ PublishedFor(Cell(pos[t]), p)
  <2>1. read <= p
    BY <1>7 DEF ClaimedFor, PublishedFor
  <2>2. QED
    BY <1>1, <1>4, <2>1, NAssumption
<1>8. QED
  BY <1>2, <1>5, <1>6, <1>7

\* A get is refused only when nothing is queued or a producer is still inside
\* a cell it has claimed.
LEMMA RefusedGet ==
  ASSUME IInv, NEW t \in Threads, GetFails(t)
  PROVE  read = write \/ \E u \in Threads : pc[u] \in Writing
<1>1. /\ pos[t] \in Nat /\ write \in Nat /\ read \in Nat
      /\ read <= write /\ pos[t] <= read /\ seq[Cell(pos[t])] < pos[t] + 1
  BY DEF IInv, TypeOK, TicketWindow, ReaderInv, GetFails
<1>2. PICK p \in Nat :
        /\ Cell(p) = Cell(pos[t])
        /\ \/ FreeFor(Cell(pos[t]), p) \/ ClaimedFor(Cell(pos[t]), p)
           \/ PublishedFor(Cell(pos[t]), p) \/ DrainedFor(Cell(pos[t]), p)
  BY <1>1, CellPhase
<1>3. CASE FreeFor(Cell(pos[t]), p)
  BY <1>1, <1>3 DEF FreeFor
<1>4. CASE ClaimedFor(Cell(pos[t]), p)
  BY <1>4 DEF ClaimedFor
<1>5. CASE PublishedFor(Cell(pos[t]), p)
  BY <1>1, <1>5 DEF PublishedFor
<1>6. CASE DrainedFor(Cell(pos[t]), p)
  <2>1. p < pos[t] /\ write <= p + N
    BY <1>1, <1>6 DEF DrainedFor
  <2>2. p + N <= pos[t]
    BY <1>1, <1>2, <2>1, CellApart
  <2>3. QED
    BY <1>1, <2>1, <2>2, NAssumption
<1>7. QED
  BY <1>2, <1>3, <1>4, <1>5, <1>6

\* Whenever lf_queue_put returns false, the queue is full or a get is between
\* its claim and its release.
LEMMA FullOnlyWhenFull == Spec => FullIsHonest
<1>1. IInv => \A t \in Threads : PutFails(t) =>
                \/ write - read = N
                \/ \E u \in Threads : pc[u] \in Reading
  BY RefusedPut
<1>2. QED
  BY <1>1, Invariance, PTL DEF FullIsHonest

\* Whenever lf_queue_get returns false, the queue is empty or a put is between
\* its claim and its publication.
LEMMA EmptyOnlyWhenEmpty == Spec => EmptyIsHonest
<1>1. IInv => \A t \in Threads : GetFails(t) =>
                \/ read = write
                \/ \E u \in Threads : pc[u] \in Writing
  BY RefusedGet
<1>2. QED
  BY <1>1, Invariance, PTL DEF EmptyIsHonest

\* Both: lf_queue_put and lf_queue_get refuse only then.
THEOREM RefusedOnlyThen == Spec => RefusalsAreHonest
BY FullOnlyWhenFull, EmptyOnlyWhenEmpty DEF RefusalsAreHonest

-----------------------------------------------------------------------------
(***************************************************************************)
(* The refinement mapping of LfQueue!Abs, and what each step does to it.   *)
(***************************************************************************)
Queued == SubSeq(log, read + 1, write)
Hand == [t \in Threads |-> IF pc[t] = "get_data" THEN log[pos[t] + 1] ELSE got[t]]

\* Steps that neither claim a cell nor copy a value leave both alone.
LEMMA QuietStep ==
  ASSUME TypeOK, NEW t \in Threads,
         UNCHANGED <<log, read, write, got>>, pc[t] # "get_data",
         pc' \in [Threads -> {"idle"} \cup PutPC \cup GetPC], pc'[t] # "get_data",
         \A u \in Threads \ {t} : pc'[u] = pc[u] /\ pos'[u] = pos[u]
  PROVE  Queued' = Queued /\ Hand' = Hand
<1>1. Queued' = Queued
  BY DEF Queued
<1>2. ASSUME NEW u \in Threads
      PROVE  (IF pc'[u] = "get_data" THEN log'[pos'[u] + 1] ELSE got'[u])
               = (IF pc[u] = "get_data" THEN log[pos[u] + 1] ELSE got[u])
  <2>1. CASE u = t
    BY <2>1
  <2>2. CASE u # t
    BY <2>2
  <2>3. QED
    BY <2>1, <2>2
<1>3. QED
  BY <1>1, <1>2 DEF Hand

\* The claim of a put appends its value.
LEMMA PutClaimRefines ==
  ASSUME IInv, NEW t \in Threads, PutClaim(t)
  PROVE  /\ arg[t] \in Values /\ Len(Queued) < N
         /\ Queued' = Append(Queued, arg[t])
         /\ Hand' = Hand
<1>1. /\ write \in Nat /\ read \in Nat /\ log \in Seq(Values) /\ Len(log) = write
      /\ read <= write /\ arg[t] \in Values /\ pos[t] = write
      /\ seq[Cell(write)] = write
  BY DEF IInv, TypeOK, TicketWindow, WriterInv, PutClaim, PutPC
<1>2. write < read + N
  BY <1>1, NextCellFree
<1>3. /\ log' = Append(log, arg[t]) /\ write' = write + 1 /\ read' = read
      /\ got' = got /\ pos' = pos
  BY <1>1 DEF PutClaim
<1>4. /\ log' \in Seq(Values) /\ Len(log') = write + 1
      /\ \A i \in 1 .. write : log'[i] = log[i]
      /\ log'[write + 1] = arg[t]
  BY <1>1, <1>3, AppendProperties
<1>5. /\ Queued \in Seq(Values) /\ Len(Queued) = write - read
      /\ \A i \in 1 .. write - read : Queued[i] = log[read + i]
  <2>1. \A i \in read + 1 .. write : log[i] \in Values
    BY <1>1, ElementOfSeq
  <2>2. read + 1 \in Int /\ write \in Int
    BY <1>1
  <2>3. /\ SubSeq(log, read + 1, write) \in Seq(Values)
        /\ Len(SubSeq(log, read + 1, write))
             = IF read + 1 <= write THEN write - (read + 1) + 1 ELSE 0
        /\ \A i \in 1 .. write - (read + 1) + 1 :
             SubSeq(log, read + 1, write)[i] = log[(read + 1) + i - 1]
    BY <2>1, <2>2, SubSeqProperties
  <2>4. QED
    BY <2>3, <1>1 DEF Queued
<1>6. /\ Queued' \in Seq(Values) /\ Len(Queued') = write + 1 - read
      /\ \A i \in 1 .. write + 1 - read : Queued'[i] = log'[read + i]
  <2>1. \A i \in read + 1 .. write + 1 : log'[i] \in Values
    BY <1>1, <1>4, ElementOfSeq
  <2>2. read + 1 \in Int /\ write + 1 \in Int
    BY <1>1
  <2>3. /\ SubSeq(log', read + 1, write + 1) \in Seq(Values)
        /\ Len(SubSeq(log', read + 1, write + 1))
             = IF read + 1 <= write + 1 THEN (write + 1) - (read + 1) + 1 ELSE 0
        /\ \A i \in 1 .. (write + 1) - (read + 1) + 1 :
             SubSeq(log', read + 1, write + 1)[i] = log'[(read + 1) + i - 1]
    BY <2>1, <2>2, SubSeqProperties
  <2>4. QED
    BY <2>3, <1>1, <1>3 DEF Queued
<1>7. Queued' = Append(Queued, arg[t])
  <2>1. /\ Append(Queued, arg[t]) \in Seq(Values)
        /\ Len(Append(Queued, arg[t])) = write - read + 1
        /\ \A i \in 1 .. write - read : Append(Queued, arg[t])[i] = Queued[i]
        /\ Append(Queued, arg[t])[write - read + 1] = arg[t]
    BY <1>1, <1>5, AppendProperties
  <2>2. Len(Queued') = Len(Append(Queued, arg[t]))
    BY <1>1, <1>6, <2>1
  <2>3. ASSUME NEW i \in 1 .. Len(Queued')
        PROVE  Queued'[i] = Append(Queued, arg[t])[i]
    <3>1. CASE i = write - read + 1
      BY <3>1, <1>1, <1>4, <1>6, <2>1
    <3>2. CASE i \in 1 .. write - read
      BY <3>2, <1>1, <1>4, <1>5, <1>6, <2>1
    <3>3. i \in 1 .. write + 1 - read
      BY <1>6
    <3>4. i = write - read + 1 \/ i \in 1 .. write - read
      BY <3>3, <1>1
    <3>5. QED
      BY <3>1, <3>2, <3>4
  <2>4. QED
    BY <1>6, <2>1, <2>2, <2>3, SeqEqual
<1>8. Hand' = Hand
  <2>1. ASSUME NEW u \in Threads
        PROVE  (IF pc'[u] = "get_data" THEN log'[pos'[u] + 1] ELSE got'[u])
                 = (IF pc[u] = "get_data" THEN log[pos[u] + 1] ELSE got[u])
    <3>1. CASE u = t
      BY <3>1, <1>3 DEF PutClaim, Goto, IInv, TypeOK
    <3>2. CASE u # t /\ pc[u] = "get_data"
      <4>1. pos[u] \in Nat /\ pos[u] < read
        BY <3>2 DEF IInv, TypeOK, ReaderInv, Reading
      <4>2. pc'[u] = pc[u]
        BY <3>2 DEF PutClaim, Goto, IInv, TypeOK
      <4>3. pos[u] + 1 \in 1 .. write
        BY <4>1, <1>1
      <4>4. QED
        BY <4>2, <4>3, <1>3, <1>4
    <3>3. CASE u # t /\ pc[u] # "get_data"
      BY <3>3, <1>3 DEF PutClaim, Goto, IInv, TypeOK
    <3>4. QED
      BY <3>1, <3>2, <3>3
  <2>2. QED
    BY <2>1 DEF Hand
<1>9. QED
  BY <1>1, <1>2, <1>5, <1>7, <1>8, NAssumption

\* The claim of a get takes the first value.
LEMMA GetClaimRefines ==
  ASSUME IInv, NEW t \in Threads, GetClaim(t)
  PROVE  /\ Queued # <<>>
         /\ Queued' = Tail(Queued)
         /\ Hand' = [Hand EXCEPT ![t] = Head(Queued)]
<1>1. /\ write \in Nat /\ read \in Nat /\ log \in Seq(Values) /\ Len(log) = write
      /\ pos[t] = read /\ seq[Cell(read)] = read + 1
  BY DEF IInv, TypeOK, ReaderInv, GetClaim
<1>2. read < write
  BY <1>1, NextCellPublished
<1>3. /\ log' = log /\ write' = write /\ read' = read + 1 /\ got' = got /\ pos' = pos
      /\ pc' = [pc EXCEPT ![t] = "get_data"]
  BY <1>1 DEF GetClaim, Goto
<1>4. /\ Head(Queued) = log[read + 1]
      /\ Tail(Queued) = SubSeq(log, (read + 1) + 1, write)
  <2>1. read + 1 \in 1 .. Len(log) /\ write \in read + 1 .. Len(log)
    BY <1>1, <1>2
  <2>2. QED
    BY <2>1, <1>1, HeadTailOfSubSeq DEF Queued
<1>5. Queued # <<>>
  <2>1. \A i \in read + 1 .. write : log[i] \in Values
    BY <1>1, ElementOfSeq
  <2>2. Len(SubSeq(log, read + 1, write))
          = IF read + 1 <= write THEN write - (read + 1) + 1 ELSE 0
    BY <2>1, <1>1, SubSeqProperties
  <2>3. Len(Queued) > 0
    BY <2>2, <1>1, <1>2 DEF Queued
  <2>4. QED
    BY <2>3
<1>6. Queued' = Tail(Queued)
  BY <1>3, <1>4 DEF Queued
<1>7. Hand' = [Hand EXCEPT ![t] = Head(Queued)]
  <2>1. ASSUME NEW u \in Threads
        PROVE  (IF pc'[u] = "get_data" THEN log'[pos'[u] + 1] ELSE got'[u])
                 = IF u = t THEN Head(Queued)
                   ELSE IF pc[u] = "get_data" THEN log[pos[u] + 1] ELSE got[u]
    <3>1. CASE u = t
      BY <3>1, <1>1, <1>3, <1>4 DEF IInv, TypeOK
    <3>2. CASE u # t
      BY <3>2, <1>3 DEF IInv, TypeOK
    <3>3. QED
      BY <3>1, <3>2
  <2>2. QED
    BY <2>1 DEF Hand
<1>8. QED
  BY <1>5, <1>6, <1>7

\* The copy hands over what the claim had taken already.
LEMMA GetDataRefines ==
  ASSUME IInv, NEW t \in Threads, GetData(t)
  PROVE  Queued' = Queued /\ Hand' = Hand
<1>1. /\ pc[t] = "get_data" /\ pos[t] \in Nat /\ got \in [Threads -> Values \cup {None}]
      /\ data[Cell(pos[t])] = log[pos[t] + 1]
  <2>1. pc[t] = "get_data" /\ ReaderInv(t) /\ pos[t] \in Nat
        /\ got \in [Threads -> Values \cup {None}]
    BY DEF IInv, TypeOK, GetData
  <2>2. QED
    BY <2>1 DEF ReaderInv, Reading
<1>2. /\ log' = log /\ write' = write /\ read' = read /\ pos' = pos
      /\ got' = [got EXCEPT ![t] = data[Cell(pos[t])]]
      /\ pc' = [pc EXCEPT ![t] = "get_release"]
  BY DEF GetData, Goto
<1>3. ASSUME NEW u \in Threads
      PROVE  (IF pc'[u] = "get_data" THEN log'[pos'[u] + 1] ELSE got'[u])
               = (IF pc[u] = "get_data" THEN log[pos[u] + 1] ELSE got[u])
  <2>1. CASE u = t
    BY <2>1, <1>1, <1>2 DEF IInv, TypeOK
  <2>2. CASE u # t
    BY <2>2, <1>2 DEF IInv, TypeOK
  <2>3. QED
    BY <2>1, <2>2
<1>4. QED
  BY <1>2, <1>3 DEF Queued, Hand

\* Every step is a put or a get of the abstract queue, or changes nothing of it.
LEMMA StepRefines ==
  ASSUME IInv, [Next]_vars
  PROVE  \/ \E v \in Values : Len(Queued) < N /\ Queued' = Append(Queued, v) /\ Hand' = Hand
         \/ \E t \in Threads : /\ Queued # <<>> /\ Queued' = Tail(Queued)
                               /\ Hand' = [Hand EXCEPT ![t] = Head(Queued)]
         \/ Queued' = Queued /\ Hand' = Hand
<1>1. TypeOK
  BY DEF IInv
<1>2. ASSUME NEW t \in Threads, PutClaim(t)
      PROVE  \E v \in Values : Len(Queued) < N /\ Queued' = Append(Queued, v) /\ Hand' = Hand
  BY <1>2, PutClaimRefines
<1>3. ASSUME NEW t \in Threads, GetClaim(t)
      PROVE  \E u \in Threads : /\ Queued # <<>> /\ Queued' = Tail(Queued)
                                /\ Hand' = [Hand EXCEPT ![u] = Head(Queued)]
  BY <1>3, GetClaimRefines
<1>4. ASSUME NEW t \in Threads,
             \/ \E v \in Values : CallPut(t, v)
             \/ CallGet(t)
             \/ PutLoadPos(t) \/ PutSeqMatches(t) \/ PutFails(t) \/ PutSeqAhead(t)
             \/ PutClaimLost(t) \/ PutData(t) \/ PutPublish(t)
             \/ GetLoadPos(t) \/ GetSeqMatches(t) \/ GetFails(t) \/ GetSeqAhead(t)
             \/ GetClaimLost(t) \/ GetRelease(t)
      PROVE  Queued' = Queued /\ Hand' = Hand
  <2>1. /\ UNCHANGED <<log, read, write, got>> /\ pc[t] # "get_data"
        /\ \E label \in ({"idle"} \cup PutPC \cup GetPC) \ {"get_data"} : Goto(t, label)
        /\ pos' = pos \/ \E x : pos' = [pos EXCEPT ![t] = x]
    BY <1>4 DEF CallPut, CallGet, PutLoadPos, PutSeqMatches, PutFails, PutSeqAhead,
                PutClaimLost, PutData, PutPublish, GetLoadPos, GetSeqMatches, GetFails,
                GetSeqAhead, GetClaimLost, GetRelease, PutPC, GetPC
  <2>2. /\ pc' \in [Threads -> {"idle"} \cup PutPC \cup GetPC] /\ pc'[t] # "get_data"
        /\ \A u \in Threads \ {t} : pc'[u] = pc[u] /\ pos'[u] = pos[u]
    BY <1>1, <2>1 DEF TypeOK, Goto
  <2>3. QED
    BY <1>1, <2>1, <2>2, QuietStep
<1>5. CASE UNCHANGED vars
  BY <1>5 DEF vars, Queued, Hand
<1>6. QED
  BY <1>2, <1>3, <1>4, <1>5, GetDataRefines DEF Next, Step

\* The ring, used by any number of threads, behaves like one first-in
\* first-out queue: the claims are where the calls take effect.
THEOREM ImplementsQueue == Spec => RefinesAbstractQueue
<1>1. Init => Abs!Init
  <2>1. SUFFICES ASSUME Init PROVE Abs!Init
    OBVIOUS
  <2>2. read + 1 \in Int /\ write \in Int /\ write < read + 1
    <3>1. read = 0 /\ write = 0
      BY <2>1, Zenon DEF Init
    <3>2. QED
      BY <3>1
  <2>3. SubSeq(log, read + 1, write) = <<>>
    BY <2>2, SubSeqEmpty
  <2>4. ASSUME NEW t \in Threads
        PROVE  (IF pc[t] = "get_data" THEN log[pos[t] + 1] ELSE got[t]) = None
    <3>1. pc[t] = "idle" /\ got[t] = None
      BY <2>1, Zenon DEF Init
    <3>2. QED
      BY <3>1
  <2>5. QED
    BY <2>3, <2>4 DEF Abs!Init
<1>2. IInv /\ [Next]_vars => [Abs!Next]_(Abs!vars)
  <2>1. SUFFICES ASSUME IInv, [Next]_vars PROVE [Abs!Next]_(Abs!vars)
    OBVIOUS
  <2>2. CASE \E v \in Values : Len(Queued) < N /\ Queued' = Append(Queued, v) /\ Hand' = Hand
    BY <2>2 DEF Abs!Next, Abs!Put, Queued, Hand
  <2>3. CASE \E t \in Threads : /\ Queued # <<>> /\ Queued' = Tail(Queued)
                                /\ Hand' = [Hand EXCEPT ![t] = Head(Queued)]
    BY <2>3 DEF Abs!Next, Abs!Get, Queued, Hand
  <2>4. CASE Queued' = Queued /\ Hand' = Hand
    BY <2>4 DEF Abs!vars, Queued, Hand
  <2>5. QED
    BY <2>1, <2>2, <2>3, <2>4, StepRefines
<1>3. QED
  BY <1>1, <1>2, Invariance, PTL DEF Spec, RefinesAbstractQueue, Abs!Spec
=============================================================================
