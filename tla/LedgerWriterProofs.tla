-------------------------- MODULE LedgerWriterProofs ---------------------------
(***************************************************************************)
(* Proofs about LedgerWriter for any set of records, any queue size, any    *)
(* number of faults and restarts, and whichever of the three statements of  *)
(* a write can fail.                                                        *)
(***************************************************************************)
EXTENDS LedgerWriter, SequenceTheorems, TLAPS

Row(r, p) == [record |-> r, parent |-> p]

\* A statement in progress has a record, and dies with its process.
TaskInv == step # "idle" => proc = "up" /\ current \in Records

Raised(r) == caller[r] = "raised"

\* The record whose row has been inserted and whose append is not answered yet.
InHand(r) == step \in {"audit", "commit", "confirm"} /\ r = current

\* The head names a durable row, or none, and what is durable after that row
\* raised, but for the row in hand, which is the last.
HeadInv ==
  Alive => \E j \in 0..Len(rows) :
    /\ head = NameOf(rows, j)
    /\ \A i \in (j + 1)..Len(rows) :
         \/ Raised(rows[i].record)
         \/ InHand(rows[i].record) /\ i = Len(rows) /\ pendingRows = <<>>

\* Every row of the open transaction names the head; all of them raised, but for
\* the row in hand, which is the last.
PendingInv ==
  /\ pendingRows # <<>> => Alive
  /\ \A k \in 1..Len(pendingRows) :
       /\ pendingRows[k].parent = head
       /\ \/ Raised(pendingRows[k].record)
          \/ InHand(pendingRows[k].record) /\ k = Len(pendingRows)

\* Where the row in hand and its audit row are.
HandInv ==
  /\ step \in {"audit", "commit", "confirm"} =>
       IF pendingRows = <<>>
       THEN rows # <<>> /\ rows[Len(rows)].record = current
       ELSE pendingRows[Len(pendingRows)].record = current
  /\ step = "commit" => current \in audited \cup pendingAudit
  /\ step = "confirm" => pendingRows = <<>> /\ current \in audited
  /\ TaskInv

LedgerInv ==
  TypeOK /\ HeadInv /\ PendingInv /\ HandInv /\ ChainIsLinear /\ ReturnedIsDurable

\* Whether a record has a durable row.
HasRow(r) == \E k \in DOMAIN rows : rows[k].record = r

-----------------------------------------------------------------------------
\* Rows behind rows

LedgerRow == [record : Records, parent : Records \cup {Genesis}]

\* What a sequence of rows holds.
LEMMA RowsHold ==
  ASSUME NEW s \in Rows
  PROVE  /\ Len(s) \in Nat /\ DOMAIN s = 1..Len(s)
         /\ \A k \in 1..Len(s) : s[k] \in LedgerRow /\ s[k].record \in Records
         /\ s = <<>> <=> Len(s) = 0
<1>1. s \in Seq(LedgerRow)
  BY DEF Rows, LedgerRow
<1>2. \A k \in 1..Len(s) : s[k] \in LedgerRow
  <2> HIDE DEF LedgerRow
  <2> QED
    BY <1>1
<1> QED
  BY <1>1, <1>2 DEF LedgerRow

\* A row appended is the last one, and the others stay where they were.
LEMMA RowAppended ==
  ASSUME NEW s \in Rows, NEW e \in LedgerRow
  PROVE  /\ Append(s, e) \in Rows
         /\ Len(Append(s, e)) = Len(s) + 1
         /\ \A k \in 1..Len(s) : Append(s, e)[k] = s[k]
         /\ Append(s, e)[Len(s) + 1] = e
<1>1. s \in Seq(LedgerRow)
  BY DEF Rows, LedgerRow
<1> HIDE DEF LedgerRow
<1> QED
  BY <1>1, AppendProperties DEF Rows, LedgerRow

\* A commit keeps the durable rows and puts the pending ones behind them.
LEMMA RowsCommitted ==
  ASSUME TypeOK, CommitPending
  PROVE  /\ rows' \in Rows /\ pendingRows' = <<>>
         /\ Len(rows') = Len(rows) + Len(pendingRows)
         /\ \A k \in 1..Len(rows) : rows'[k] = rows[k]
         /\ \A k \in 1..Len(pendingRows) : rows'[Len(rows) + k] = pendingRows[k]
         /\ \A k \in 1..Len(rows') :
              \/ k \in 1..Len(rows)
              \/ k - Len(rows) \in 1..Len(pendingRows)
<1>1. rows \in Seq(LedgerRow) /\ pendingRows \in Seq(LedgerRow)
  BY DEF TypeOK, Rows, LedgerRow
<1>2. rows' = rows \o pendingRows /\ pendingRows' = <<>>
  BY DEF CommitPending
<1>3. /\ rows' \in Seq(LedgerRow)
      /\ Len(rows') = Len(rows) + Len(pendingRows)
      /\ \A k \in 1..Len(rows') :
           rows'[k] = IF k <= Len(rows) THEN rows[k] ELSE pendingRows[k - Len(rows)]
  <2> HIDE DEF LedgerRow
  <2> QED
    BY <1>1, <1>2, ConcatProperties
<1>4. Len(rows) \in Nat /\ Len(pendingRows) \in Nat
  <2> HIDE DEF LedgerRow
  <2> QED
    BY <1>1
<1>5. rows' \in Rows
  BY <1>3 DEF Rows, LedgerRow
<1> HIDE DEF LedgerRow
<1>6. \A k \in 1..Len(rows) : k \in 1..Len(rows') /\ k <= Len(rows)
  BY <1>3, <1>4
<1>7. \A k \in 1..Len(pendingRows) :
        /\ Len(rows) + k \in 1..Len(rows') /\ ~(Len(rows) + k <= Len(rows))
        /\ (Len(rows) + k) - Len(rows) = k
  BY <1>3, <1>4
<1>8. \A k \in 1..Len(rows') : k \in 1..Len(rows) \/ k - Len(rows) \in 1..Len(pendingRows)
  BY <1>3, <1>4
<1> QED
  BY <1>2, <1>3, <1>5, <1>6, <1>7, <1>8

\* A commit, by whoever it is, keeps the chain linear and loses no row.
LEMMA CommitKeepsChain ==
  ASSUME TypeOK, HeadInv, PendingInv, ChainIsLinear, Alive, CommitPending,
         UNCHANGED <<caller, head, current, proc>>, \A r : InHand(r) <=> InHand(r)'
  PROVE  /\ ChainIsLinear' /\ HeadInv' /\ PendingInv'
         /\ \A r \in Records : HasRow(r) => HasRow(r)'
<1> DEFINE n == Len(rows)
           m == Len(pendingRows)
<1>1. /\ rows' \in Rows /\ pendingRows' = <<>> /\ Len(rows') = n + m
      /\ \A k \in 1..n : rows'[k] = rows[k]
      /\ \A k \in 1..m : rows'[n + k] = pendingRows[k]
      /\ \A k \in 1..Len(rows') : k \in 1..n \/ k - n \in 1..m
  BY RowsCommitted
<1>2. /\ n \in Nat /\ m \in Nat /\ DOMAIN rows = 1..n /\ DOMAIN rows' = 1..(n + m)
      /\ pendingRows = <<>> <=> m = 0
  BY <1>1, RowsHold DEF TypeOK
<1>3. PICK j \in 0..n :
        /\ head = NameOf(rows, j)
        /\ \A i \in (j + 1)..n :
             \/ Raised(rows[i].record)
             \/ InHand(rows[i].record) /\ i = n /\ pendingRows = <<>>
  BY DEF HeadInv
<1>4. \A k \in 0..n : NameOf(rows', k) = NameOf(rows, k)
  BY <1>1, <1>2 DEF NameOf
<1>6. ASSUME NEW i \in (j + 1)..(n + m)
      PROVE  \/ Raised(rows'[i].record)
             \/ InHand(rows'[i].record) /\ i = n + m
  <2>1. CASE i <= n
    <3>1. i \in (j + 1)..n /\ i \in 1..n
      BY <1>2, <2>1
    <3>2. rows'[i] = rows[i]
      BY <1>1, <3>1
    <3>3. CASE Raised(rows[i].record)
      BY <3>2, <3>3
    <3>4. CASE InHand(rows[i].record) /\ i = n /\ pendingRows = <<>>
      BY <1>2, <3>2, <3>4
    <3> QED
      BY <1>3, <3>1, <3>3, <3>4
  <2>2. CASE i > n
    <3>0. i \in Nat /\ i - n \in 1..m /\ i = n + (i - n)
      <4>1. i \in Nat /\ i <= n + m /\ n \in Nat /\ m \in Nat /\ i > n
        BY <1>2, <2>2
      <4> HIDE DEF n, m
      <4> QED
        BY <4>1
    <3>1. PICK k \in 1..m : i = n + k
      BY <3>0
    <3>2. \/ Raised(pendingRows[k].record)
          \/ InHand(pendingRows[k].record) /\ k = m
      BY <3>1 DEF PendingInv
    <3> QED
      BY <1>1, <1>2, <3>1, <3>2
  <2> QED
    BY <1>2, <2>1, <2>2
<1>7. HeadInv'
  <2>1. j \in 0..(n + m) /\ head' = NameOf(rows', j)
    <3>1. head = NameOf(rows', j)
      BY <1>3, <1>4
    <3>2. j \in 0..(n + m)
      BY <1>2
    <3> QED
      BY <3>1, <3>2
  <2> QED
    BY <1>1, <1>6, <2>1 DEF HeadInv, Raised
<1>8. PendingInv'
  BY <1>1 DEF PendingInv
<1>9. ASSUME NEW k \in 1..(n + m)
      PROVE  \E t \in 0..(k - 1) :
               /\ rows'[k].parent = NameOf(rows', t)
               /\ \A i \in (t + 1)..(k - 1) : caller[rows'[i].record] = "raised"
  <2>1. CASE k <= n
    <3>1. k \in 1..n
      BY <1>2, <2>1
    <3>2. PICK t \in 0..(k - 1) :
            /\ rows[k].parent = NameOf(rows, t)
            /\ \A i \in (t + 1)..(k - 1) : caller[rows[i].record] = "raised"
      BY <1>2, <3>1 DEF ChainIsLinear
    <3>3. t \in 0..n /\ \A i \in (t + 1)..(k - 1) : i \in 1..n
      BY <1>2, <2>1
    <3> QED
      BY <1>1, <1>4, <3>1, <3>2, <3>3
  <2>2. CASE k > n
    <3>1. PICK q \in 1..m : k = n + q
      BY <1>2, <2>2
    <3>2. rows'[k].parent = NameOf(rows', j)
      BY <1>1, <1>3, <1>4, <3>1 DEF PendingInv
    <3>3. \A i \in (j + 1)..(k - 1) : Raised(rows'[i].record)
      <4>1. ASSUME NEW i \in (j + 1)..(k - 1)
            PROVE  i \in (j + 1)..(n + m) /\ i # n + m
        BY <1>2
      <4> QED
        BY <1>6, <4>1
    <3>4. j \in 0..(k - 1)
      BY <1>2, <2>2
    <3> QED
      BY <3>2, <3>3, <3>4 DEF Raised
  <2> QED
    BY <1>2, <2>1, <2>2
<1>10. ChainIsLinear'
  BY <1>2, <1>9 DEF ChainIsLinear
<1>11. \A r \in Records : HasRow(r) => HasRow(r)'
  BY <1>1, <1>2 DEF HasRow
<1> QED
  BY <1>7, <1>8, <1>10, <1>11

-----------------------------------------------------------------------------
\* Type correctness

\* One step of the writer, a caller or the system keeps the types.
LEMMA LedgerTypeStep == TypeOK /\ TaskInv /\ [Next]_vars => TypeOK'
<1> SUFFICES ASSUME TypeOK, TaskInv, [Next]_vars PROVE TypeOK'
  OBVIOUS
<1> USE LedgerAssumption DEF file, transaction, task, bounds, Steps
<1>1. \A r \in Records : Enqueue(r) =>
        /\ queue' \in Seq(Records) /\ Len(queue') <= QueueSize
        /\ caller' \in [Records -> Callers]
  BY DEF TypeOK, Enqueue, Callers
<1>2. ASSUME NEW r \in Records, AppendRecord(r) PROVE TypeOK'
  BY <1>1, <1>2 DEF TypeOK, AppendRecord, Enqueue
<1>3. ASSUME NEW r \in Records, ReconcileDiverges(r) PROVE TypeOK'
  BY <1>1, <1>3 DEF TypeOK, ReconcileDiverges, Enqueue
<1>4. ASSUME NEW r \in Records, ReconcileMatches(r) PROVE TypeOK'
  BY <1>1, <1>4 DEF TypeOK, ReconcileMatches, Enqueue
<1>5. CASE ReconcileBlocks \/ ReconcileRaises
  BY <1>5 DEF TypeOK, ReconcileBlocks, ReconcileRaises
<1>6. CASE Take
  <2>1. Head(queue) \in Records /\ Tail(queue) \in Seq(Records)
        /\ Len(Tail(queue)) <= QueueSize
    BY <1>6 DEF TypeOK, Take
  <2> QED
    BY <1>6, <2>1 DEF TypeOK, Take
<1>7. CASE InsertRow
  <2>1. current \in Records /\ head \in Records \cup {Genesis}
    BY <1>7 DEF TypeOK, TaskInv, InsertRow
  <2>2. pendingRows' \in Rows
    BY <1>7, <2>1 DEF TypeOK, InsertRow, Rows
  <2> QED
    BY <1>7, <2>2 DEF TypeOK, InsertRow
<1>8. CASE InsertAudit
  BY <1>8 DEF TypeOK, TaskInv, InsertAudit
<1>9. ASSUME CommitPending
      PROVE  /\ rows' \in Rows /\ pendingRows' \in Rows
             /\ audited' \subseteq Records /\ pendingAudit' \subseteq Records
  BY <1>9 DEF TypeOK, CommitPending, Rows
<1>10. CASE Commit \/ ForeignCommit
  BY <1>9, <1>10 DEF TypeOK, Commit, ForeignCommit
<1>11. CASE Confirm
  BY <1>11 DEF TypeOK, TaskInv, Confirm, Callers
<1>12. ASSUME NEW rolledBack \in BOOLEAN, StatementFails(rolledBack)
       PROVE  TypeOK'
  <2>1. current \in Records
    BY <1>12 DEF StatementFails, TaskInv, TypeOK
  <2>2. pendingRows' \in Rows /\ pendingAudit' \subseteq Records
    <3>1. pendingRows' \in {pendingRows, <<>>} /\ pendingAudit' \in {pendingAudit, {}}
      BY <1>12 DEF StatementFails
    <3>2. <<>> \in Rows
      BY DEF Rows
    <3> QED
      BY <3>1, <3>2 DEF TypeOK
  <2>3. faults' \in 0..MaxFaults
    BY <1>12 DEF TypeOK, StatementFails
  <2>4. step' = "idle" /\ current' = Genesis
        /\ caller' = [caller EXCEPT
                        ![current] = IF step = "insert" THEN "refused" ELSE "raised"]
        /\ UNCHANGED <<file, queue, head, blocked, reconciling, proc, restarts>>
    BY <1>12 DEF StatementFails
  <2> QED
    BY <2>1, <2>2, <2>3, <2>4 DEF TypeOK, Callers
<1>13. CASE StopJoins
  BY <1>13 DEF TypeOK, StopJoins
<1>14. CASE StopCancels \/ Crash
  <2>1. caller' \in [Records -> Callers] /\ queue' \in Seq(Records) /\ Len(queue') <= QueueSize
    <3>1. Unanswered \in [Records -> Callers]
      BY DEF TypeOK, Callers, Unanswered
    <3>2. caller' = Unanswered /\ queue' = <<>>
      BY <1>14 DEF StopCancels, Crash
    <3> QED
      BY <3>1, <3>2
  <2>2. <<>> \in Rows
    BY DEF Rows
  <2> QED
    BY <1>14, <2>1, <2>2 DEF TypeOK, StopCancels, Crash
<1>15. CASE Restart
  <2>1. RecoveredHead \in Records \cup {Genesis}
    <3>1. CASE rows = <<>>
      BY <3>1 DEF RecoveredHead
    <3>2. CASE rows # <<>>
      <4> DEFINE Entry == [record : Records, parent : Records \cup {Genesis}]
      <4>1. rows \in Seq(Entry) /\ Len(rows) \in 1..Len(rows)
        BY <3>2 DEF TypeOK, Rows
      <4>2. rows[Len(rows)] \in Entry
        <5> HIDE DEF Entry
        <5> QED
          BY <4>1
      <4> QED
        BY <3>2, <4>2 DEF RecoveredHead, Last
    <3> QED
      BY <3>1, <3>2
  <2> QED
    <3>1. head' \in Records \cup {Genesis} /\ restarts' \in 0..MaxRestarts
      BY <1>15, <2>1 DEF TypeOK, Restart
    <3>2. blocked' = FALSE /\ reconciling' = Genesis /\ proc' = "up"
          /\ UNCHANGED <<file, transaction, caller, queue, step, current, faults>>
      BY <1>15 DEF Restart
    <3> QED
      BY <3>1, <3>2 DEF TypeOK
<1>16. CASE UNCHANGED vars
  BY <1>16 DEF TypeOK, vars
<1> QED
  BY <1>2, <1>3, <1>4, <1>5, <1>6, <1>7, <1>8, <1>10, <1>11, <1>12, <1>13,
     <1>14, <1>15, <1>16 DEF Next

\* The statement in progress belongs to the record that was taken last.
LEMMA TaskStep == TypeOK /\ TaskInv /\ [Next]_vars => TaskInv'
<1> SUFFICES ASSUME TypeOK, TaskInv, [Next]_vars PROVE TaskInv'
  OBVIOUS
<1> USE DEF TaskInv, file, transaction, task, bounds
<1>1. CASE Take
  <2>1. Head(queue) \in Records
    BY <1>1 DEF TypeOK, Take
  <2> QED
    BY <1>1, <2>1 DEF Take
<1>2. CASE InsertRow \/ InsertAudit \/ Commit \/ Confirm \/ ForeignCommit
  BY <1>2 DEF InsertRow, InsertAudit, Commit, Confirm, ForeignCommit
<1>3. CASE StopJoins \/ StopCancels \/ Crash \/ Restart
  BY <1>3 DEF StopJoins, StopCancels, Crash, Restart, Alive
<1>4. CASE ReconcileBlocks \/ ReconcileRaises
  BY <1>4 DEF ReconcileBlocks, ReconcileRaises
<1>5. ASSUME NEW r \in Records,
             AppendRecord(r) \/ ReconcileDiverges(r) \/ ReconcileMatches(r)
      PROVE  TaskInv'
  BY <1>5 DEF AppendRecord, ReconcileDiverges, ReconcileMatches, Enqueue
<1>6. ASSUME NEW rolledBack \in BOOLEAN, StatementFails(rolledBack)
      PROVE  TaskInv'
  BY <1>6 DEF StatementFails
<1>7. CASE UNCHANGED vars
  BY <1>7 DEF vars
<1> QED
  BY <1>1, <1>2, <1>3, <1>4, <1>5, <1>6, <1>7 DEF Next

-----------------------------------------------------------------------------
\* The queue

\* What waits in the queue, and what is being written, was queued once and has
\* not been answered.
CallerInv ==
  /\ \A k \in 1..Len(queue) : caller[queue[k]] = "queued"
  /\ \A j, k \in 1..Len(queue) : queue[j] = queue[k] => j = k
  /\ step # "idle" =>
       /\ caller[current] = "queued"
       /\ \A k \in 1..Len(queue) : queue[k] # current

\* What a queued record does to the queue.
LEMMA Enqueued ==
  ASSUME TypeOK, CallerInv, NEW r \in Records, Enqueue(r)
  PROVE  /\ queue' = Append(queue, r) /\ caller[r] = "new"
         /\ Len(queue') = Len(queue) + 1 /\ queue'[Len(queue) + 1] = r
         /\ \A k \in 1..Len(queue) : queue'[k] = queue[k] /\ queue[k] # r
         /\ \A k \in 1..Len(queue') : k \in 1..Len(queue) \/ k = Len(queue) + 1
         /\ \A d \in Records : caller'[d] = IF d = r THEN "queued" ELSE caller[d]
<1>1. /\ queue \in Seq(Records) /\ Len(queue) \in Nat
      /\ caller \in [Records -> Callers]
  BY DEF TypeOK
<1>2. /\ caller[r] = "new" /\ caller' = [caller EXCEPT ![r] = "queued"]
      /\ queue' = Append(queue, r)
  BY DEF Enqueue
<1>3. /\ Len(queue') = Len(queue) + 1 /\ queue'[Len(queue) + 1] = r
      /\ \A k \in 1..Len(queue) : queue'[k] = queue[k]
  BY <1>1, <1>2, AppendProperties
<1>4. \A k \in 1..Len(queue) : queue[k] # r
  BY <1>2 DEF CallerInv
<1>5. \A k \in 1..Len(queue') : k \in 1..Len(queue) \/ k = Len(queue) + 1
  BY <1>1, <1>3
<1>6. \A d \in Records : caller'[d] = IF d = r THEN "queued" ELSE caller[d]
  BY <1>1, <1>2
<1> QED
  BY <1>2, <1>3, <1>4, <1>5, <1>6

\* What taking the first record does to the queue.
LEMMA Taken ==
  ASSUME TypeOK, CallerInv, Take
  PROVE  /\ current' \in Records /\ caller[current'] = "queued"
         /\ queue # <<>> /\ 1 \in 1..Len(queue) /\ current' = queue[1]
         /\ Len(queue') = Len(queue) - 1
         /\ \A k \in 1..Len(queue') :
              /\ queue'[k] = queue[k + 1] /\ k + 1 \in 1..Len(queue)
              /\ queue'[k] # current'
<1>1. queue \in Seq(Records) /\ Len(queue) \in Nat
  BY DEF TypeOK
<1>2. queue # <<>> /\ current' = Head(queue) /\ queue' = Tail(queue)
  BY DEF Take
<1>3. /\ Len(queue') = Len(queue) - 1 /\ current' = queue[1]
      /\ \A k \in 1..Len(queue') : queue'[k] = queue[k + 1]
  BY <1>1, <1>2, HeadTailProperties
<1>4. /\ 1 \in 1..Len(queue)
      /\ \A k \in 1..Len(queue') : k + 1 \in 1..Len(queue) /\ k + 1 # 1
  BY <1>1, <1>2, <1>3
<1>5. \A k \in 1..Len(queue) : queue[k] \in Records
  BY <1>1
<1> QED
  BY <1>2, <1>3, <1>4, <1>5 DEF CallerInv

\* One step keeps what is in the queue apart from what was answered.
LEMMA CallerStep ==
  ASSUME TypeOK, TaskInv, CallerInv, [Next]_vars
  PROVE  CallerInv'
<1> USE DEF file, transaction, task, bounds
<1>1. /\ queue \in Seq(Records) /\ Len(queue) \in Nat
      /\ \A k \in 1..Len(queue) : queue[k] \in Records
      /\ caller \in [Records -> Callers]
  BY DEF TypeOK
<1>2. ASSUME NEW r \in Records,
             AppendRecord(r) \/ ReconcileDiverges(r) \/ ReconcileMatches(r)
      PROVE  CallerInv'
  <2>1. Enqueue(r) /\ UNCHANGED <<step, current>>
    BY <1>2 DEF AppendRecord, ReconcileDiverges, ReconcileMatches
  <2>2. /\ caller[r] = "new"
        /\ Len(queue') = Len(queue) + 1 /\ queue'[Len(queue) + 1] = r
        /\ \A k \in 1..Len(queue) : queue'[k] = queue[k] /\ queue[k] # r
        /\ \A k \in 1..Len(queue') : k \in 1..Len(queue) \/ k = Len(queue) + 1
        /\ \A d \in Records : caller'[d] = IF d = r THEN "queued" ELSE caller[d]
    BY <2>1, Enqueued
  <2>3. step # "idle" => current # r /\ current \in Records
    BY <2>2 DEF CallerInv, TaskInv
  <2>4. \A k \in 1..Len(queue') : caller'[queue'[k]] = "queued"
    BY <1>1, <2>2 DEF CallerInv
  <2>5. \A j, k \in 1..Len(queue') : queue'[j] = queue'[k] => j = k
    BY <2>2 DEF CallerInv
  <2>6. step' # "idle" => /\ caller'[current'] = "queued"
                          /\ \A k \in 1..Len(queue') : queue'[k] # current'
    BY <2>1, <2>2, <2>3 DEF CallerInv
  <2> QED
    BY <2>4, <2>5, <2>6 DEF CallerInv
<1>3. CASE ReconcileBlocks \/ ReconcileRaises \/ InsertRow \/ InsertAudit \/ Commit
           \/ ForeignCommit \/ StopJoins \/ Restart \/ UNCHANGED vars
  <2>1. UNCHANGED <<caller, queue, current>> /\ (step' # "idle" => step # "idle")
    BY <1>3 DEF ReconcileBlocks, ReconcileRaises, InsertRow, InsertAudit, Commit,
       ForeignCommit, StopJoins, Restart, vars
  <2> QED
    BY <2>1 DEF CallerInv
<1>4. CASE Take
  <2>1. UNCHANGED caller
    BY <1>4 DEF Take
  <2> QED
    BY <1>4, <2>1, Taken DEF CallerInv
<1>5. ASSUME NEW answer, step # "idle", step' = "idle", UNCHANGED queue,
             caller' = [caller EXCEPT ![current] = answer]
      PROVE  CallerInv'
  <2>1. current \in Records /\ \A k \in 1..Len(queue) : queue[k] # current
    BY <1>5 DEF TaskInv, CallerInv
  <2>2. \A d \in Records : caller'[d] = IF d = current THEN answer ELSE caller[d]
    BY <1>1, <1>5
  <2> QED
    BY <1>1, <1>5, <2>1, <2>2 DEF CallerInv
<1>6. CASE Confirm
  BY <1>5, <1>6 DEF Confirm
<1>7. ASSUME NEW rolledBack \in BOOLEAN, StatementFails(rolledBack)
      PROVE  CallerInv'
  <2>1. PICK answer : answer = IF step = "insert" THEN "refused" ELSE "raised"
    OBVIOUS
  <2>2. /\ step # "idle" /\ step' = "idle" /\ UNCHANGED queue
        /\ caller' = [caller EXCEPT ![current] = answer]
    BY <1>7, <2>1, LedgerAssumption DEF StatementFails, Steps
  <2> QED
    BY <1>5, <2>2
<1>8. CASE StopCancels \/ Crash
  <2>1. queue' = <<>> /\ step' = "idle"
    BY <1>8 DEF StopCancels, Crash, TaskInv
  <2> QED
    BY <2>1 DEF CallerInv
<1> QED
  BY <1>2, <1>3, <1>4, <1>6, <1>7, <1>8 DEF Next

-----------------------------------------------------------------------------
\* The writer task, statement by statement

\* A step that touches neither the file, the transaction nor the task, and
\* neither undoes nor adds a raised append, keeps the invariant.
LEMMA QuietStep ==
  ASSUME LedgerInv, TypeOK', TaskInv',
         UNCHANGED <<rows, audited, pendingRows, pendingAudit, step, current, head>>,
         Alive' => Alive, pendingRows # <<>> => Alive',
         \A r \in Records : caller[r] = "raised" <=> caller'[r] = "raised",
         \A r \in Records : caller'[r] = "returned" => caller[r] = "returned",
         blocked' => blocked \/ (HasRow(reconciling) /\ reconciling \in Corrections)
  PROVE  LedgerInv'
<1>1. /\ \A k \in 1..Len(rows) : rows[k].record \in Records
      /\ \A k \in 1..Len(pendingRows) : pendingRows[k].record \in Records
      /\ Len(rows) \in Nat /\ DOMAIN rows = 1..Len(rows)
  BY RowsHold DEF LedgerInv, TypeOK
<1>2. HeadInv'
  <2> SUFFICES ASSUME Alive' PROVE HeadInv'
    BY DEF HeadInv
  <2>1. PICK j \in 0..Len(rows) :
          /\ head = NameOf(rows, j)
          /\ \A i \in (j + 1)..Len(rows) :
               \/ Raised(rows[i].record)
               \/ InHand(rows[i].record) /\ i = Len(rows) /\ pendingRows = <<>>
    BY DEF LedgerInv, HeadInv
  <2>2. \A i \in (j + 1)..Len(rows) : i \in 1..Len(rows)
    BY <1>1
  <2> QED
    BY <1>1, <2>1, <2>2 DEF HeadInv, Raised, InHand, NameOf
<1>3. PendingInv'
  BY <1>1 DEF LedgerInv, PendingInv, Raised, InHand
<1>4. HandInv'
  BY DEF LedgerInv, HandInv
<1>5. ChainIsLinear'
  <2> SUFFICES ASSUME NEW k \in DOMAIN rows
               PROVE  \E j \in 0..(k - 1) :
                        /\ rows[k].parent = NameOf(rows, j)
                        /\ \A i \in (j + 1)..(k - 1) : caller'[rows[i].record] = "raised"
    BY DEF ChainIsLinear, NameOf
  <2>1. PICK j \in 0..(k - 1) :
          /\ rows[k].parent = NameOf(rows, j)
          /\ \A i \in (j + 1)..(k - 1) : caller[rows[i].record] = "raised"
    BY DEF LedgerInv, ChainIsLinear
  <2>2. \A i \in (j + 1)..(k - 1) : i \in 1..Len(rows)
    BY <1>1
  <2> QED
    BY <1>1, <2>1, <2>2
<1>6. ReturnedIsDurable'
  BY DEF LedgerInv, ReturnedIsDurable, HasRow
<1> QED
  BY <1>2, <1>3, <1>4, <1>5, <1>6 DEF LedgerInv

\* Which durable row the head is, and what the chain holds, when a step leaves
\* the file alone and only adds raised appends.
LEMMA ChainStays ==
  ASSUME LedgerInv, UNCHANGED rows,
         \A r \in Records : caller[r] = "raised" => caller'[r] = "raised"
  PROVE  ChainIsLinear'
<1>1. /\ \A k \in 1..Len(rows) : rows[k].record \in Records
      /\ Len(rows) \in Nat /\ DOMAIN rows = 1..Len(rows)
  BY RowsHold DEF LedgerInv, TypeOK
<1> SUFFICES ASSUME NEW k \in DOMAIN rows
             PROVE  \E j \in 0..(k - 1) :
                      /\ rows[k].parent = NameOf(rows, j)
                      /\ \A i \in (j + 1)..(k - 1) : caller'[rows[i].record] = "raised"
  BY DEF ChainIsLinear, NameOf
<1>2. PICK j \in 0..(k - 1) :
        /\ rows[k].parent = NameOf(rows, j)
        /\ \A i \in (j + 1)..(k - 1) : caller[rows[i].record] = "raised"
  BY DEF LedgerInv, ChainIsLinear
<1>3. \A i \in (j + 1)..(k - 1) : i \in 1..Len(rows)
  BY <1>1
<1> QED
  BY <1>1, <1>2, <1>3

\* A request of a producer, a verdict of the reconciliation or the first half of
\* stop() is quiet.
LEMMA ProducerStep ==
  ASSUME LedgerInv, TypeOK', TaskInv',
         \/ \E r \in Records :
              AppendRecord(r) \/ ReconcileDiverges(r) \/ ReconcileMatches(r)
         \/ ReconcileBlocks \/ ReconcileRaises \/ StopJoins \/ UNCHANGED vars
  PROVE  LedgerInv'
<1> USE DEF file, transaction, task, bounds
<1>1. ASSUME NEW r \in Records,
             AppendRecord(r) \/ ReconcileDiverges(r) \/ ReconcileMatches(r)
      PROVE  LedgerInv'
  <2>1. /\ UNCHANGED <<rows, audited, pendingRows, pendingAudit, step, current,
                       head, proc>>
        /\ caller' = [caller EXCEPT ![r] = "queued"] /\ caller[r] = "new"
        /\ blocked' = blocked \/ blocked' = FALSE
    BY <1>1 DEF AppendRecord, ReconcileDiverges, ReconcileMatches, Enqueue
  <2>2. \A d \in Records : caller'[d] = IF d = r THEN "queued" ELSE caller[d]
    BY <2>1 DEF LedgerInv, TypeOK
  <2>3. Alive' = Alive
    BY <2>1 DEF Alive
  <2> QED
    BY <2>1, <2>2, <2>3, QuietStep DEF LedgerInv, PendingInv
<1>2. CASE ReconcileBlocks
  <2>1. HasRow(reconciling) /\ reconciling \in Corrections
    BY <1>2 DEF ReconcileBlocks, LedgerInv, TypeOK, ReturnedIsDurable, HasRow, Records
  <2>2. /\ UNCHANGED <<rows, audited, pendingRows, pendingAudit, step, current,
                       head, proc, caller>>
        /\ Alive' = Alive
    BY <1>2 DEF ReconcileBlocks, Alive
  <2> QED
    BY <2>1, <2>2, QuietStep DEF LedgerInv, PendingInv
<1>3. CASE ReconcileRaises \/ StopJoins \/ UNCHANGED vars
  <2>1. /\ UNCHANGED <<rows, audited, pendingRows, pendingAudit, step, current,
                       head, caller, blocked>>
        /\ Alive' = Alive
    BY <1>3 DEF ReconcileRaises, StopJoins, vars, Alive
  <2> QED
    BY <2>1, QuietStep DEF LedgerInv, PendingInv
<1> QED
  BY <1>1, <1>2, <1>3

\* The two INSERTs and the taking of a record.
LEMMA InsertStep ==
  ASSUME LedgerInv, TypeOK', TaskInv', Take \/ InsertRow \/ InsertAudit
  PROVE  LedgerInv'
<1> USE DEF file, transaction, task, bounds
<1>0. /\ Len(pendingRows) \in Nat /\ Len(rows) \in Nat /\ proc = "up" /\ proc' = "up"
      /\ UNCHANGED <<rows, head, caller, blocked, audited>>
  BY RowsHold DEF LedgerInv, TypeOK, Take, InsertRow, InsertAudit
<1>1. ChainIsLinear' /\ ReturnedIsDurable'
  BY <1>0, ChainStays DEF LedgerInv, ReturnedIsDurable
<1>2. CASE Take
  <2>1. HeadInv' /\ PendingInv' /\ HandInv'
    BY <1>0, <1>2 DEF Take, LedgerInv, HeadInv, PendingInv, HandInv, Raised, InHand, Alive,
       NameOf
  <2> QED
    BY <1>1, <2>1 DEF LedgerInv
<1>3. CASE InsertRow
  <2> DEFINE e == Row(current, head)
  <2>1. e \in LedgerRow /\ current \in Records
    BY <1>3 DEF InsertRow, LedgerInv, HandInv, TaskInv, TypeOK, Row, LedgerRow
  <2>2. pendingRows' = Append(pendingRows, e) /\ step = "insert" /\ step' = "audit"
        /\ UNCHANGED <<current, audited>>
    BY <1>3 DEF InsertRow, Row
  <2>3. /\ Len(pendingRows') = Len(pendingRows) + 1
        /\ \A k \in 1..Len(pendingRows) : pendingRows'[k] = pendingRows[k]
        /\ pendingRows'[Len(pendingRows) + 1] = e
        /\ pendingRows' # <<>>
    <3>1. pendingRows \in Rows
      BY DEF LedgerInv, TypeOK
    <3> HIDE DEF e
    <3> QED
      BY <2>1, <2>2, <3>1, RowAppended, RowsHold
  <2>4. PICK j \in 0..Len(rows) :
          head = NameOf(rows, j) /\ \A i \in (j + 1)..Len(rows) : Raised(rows[i].record)
    BY <1>0, <2>2 DEF LedgerInv, HeadInv, InHand, Alive
  <2>5. HeadInv'
    BY <1>0, <2>4 DEF HeadInv, Raised, NameOf
  <2>6. PendingInv'
    <3>1. ASSUME NEW k \in 1..Len(pendingRows')
          PROVE  /\ pendingRows'[k].parent = head'
                 /\ \/ caller'[pendingRows'[k].record] = "raised"
                    \/ pendingRows'[k].record = current /\ k = Len(pendingRows')
      <4>1. CASE k \in 1..Len(pendingRows)
        BY <1>0, <2>2, <2>3, <4>1 DEF LedgerInv, PendingInv, InHand, Raised
      <4>2. CASE k = Len(pendingRows) + 1
        BY <1>0, <2>3, <4>2 DEF Row
      <4> QED
        BY <1>0, <2>3, <4>1, <4>2
    <3> QED
      BY <1>0, <2>2, <3>1 DEF PendingInv, Raised, InHand, Alive
  <2>7. HandInv'
    BY <1>0, <2>2, <2>3 DEF HandInv, Row
  <2> QED
    BY <1>1, <2>5, <2>6, <2>7 DEF LedgerInv
<1>4. CASE InsertAudit
  <2>1. \A r : InHand(r) <=> InHand(r)'
    BY <1>4 DEF InsertAudit, InHand
  <2>2. UNCHANGED <<pendingRows, current>>
    BY <1>4 DEF InsertAudit
  <2>3. HeadInv' /\ PendingInv'
    BY <1>0, <2>1, <2>2 DEF LedgerInv, HeadInv, PendingInv, Raised, Alive, NameOf
  <2>4. HandInv'
    BY <1>0, <1>4, <2>2 DEF InsertAudit, LedgerInv, HandInv
  <2> QED
    BY <1>1, <2>3, <2>4 DEF LedgerInv
<1> QED
  BY <1>2, <1>3, <1>4

\* Whoever commits.
LEMMA CommitStep ==
  ASSUME LedgerInv, TypeOK', TaskInv', Commit \/ ForeignCommit
  PROVE  LedgerInv'
<1> USE DEF file, transaction, task, bounds
<1>0. /\ CommitPending /\ Alive /\ pendingRows' = <<>>
      /\ UNCHANGED <<head, caller, blocked, proc, current>>
  BY DEF Commit, ForeignCommit, CommitPending, Alive
<1>1. /\ rows' \in Rows /\ Len(rows') = Len(rows) + Len(pendingRows)
      /\ \A k \in 1..Len(rows) : rows'[k] = rows[k]
      /\ \A k \in 1..Len(pendingRows) : rows'[Len(rows) + k] = pendingRows[k]
      /\ Len(rows) \in Nat /\ Len(pendingRows) \in Nat
      /\ rows = <<>> <=> Len(rows) = 0
      /\ rows' = <<>> <=> Len(rows') = 0
      /\ pendingRows = <<>> <=> Len(pendingRows) = 0
  BY <1>0, RowsCommitted, RowsHold DEF LedgerInv, TypeOK
<1>2. \A r : InHand(r) <=> InHand(r)'
  BY DEF InHand, Commit, ForeignCommit
<1>3. /\ ChainIsLinear' /\ HeadInv' /\ PendingInv'
      /\ \A r \in Records : HasRow(r) => HasRow(r)'
  BY <1>0, <1>2, CommitKeepsChain DEF LedgerInv
<1>4. HandInv'
  <2>1. ASSUME step' \in {"audit", "commit", "confirm"}
        PROVE  rows' # <<>> /\ rows'[Len(rows')].record = current'
    <3>1. step \in {"audit", "commit", "confirm"}
      BY <2>1 DEF Commit, ForeignCommit
    <3>2. CASE pendingRows = <<>>
      BY <1>0, <1>1, <3>1, <3>2 DEF LedgerInv, HandInv
    <3>3. CASE pendingRows # <<>>
      <4>1. Len(pendingRows) \in 1..Len(pendingRows)
        BY <1>1, <3>3
      <4> QED
        BY <1>0, <1>1, <3>1, <3>3, <4>1 DEF LedgerInv, HandInv
    <3> QED
      BY <3>2, <3>3
  <2>2. audited' = audited \cup pendingAudit /\ pendingAudit' = {}
    BY <1>0 DEF CommitPending
  <2>3. /\ step' = "commit" => step = "commit"
        /\ step' = "confirm" => step \in {"commit", "confirm"}
    BY DEF Commit, ForeignCommit
  <2> QED
    BY <1>0, <2>1, <2>2, <2>3 DEF LedgerInv, HandInv
<1>5. ReturnedIsDurable'
  <2>1. ASSUME NEW r \in Records, caller[r] = "returned"
        PROVE  r \in audited' /\ HasRow(r)'
    BY <1>0, <1>3, <2>1 DEF LedgerInv, ReturnedIsDurable, CommitPending, HasRow
  <2>2. ASSUME blocked
        PROVE  \E r \in Corrections : HasRow(r)'
    <3>1. PICK k \in DOMAIN rows : rows[k].record \in Corrections
      BY <2>2 DEF LedgerInv, ReturnedIsDurable
    <3>2. HasRow(rows[k].record) /\ rows[k].record \in Records
      BY <3>1 DEF HasRow, Records
    <3> QED
      BY <1>3, <3>1, <3>2
  <2> QED
    BY <1>0, <2>1, <2>2 DEF ReturnedIsDurable, HasRow
<1> QED
  BY <1>3, <1>4, <1>5 DEF LedgerInv

\* The head moves to the row in hand, which is the last of the file.
LEMMA ConfirmStep ==
  ASSUME LedgerInv, CallerInv, TypeOK', TaskInv', Confirm
  PROVE  LedgerInv' /\ current \in Records /\ HasRow(current)
<1> USE DEF file, transaction, task, bounds
<1>1. /\ step = "confirm" /\ step' = "idle" /\ current \in Records
      /\ pendingRows = <<>> /\ pendingRows' = <<>> /\ head' = current
      /\ rows' = rows /\ audited' = audited /\ blocked' = blocked /\ proc = "up"
      /\ caller' = [caller EXCEPT ![current] = "returned"]
      /\ rows # <<>> /\ rows[Len(rows)].record = current /\ current \in audited
  BY DEF Confirm, LedgerInv, HandInv, TaskInv
<1>2. /\ Len(rows) \in 1..Len(rows) /\ DOMAIN rows = 1..Len(rows)
      /\ Len(rows) \in 0..Len(rows) /\ Len(rows) # 0
  BY <1>1, RowsHold DEF LedgerInv, TypeOK
<1>3. HasRow(current)
  BY <1>1, <1>2 DEF HasRow
<1>4. \A r \in Records : caller'[r] = IF r = current THEN "returned" ELSE caller[r]
  BY <1>1 DEF LedgerInv, TypeOK
<1>5. \A r \in Records : caller[r] = "raised" => caller'[r] = "raised"
  BY <1>1, <1>4 DEF CallerInv
<1>6. ChainIsLinear'
  BY <1>1, <1>5, ChainStays
<1>7. HeadInv'
  <2>1. head' = NameOf(rows, Len(rows))
    BY <1>1, <1>2 DEF NameOf
  <2>2. \A i \in (Len(rows) + 1)..Len(rows) : FALSE
    BY <1>2
  <2> QED
    BY <1>1, <1>2, <2>1, <2>2 DEF HeadInv, NameOf
<1>8. PendingInv' /\ HandInv'
  BY <1>1 DEF PendingInv, HandInv
<1>9. ReturnedIsDurable'
  BY <1>1, <1>3, <1>4 DEF LedgerInv, ReturnedIsDurable, HasRow
<1> QED
  BY <1>1, <1>3, <1>6, <1>7, <1>8, <1>9 DEF LedgerInv

\* A failing statement leaves a row of an append that raised, or none.
LEMMA FailStep ==
  ASSUME LedgerInv, CallerInv, TypeOK', TaskInv',
         NEW rolledBack \in BOOLEAN, StatementFails(rolledBack)
  PROVE  LedgerInv'
<1> USE LedgerAssumption DEF file, transaction, task, bounds
<1> DEFINE answer == IF step = "insert" THEN "refused" ELSE "raised"
<1>1. /\ step \in Steps /\ step' = "idle" /\ current \in Records
      /\ rows' = rows /\ audited' = audited /\ blocked' = blocked /\ head' = head
      /\ proc = "up" /\ proc' = "up"
      /\ caller' = [caller EXCEPT ![current] = answer] /\ caller[current] = "queued"
      /\ pendingRows' \in {pendingRows, <<>>}
  BY DEF StatementFails, LedgerInv, HandInv, TaskInv, CallerInv, Steps
<1>2. /\ \A k \in 1..Len(rows) : rows[k].record \in Records
      /\ \A k \in 1..Len(pendingRows) : pendingRows[k].record \in Records
      /\ Len(rows) \in Nat /\ Len(<<>>) = 0
  BY RowsHold DEF LedgerInv, TypeOK
<1>3. \A r \in Records : caller'[r] = IF r = current THEN answer ELSE caller[r]
  BY <1>1 DEF LedgerInv, TypeOK
<1>4. \A r \in Records : caller[r] = "raised" => caller'[r] = "raised"
  BY <1>1, <1>3
<1>5. \A r \in Records : Raised(r) \/ InHand(r) => caller'[r] = "raised"
  BY <1>1, <1>3, <1>4 DEF Raised, InHand, Steps
<1>6. ChainIsLinear'
  BY <1>1, <1>4, ChainStays
<1>7. HeadInv'
  <2>1. PICK j \in 0..Len(rows) :
          /\ head = NameOf(rows, j)
          /\ \A i \in (j + 1)..Len(rows) :
               \/ Raised(rows[i].record)
               \/ InHand(rows[i].record) /\ i = Len(rows) /\ pendingRows = <<>>
    BY <1>1 DEF LedgerInv, HeadInv, Alive
  <2>2. \A i \in (j + 1)..Len(rows) : i \in 1..Len(rows)
    BY <1>2
  <2> QED
    BY <1>1, <1>2, <1>5, <2>1, <2>2 DEF HeadInv, NameOf, Raised
<1>8. PendingInv'
  <2>1. CASE pendingRows' = pendingRows
    BY <1>1, <1>2, <1>5, <2>1 DEF LedgerInv, PendingInv, Raised, Alive
  <2>2. CASE pendingRows' = <<>>
    BY <1>2, <2>2 DEF PendingInv
  <2> QED
    BY <1>1, <2>1, <2>2
<1>9. HandInv'
  BY <1>1 DEF HandInv
<1>10. ReturnedIsDurable'
  BY <1>1, <1>3 DEF LedgerInv, ReturnedIsDurable
<1> QED
  BY <1>6, <1>7, <1>8, <1>9, <1>10 DEF LedgerInv

\* The end of a process, and the start of the next one.
LEMMA ProcessStep ==
  ASSUME LedgerInv, TypeOK', TaskInv', StopCancels \/ Crash \/ Restart
  PROVE  LedgerInv'
<1> USE DEF file, transaction, task, bounds
<1>1. /\ \A r \in Records : caller[r] = "raised" => caller'[r] = "raised"
      /\ \A r \in Records : caller'[r] = "returned" => caller[r] = "returned"
  BY DEF StopCancels, Crash, Restart, Unanswered, LedgerInv, TypeOK
<1>2. /\ rows' = rows /\ audited' = audited /\ pendingRows' = <<>> /\ step' = "idle"
      /\ (blocked' => blocked)
  <2>1. CASE StopCancels \/ Crash
    BY <2>1 DEF StopCancels, Crash, LedgerInv, HandInv, TaskInv
  <2>2. CASE Restart
    BY <2>2 DEF Restart, LedgerInv, HandInv, TaskInv, PendingInv, Alive
  <2> QED
    BY <2>1, <2>2
<1>3. ChainIsLinear'
  BY <1>1, <1>2, ChainStays
<1>4. PendingInv' /\ HandInv'
  BY <1>2 DEF PendingInv, HandInv
<1>5. HeadInv'
  <2>1. CASE StopCancels \/ Crash
    BY <2>1 DEF StopCancels, Crash, HeadInv, Alive
  <2>2. CASE Restart
    <3>1. Len(rows) \in Nat /\ (rows = <<>> <=> Len(rows) = 0)
      BY RowsHold DEF LedgerInv, TypeOK
    <3>2. head' = NameOf(rows, Len(rows))
      BY <2>2, <3>1 DEF Restart, RecoveredHead, NameOf, Last
    <3>3. Len(rows) \in 0..Len(rows) /\ \A i \in (Len(rows) + 1)..Len(rows) : FALSE
      BY <3>1
    <3> QED
      BY <1>2, <3>2, <3>3 DEF HeadInv, NameOf
  <2> QED
    BY <2>1, <2>2
<1>6. ReturnedIsDurable'
  BY <1>1, <1>2 DEF LedgerInv, ReturnedIsDurable
<1> QED
  BY <1>3, <1>4, <1>5, <1>6 DEF LedgerInv

\* One step keeps the strengthened invariant, whichever statement fails.
LEMMA WriteStep ==
  ASSUME LedgerInv, CallerInv, TypeOK', TaskInv', [Next]_vars
  PROVE  LedgerInv'
<1>1. ASSUME NEW r \in Records,
             AppendRecord(r) \/ ReconcileDiverges(r) \/ ReconcileMatches(r)
      PROVE  LedgerInv'
  BY <1>1, ProducerStep
<1>2. CASE ReconcileBlocks \/ ReconcileRaises \/ StopJoins \/ UNCHANGED vars
  BY <1>2, ProducerStep
<1>3. CASE Take \/ InsertRow \/ InsertAudit
  BY <1>3, InsertStep
<1>4. CASE Commit \/ ForeignCommit
  BY <1>4, CommitStep
<1>5. CASE Confirm
  BY <1>5, ConfirmStep
<1>6. ASSUME NEW rolledBack \in BOOLEAN, StatementFails(rolledBack)
      PROVE  LedgerInv'
  BY <1>6, FailStep
<1>7. CASE StopCancels \/ Crash \/ Restart
  BY <1>7, ProcessStep
<1> QED
  BY <1>1, <1>2, <1>3, <1>4, <1>5, <1>6, <1>7 DEF Next

\* An empty file, an idle writer and no request satisfy the invariant.
LEMMA LedgerInitially == Init => LedgerInv /\ CallerInv
<1> SUFFICES ASSUME Init PROVE LedgerInv /\ CallerInv
  OBVIOUS
<1> USE LedgerAssumption
<1>1. TypeOK
  <2>1. <<>> \in Rows /\ <<>> \in Seq(Records) /\ Len(<<>>) <= QueueSize
    BY DEF Rows
  <2>2. 0 \in 0..MaxFaults /\ 0 \in 0..MaxRestarts
    OBVIOUS
  <2> QED
    BY <2>1, <2>2 DEF Init, TypeOK, Callers
<1>2. rows = <<>> /\ pendingRows = <<>> /\ Len(<<>>) = 0 /\ DOMAIN rows = {}
  BY DEF Init
<1>3. HeadInv
  BY <1>2 DEF Init, HeadInv, NameOf
<1>4. PendingInv /\ HandInv /\ ChainIsLinear /\ ReturnedIsDurable /\ CallerInv
  BY <1>2 DEF Init, PendingInv, HandInv, TaskInv, ChainIsLinear, ReturnedIsDurable, CallerInv
<1> QED
  BY <1>1, <1>3, <1>4 DEF LedgerInv

\* Whichever statements fail, the variables stay in their types: the queue in
\* its bound, and a row of the file has a record and a parent.
THEOREM LedgerTyped == Spec => []TypeOK
<1>1. Init => TypeOK /\ TaskInv
  BY LedgerInitially DEF LedgerInv, HandInv, TaskInv
<1>2. (TypeOK /\ TaskInv) /\ [Next]_vars => (TypeOK /\ TaskInv)'
  BY LedgerTypeStep, TaskStep
<1> QED
  BY <1>1, <1>2, PTL DEF Spec

\* The strengthened invariant holds throughout.
LEMMA LedgerInductive == Spec => [](LedgerInv /\ CallerInv)
<1>1. LedgerInv => TypeOK /\ TaskInv
  BY DEF LedgerInv, HandInv
<1>2. (LedgerInv /\ CallerInv) /\ [Next]_vars => (LedgerInv /\ CallerInv)'
  BY <1>1, LedgerTypeStep, TaskStep, CallerStep, WriteStep
<1> QED
  BY <1>2, LedgerInitially, PTL DEF Spec

\* One writer, one linear chain, whichever of the three statements fail, with the
\* transaction or without, and over every crash, restart, stop and foreign commit:
\* a durable row names an earlier one, and passes over nothing but the rows of
\* appends that raised.
THEOREM LinearChain == Spec => []ChainIsLinear
<1>1. LedgerInv => ChainIsLinear
  BY DEF LedgerInv
<1> QED
  BY <1>1, LedgerInductive, PTL

\* Whichever statements fail, an append that has returned to its caller has its
\* row and its audit row on disk, and a ledger blocked by a divergence has the
\* correction on disk.
THEOREM ReturnedDurable == Spec => []ReturnedIsDurable
<1>1. LedgerInv => ReturnedIsDurable
  BY DEF LedgerInv
<1> QED
  BY <1>1, LedgerInductive, PTL

-----------------------------------------------------------------------------
\* The abstract log

\* The records that have a durable row.
Durable == {r \in Records : HasRow(r)}

\* The records that have a row in the open transaction.
Pending == {r \in Records : \E k \in 1..Len(pendingRows) : pendingRows[k].record = r}

\* A record on its way has no row until its INSERT, and none has two; what was
\* never inserted or was refused has none.
OnceInv ==
  /\ \A r \in Records :
       \/ caller[r] \in {"new", "refused"}
       \/ step = "insert" /\ r = current
       \/ \E k \in 1..Len(queue) : queue[k] = r
       => r \notin Durable \cup Pending
  /\ \A j, k \in 1..Len(pendingRows) :
       pendingRows[j].record = pendingRows[k].record => j = k
  /\ \A j \in 1..Len(rows), k \in 1..Len(pendingRows) :
       rows[j].record # pendingRows[k].record

\* What a commit adds to the log, whoever makes it.
LEMMA CommitGrowsLog ==
  ASSUME TypeOK, OnceInv, CommitPending
  PROVE  /\ Durable' = Durable \cup Pending /\ Pending' = {}
         /\ \A j \in 1..Len(rows') : \A k \in 1..Len(pendingRows') :
              rows'[j].record # pendingRows'[k].record
         /\ \A j, k \in 1..Len(pendingRows') : j = k
<1>1. /\ rows' \in Rows /\ pendingRows' = <<>>
      /\ Len(rows') = Len(rows) + Len(pendingRows)
      /\ \A k \in 1..Len(rows) : rows'[k] = rows[k]
      /\ \A k \in 1..Len(pendingRows) : rows'[Len(rows) + k] = pendingRows[k]
      /\ \A k \in 1..Len(rows') : k \in 1..Len(rows) \/ k - Len(rows) \in 1..Len(pendingRows)
  BY RowsCommitted
<1>2. /\ Len(rows) \in Nat /\ Len(pendingRows) \in Nat
      /\ DOMAIN rows = 1..Len(rows) /\ DOMAIN rows' = 1..Len(rows')
      /\ Len(pendingRows') = 0
  BY <1>1, RowsHold DEF TypeOK
<1>3. \A k \in 1..Len(pendingRows') : FALSE
  BY <1>2
<1>4. ASSUME NEW r \in Records, HasRow(r)'
      PROVE  HasRow(r) \/ r \in Pending
  <2>1. PICK k \in 1..Len(rows') : rows'[k].record = r
    BY <1>2, <1>4 DEF HasRow
  <2>2. CASE k \in 1..Len(rows)
    BY <1>1, <1>2, <2>1, <2>2 DEF HasRow
  <2>3. CASE k - Len(rows) \in 1..Len(pendingRows)
    <3>1. PICK q \in 1..Len(pendingRows) : q = k - Len(rows)
      BY <2>3
    <3>2. k = Len(rows) + q
      BY <1>1, <1>2, <3>1
    <3> QED
      BY <1>1, <2>1, <3>2 DEF Pending
  <2> QED
    BY <1>1, <2>2, <2>3
<1>5. ASSUME NEW r \in Records, HasRow(r) \/ r \in Pending
      PROVE  HasRow(r)'
  <2>1. CASE HasRow(r)
    <3>1. PICK k \in 1..Len(rows) : rows[k].record = r
      BY <1>2, <2>1 DEF HasRow
    <3>2. k \in 1..Len(rows')
      BY <1>1, <1>2
    <3> QED
      BY <1>1, <1>2, <3>1, <3>2 DEF HasRow
  <2>2. CASE r \in Pending
    <3>1. PICK k \in 1..Len(pendingRows) : pendingRows[k].record = r
      BY <2>2 DEF Pending
    <3>2. Len(rows) + k \in 1..Len(rows')
      BY <1>1, <1>2
    <3> QED
      BY <1>1, <1>2, <3>1, <3>2 DEF HasRow
  <2> QED
    BY <1>5, <2>1, <2>2
<1>6. Durable' = Durable \cup Pending
  BY <1>4, <1>5 DEF Durable, Pending
<1>7. Pending' = {}
  BY <1>3 DEF Pending
<1> QED
  BY <1>3, <1>6, <1>7

\* One step keeps every record from a second row.
LEMMA OnceStep ==
  ASSUME TypeOK, TaskInv, CallerInv, OnceInv, [Next]_vars
  PROVE  OnceInv'
<1> USE DEF file, transaction, task, bounds
<1>1. /\ Len(rows) \in Nat /\ Len(pendingRows) \in Nat /\ DOMAIN rows = 1..Len(rows)
      /\ \A k \in 1..Len(pendingRows) : pendingRows[k].record \in Records
      /\ \A k \in 1..Len(rows) : rows[k].record \in Records
      /\ caller \in [Records -> Callers]
  BY RowsHold DEF TypeOK
<1>2. ASSUME UNCHANGED <<rows, pendingRows>>,
             \A r \in Records :
               \/ caller'[r] \in {"new", "refused"}
               \/ step' = "insert" /\ r = current'
               \/ \E k \in 1..Len(queue') : queue'[k] = r
               => r \notin Durable \cup Pending
      PROVE  OnceInv'
  BY <1>2 DEF OnceInv, Durable, Pending, HasRow
<1>3. ASSUME NEW r \in Records,
             AppendRecord(r) \/ ReconcileDiverges(r) \/ ReconcileMatches(r)
      PROVE  OnceInv'
  <2>1. Enqueue(r) /\ UNCHANGED <<rows, pendingRows, step, current>>
    BY <1>3 DEF AppendRecord, ReconcileDiverges, ReconcileMatches
  <2>2. /\ caller[r] = "new"
        /\ Len(queue') = Len(queue) + 1 /\ queue'[Len(queue) + 1] = r
        /\ \A k \in 1..Len(queue) : queue'[k] = queue[k]
        /\ \A k \in 1..Len(queue') : k \in 1..Len(queue) \/ k = Len(queue) + 1
        /\ \A d \in Records : caller'[d] = IF d = r THEN "queued" ELSE caller[d]
    BY <2>1, Enqueued
  <2>3. r \notin Durable \cup Pending
    BY <2>2 DEF OnceInv
  <2>4. \A d \in Records :
          \/ caller'[d] \in {"new", "refused"}
          \/ step' = "insert" /\ d = current'
          \/ \E k \in 1..Len(queue') : queue'[k] = d
          => d \notin Durable \cup Pending
    BY <2>1, <2>2, <2>3 DEF OnceInv
  <2> QED
    BY <1>2, <2>1, <2>4
<1>4. CASE ReconcileBlocks \/ ReconcileRaises \/ InsertAudit \/ StopJoins \/ UNCHANGED vars
  <2>1. UNCHANGED <<rows, pendingRows, caller, queue, current>>
        /\ (step' = "insert" => step = "insert")
    BY <1>4 DEF ReconcileBlocks, ReconcileRaises, InsertAudit, StopJoins, vars
  <2> QED
    BY <1>2, <2>1 DEF OnceInv
<1>5. CASE Take
  <2>1. UNCHANGED <<rows, pendingRows, caller>>
    BY <1>5 DEF Take
  <2>2. /\ 1 \in 1..Len(queue) /\ current' = queue[1]
        /\ \A k \in 1..Len(queue') : queue'[k] = queue[k + 1] /\ k + 1 \in 1..Len(queue)
    BY <1>5, Taken
  <2>3. \A r \in Records :
          \/ r = current'
          \/ \E k \in 1..Len(queue') : queue'[k] = r
          => \E k \in 1..Len(queue) : queue[k] = r
    BY <2>2
  <2>4. \A r \in Records :
          \/ caller'[r] \in {"new", "refused"}
          \/ step' = "insert" /\ r = current'
          \/ \E k \in 1..Len(queue') : queue'[k] = r
          => r \notin Durable \cup Pending
    BY <2>1, <2>3 DEF OnceInv
  <2> QED
    BY <1>2, <2>1, <2>4
<1>6. CASE InsertRow
  <2> DEFINE e == Row(current, head)
  <2>1. e \in LedgerRow /\ current \in Records
    BY <1>6 DEF InsertRow, TaskInv, TypeOK, Row, LedgerRow
  <2>2. pendingRows' = Append(pendingRows, e) /\ step = "insert" /\ step' = "audit"
        /\ UNCHANGED <<rows, caller, queue, current>>
    BY <1>6 DEF InsertRow, Row
  <2>3. /\ Len(pendingRows') = Len(pendingRows) + 1
        /\ \A k \in 1..Len(pendingRows) : pendingRows'[k] = pendingRows[k]
        /\ pendingRows'[Len(pendingRows) + 1].record = current
    <3>1. pendingRows \in Rows
      BY DEF TypeOK
    <3>2. e.record = current
      BY DEF Row
    <3> HIDE DEF e
    <3> QED
      BY <2>1, <2>2, <3>1, <3>2, RowAppended
  <2>4. current \notin Durable \cup Pending
    BY <2>1, <2>2 DEF OnceInv
  <2>5. \A k \in 1..Len(pendingRows') : k \in 1..Len(pendingRows) \/ k = Len(pendingRows) + 1
    BY <1>1, <2>3
  <2>6. Durable' = Durable
    BY <2>2 DEF Durable, HasRow
  <2>7. \A r \in Pending' : r \in Pending \/ r = current
    BY <2>3, <2>5 DEF Pending
  <2>8. \A k \in 1..Len(pendingRows) : pendingRows[k].record # current
    BY <1>1, <2>1, <2>4 DEF Pending
  <2>9. \A k \in 1..Len(rows) : rows[k].record # current
    BY <1>1, <2>1, <2>4 DEF Durable, HasRow
  <2>10. \A j, k \in 1..Len(pendingRows') :
           pendingRows'[j].record = pendingRows'[k].record => j = k
    BY <2>3, <2>5, <2>8 DEF OnceInv
  <2>11. \A j \in 1..Len(rows'), k \in 1..Len(pendingRows') :
           rows'[j].record # pendingRows'[k].record
    BY <2>2, <2>3, <2>5, <2>9 DEF OnceInv
  <2>12. caller[current] = "queued" /\ \A k \in 1..Len(queue) : queue[k] # current
    BY <2>2 DEF CallerInv
  <2>13. \A r \in Records :
           \/ caller'[r] \in {"new", "refused"}
           \/ step' = "insert" /\ r = current'
           \/ \E k \in 1..Len(queue') : queue'[k] = r
           => r \notin Durable' \cup Pending'
    BY <2>2, <2>6, <2>7, <2>12 DEF OnceInv
  <2> QED
    BY <2>10, <2>11, <2>13 DEF OnceInv
<1>7. CASE Commit \/ ForeignCommit
  <2>1. CommitPending /\ UNCHANGED <<caller, queue, current>>
        /\ (step' = "insert" => step = "insert")
    BY <1>7 DEF Commit, ForeignCommit
  <2>2. /\ Durable' = Durable \cup Pending /\ Pending' = {}
        /\ \A j \in 1..Len(rows') : \A k \in 1..Len(pendingRows') :
             rows'[j].record # pendingRows'[k].record
        /\ \A j, k \in 1..Len(pendingRows') : j = k
    BY <2>1, CommitGrowsLog
  <2> QED
    BY <2>1, <2>2 DEF OnceInv
<1>8. ASSUME NEW answer, step # "idle", step' = "idle", UNCHANGED <<rows, queue>>,
             caller' = [caller EXCEPT ![current] = answer],
             answer \in {"new", "refused"} => current \notin Durable \cup Pending,
             pendingRows' = pendingRows \/ pendingRows' = <<>>
      PROVE  OnceInv'
  <2>1. \A r \in Records : caller'[r] = IF r = current THEN answer ELSE caller[r]
    BY <1>1, <1>8
  <2>2. Durable' = Durable /\ Pending' \subseteq Pending
    BY <1>8 DEF Durable, HasRow, Pending
  <2>3. \A r \in Records :
          \/ caller'[r] \in {"new", "refused"}
          \/ step' = "insert" /\ r = current'
          \/ \E k \in 1..Len(queue') : queue'[k] = r
          => r \notin Durable' \cup Pending'
    BY <1>8, <2>1, <2>2 DEF OnceInv
  <2>4. pendingRows' = pendingRows \/ \A k \in 1..Len(pendingRows') : FALSE
    BY <1>8
  <2> QED
    BY <1>8, <2>3, <2>4 DEF OnceInv
<1>9. CASE Confirm
  <2>1. /\ step # "idle" /\ step' = "idle" /\ UNCHANGED <<rows, queue, pendingRows>>
        /\ caller' = [caller EXCEPT ![current] = "returned"]
    BY <1>9 DEF Confirm
  <2> QED
    BY <1>8, <2>1
<1>10. ASSUME NEW rolledBack \in BOOLEAN, StatementFails(rolledBack)
       PROVE  OnceInv'
  <2>1. PICK answer : answer = IF step = "insert" THEN "refused" ELSE "raised"
    OBVIOUS
  <2>2. /\ step # "idle" /\ step' = "idle" /\ UNCHANGED <<rows, queue>>
        /\ caller' = [caller EXCEPT ![current] = answer]
        /\ pendingRows' = pendingRows \/ pendingRows' = <<>>
    BY <1>10, <2>1, LedgerAssumption DEF StatementFails, Steps
  <2>3. answer \in {"new", "refused"} => current \notin Durable \cup Pending
    BY <2>1, <2>2 DEF OnceInv, TaskInv
  <2> QED
    BY <1>8, <2>2, <2>3
<1>11. CASE StopCancels \/ Crash
  <2>1. /\ UNCHANGED rows /\ pendingRows' = <<>> /\ queue' = <<>> /\ step' = "idle"
        /\ \A r \in Records : caller'[r] \in {"new", "refused"} => caller'[r] = caller[r]
    BY <1>11 DEF StopCancels, Crash, Unanswered, TaskInv
  <2>2. Durable' = Durable /\ Pending' = {}
        /\ (\A k \in 1..Len(pendingRows') : FALSE) /\ (\A k \in 1..Len(queue') : FALSE)
    BY <2>1 DEF Durable, HasRow, Pending
  <2> QED
    BY <2>1, <2>2 DEF OnceInv
<1>12. CASE Restart
  <2>1. UNCHANGED <<rows, pendingRows, caller, queue, step, current>>
    BY <1>12 DEF Restart
  <2> QED
    BY <1>2, <2>1 DEF OnceInv
<1> QED
  BY <1>3, <1>4, <1>5, <1>6, <1>7, <1>9, <1>10, <1>11, <1>12 DEF Next

\* The refinement mapping of LedgerWriter.
Order == [k \in DOMAIN rows |-> rows[k].record]
Answered(answer) == {r \in Records : caller[r] = answer}

\* What is in the log of the abstract specification.
LEMMA OrderIsLogged ==
  ASSUME TypeOK
  PROVE  {Order[k] : k \in DOMAIN Order} = Durable
<1>1. \A k \in DOMAIN rows : rows[k].record \in Records
  BY RowsHold DEF TypeOK
<1> QED
  BY <1>1 DEF Order, Durable, HasRow

\* A commit is nothing to the abstract log, or it grows by records that raised
\* and one that may not have.
LEMMA CommitRefines ==
  ASSUME LedgerInv, OnceInv, CommitPending, UNCHANGED caller
  PROVE  [Log!Next]_(Log!vars)
<1>1. /\ rows' \in Rows /\ Len(rows') = Len(rows) + Len(pendingRows)
      /\ \A k \in 1..Len(rows) : rows'[k] = rows[k]
      /\ \A k \in 1..Len(pendingRows) : rows'[Len(rows) + k] = pendingRows[k]
      /\ \A k \in 1..Len(rows') : k \in 1..Len(rows) \/ k - Len(rows) \in 1..Len(pendingRows)
  BY RowsCommitted DEF LedgerInv
<1>2. /\ Len(rows) \in Nat /\ Len(pendingRows) \in Nat
      /\ DOMAIN rows = 1..Len(rows) /\ DOMAIN rows' = 1..Len(rows')
      /\ \A k \in 1..Len(rows') : rows'[k].record \in Records
      /\ \A k \in 1..Len(pendingRows) : pendingRows[k].record \in Records
      /\ pendingRows = <<>> <=> Len(pendingRows) = 0
  BY <1>1, RowsHold DEF LedgerInv, TypeOK
<1>3. CASE pendingRows = <<>>
  <2>1. rows' = rows
    <3>1. rows \in Seq(LedgerRow) /\ rows' = rows \o <<>>
      BY <1>3 DEF CommitPending, LedgerInv, TypeOK, Rows, LedgerRow
    <3> HIDE DEF LedgerRow
    <3> QED
      BY <3>1
  <2> QED
    BY <2>1 DEF Log!vars
<1>4. CASE pendingRows # <<>>
  <2> DEFINE new == DOMAIN Order' \ DOMAIN Order
  <2>1. Log!Logged = Durable
    BY OrderIsLogged DEF LedgerInv, Log!Logged, Order
  <2>2. /\ DOMAIN Order = 1..Len(rows) /\ DOMAIN Order' = 1..Len(rows')
        /\ \A k \in 1..Len(rows) : Order[k] = rows[k].record
        /\ \A k \in 1..Len(rows') : Order'[k] = rows'[k].record
    BY <1>2 DEF Order
  <2>3. Order' \in Seq(Records) /\ Len(Order') = Len(rows')
    <3>1. Order' = [k \in 1..Len(rows') |-> rows'[k].record]
      BY <1>2 DEF Order
    <3>2. Len(rows') \in Nat
      BY <1>1, <1>2
    <3> QED
      BY <1>2, <3>1, <3>2
  <2>4. \A k \in 1..Len(rows) : k \in 1..Len(rows') /\ Order'[k] = Order[k]
    BY <1>1, <1>2, <2>2
  <2>5. ASSUME NEW k \in new
        PROVE  \E q \in 1..Len(pendingRows) :
                 k = Len(rows) + q /\ Order'[k] = pendingRows[q].record
    <3>1. k \in 1..Len(rows') /\ k - Len(rows) \in 1..Len(pendingRows)
      BY <1>1, <2>2
    <3>2. PICK q \in 1..Len(pendingRows) : q = k - Len(rows)
      BY <3>1
    <3>3. k = Len(rows) + q
      BY <1>1, <1>2, <3>1, <3>2
    <3> QED
      BY <1>1, <2>2, <3>1, <3>3
  <2>6. ASSUME NEW k \in new
        PROVE  /\ Order'[k] \notin Durable \cup Answered("refused")
               /\ k = Len(Order') \/ Order'[k] \in Answered("raised")
    <3>1. PICK q \in 1..Len(pendingRows) : k = Len(rows) + q /\ Order'[k] = pendingRows[q].record
      BY <2>5
    <3>2. pendingRows[q].record \in Pending
      BY <1>2 DEF Pending
    <3>3. pendingRows[q].record \notin Durable
      BY <1>2 DEF OnceInv, Durable, HasRow
    <3>4. pendingRows[q].record \notin Answered("refused")
      BY <3>2 DEF OnceInv, Answered
    <3>5. Raised(pendingRows[q].record) \/ q = Len(pendingRows)
      BY DEF LedgerInv, PendingInv
    <3> QED
      BY <1>1, <1>2, <2>3, <3>1, <3>3, <3>4, <3>5 DEF Raised, Answered
  <2>7. ASSUME NEW j \in new, NEW k \in new, Order'[j] = Order'[k]
        PROVE  j = k
    <3>1. PICK p \in 1..Len(pendingRows) : j = Len(rows) + p /\ Order'[j] = pendingRows[p].record
      BY <2>5
    <3>2. PICK q \in 1..Len(pendingRows) : k = Len(rows) + q /\ Order'[k] = pendingRows[q].record
      BY <2>5
    <3> QED
      BY <2>7, <3>1, <3>2 DEF OnceInv
  <2>8. new # {}
    <3>1. Len(rows') \in 1..Len(rows') /\ Len(rows') \notin 1..Len(rows)
      BY <1>1, <1>2, <1>4
    <3> QED
      BY <2>2, <3>1
  <2>9. Log!Persist
    BY <2>1, <2>2, <2>3, <2>4, <2>6, <2>7, <2>8
       DEF Log!Persist, Log!answers, Order, Answered
  <2> QED
    BY <2>9 DEF Log!Next
<1> QED
  BY <1>3, <1>4

\* Every step of the writer is a step of the abstract log or none.
LEMMA LogStep ==
  ASSUME LedgerInv, CallerInv, OnceInv, TypeOK', TaskInv', [Next]_vars
  PROVE  [Log!Next]_(Log!vars)
<1> USE DEF file, transaction, task, bounds
<1> DEFINE Final == {"returned", "refused", "raised"}
<1>1. caller \in [Records -> Callers] /\ TaskInv
  BY DEF LedgerInv, TypeOK, HandInv
<1>2. Log!Logged = Durable
  BY OrderIsLogged DEF LedgerInv, Log!Logged, Order
<1>3. ASSUME UNCHANGED rows,
             \A r \in Records : \A answer \in Final :
               caller'[r] = answer <=> caller[r] = answer
      PROVE  UNCHANGED Log!vars
  BY <1>3 DEF Log!vars
<1>4. ASSUME NEW r \in Records,
             AppendRecord(r) \/ ReconcileDiverges(r) \/ ReconcileMatches(r)
      PROVE  UNCHANGED Log!vars
  BY <1>1, <1>3, <1>4 DEF AppendRecord, ReconcileDiverges, ReconcileMatches, Enqueue
<1>5. CASE ReconcileBlocks \/ ReconcileRaises \/ Take \/ InsertRow \/ InsertAudit \/ StopJoins
           \/ Restart \/ UNCHANGED vars
  BY <1>3, <1>5 DEF ReconcileBlocks, ReconcileRaises, Take, InsertRow, InsertAudit, StopJoins,
     Restart, vars
<1>6. CASE StopCancels \/ Crash
  <2>1. \A r \in Records : caller'[r] = IF caller[r] = "queued" THEN "lost" ELSE caller[r]
    BY <1>6 DEF StopCancels, Crash, Unanswered
  <2> QED
    BY <1>3, <1>6, <2>1 DEF StopCancels, Crash
<1>7. CASE Commit \/ ForeignCommit
  BY <1>7, CommitRefines DEF Commit, ForeignCommit
<1>8. ASSUME NEW answer \in Final, step # "idle", UNCHANGED rows,
             caller' = [caller EXCEPT ![current] = answer]
      PROVE  /\ current \in Records
             /\ \A other \in Final : current \notin Answered(other)
             /\ Answered(answer)' = Answered(answer) \cup {current}
             /\ \A other \in Final \ {answer} : Answered(other)' = Answered(other)
  <2>1. current \in Records /\ caller[current] = "queued"
    BY <1>1, <1>8 DEF TaskInv, CallerInv
  <2>2. \A r \in Records : caller'[r] = IF r = current THEN answer ELSE caller[r]
    BY <1>1, <1>8
  <2> QED
    BY <2>1, <2>2 DEF Answered
<1>9. CASE Confirm
  <2>1. step # "idle" /\ UNCHANGED rows
        /\ caller' = [caller EXCEPT ![current] = "returned"]
    BY <1>9 DEF Confirm
  <2>2. current \in Durable
    BY <1>9, ConfirmStep DEF Durable
  <2>3. /\ \A other \in Final : current \notin Answered(other)
        /\ Answered("returned")' = Answered("returned") \cup {current}
        /\ Answered("refused")' = Answered("refused")
        /\ Answered("raised")' = Answered("raised")
    BY <1>8, <2>1
  <2>4. PICK r \in Records : r = current
    BY <1>8, <2>1
  <2>5. Log!Return(r)
    BY <1>2, <2>1, <2>2, <2>3, <2>4 DEF Log!Return, Log!Answered, Answered
  <2> QED
    BY <2>5 DEF Log!Next
<1>10. ASSUME NEW rolledBack \in BOOLEAN, StatementFails(rolledBack)
       PROVE  Log!Next
  <2>1. step # "idle" /\ UNCHANGED rows
        /\ caller' = [caller EXCEPT ![current] = IF step = "insert" THEN "refused" ELSE "raised"]
    BY <1>10, LedgerAssumption DEF StatementFails, Steps
  <2>2. CASE step = "insert"
    <3>1. caller' = [caller EXCEPT ![current] = "refused"]
      BY <2>1, <2>2
    <3>2. /\ \A other \in Final : current \notin Answered(other)
          /\ Answered("refused")' = Answered("refused") \cup {current}
          /\ Answered("returned")' = Answered("returned")
          /\ Answered("raised")' = Answered("raised")
      BY <1>8, <2>1, <3>1
    <3>3. current \in Records
      BY <1>8, <2>1, <3>1
    <3>4. current \notin Durable
      BY <2>2, <3>3 DEF OnceInv
    <3>5. PICK r \in Records : r = current
      BY <3>3
    <3>6. Log!Refuse(r)
      BY <1>2, <2>1, <3>2, <3>4, <3>5 DEF Log!Refuse, Log!Answered, Answered
    <3> QED
      BY <3>6 DEF Log!Next
  <2>3. CASE step # "insert"
    <3>1. caller' = [caller EXCEPT ![current] = "raised"]
      BY <2>1, <2>3
    <3>2. /\ \A other \in Final : current \notin Answered(other)
          /\ Answered("raised")' = Answered("raised") \cup {current}
          /\ Answered("returned")' = Answered("returned")
          /\ Answered("refused")' = Answered("refused")
      BY <1>8, <2>1, <3>1
    <3>3. PICK r \in Records : r = current
      BY <1>8, <2>1, <3>1
    <3>4. Log!Raise(r)
      BY <2>1, <3>2, <3>3 DEF Log!Raise, Log!Answered, Answered
    <3> QED
      BY <3>4 DEF Log!Next
  <2> QED
    BY <2>2, <2>3
<1> QED
  BY <1>4, <1>5, <1>6, <1>7, <1>9, <1>10 DEF Next

\* Whichever statements fail, the writer implements the abstract log: records
\* become durable in one order that never changes and none of them twice; an
\* append is answered once, by what is in the log, never will be, or was left
\* unfinished.
THEOREM WriterImplementsLog == Spec => LogSpec
<1>1. Init => OnceInv /\ Log!Init
  <2> SUFFICES ASSUME Init PROVE OnceInv /\ Log!Init
    OBVIOUS
  <2>1. rows = <<>> /\ pendingRows = <<>> /\ \A r \in Records : caller[r] = "new"
    BY DEF Init
  <2>2. Durable = {} /\ Pending = {}
    BY <2>1 DEF Durable, HasRow, Pending
  <2>3. OnceInv
    BY <2>1, <2>2 DEF OnceInv
  <2> QED
    BY <2>1, <2>3 DEF Log!Init
<1>2. LedgerInv /\ CallerInv /\ OnceInv /\ [Next]_vars => OnceInv' /\ [Log!Next]_(Log!vars)
  <2>1. LedgerInv => TypeOK /\ TaskInv
    BY DEF LedgerInv, HandInv
  <2> QED
    BY <2>1, LedgerTypeStep, TaskStep, OnceStep, LogStep
<1>3. Spec => [](LedgerInv /\ CallerInv)
  BY LedgerInductive
<1> QED
  BY <1>1, <1>2, <1>3, PTL DEF Spec, LogSpec, Log!Spec
=============================================================================
