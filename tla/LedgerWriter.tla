----------------------------- MODULE LedgerWriter -----------------------------
(***************************************************************************)
(* ledger/store.py LedgerWriter: producers queue records, one writer task  *)
(* links each to the chain head and writes it in three statements (INSERT  *)
(* ledger, INSERT ledger_audit, COMMIT), then moves the head and wakes the *)
(* producer.  The statements run on the store's one connection, which      *)
(* other coroutines also commit: whatever is pending is committed by       *)
(* whoever commits first.  Nothing ever rolls back explicitly; a statement *)
(* that fails may take the open transaction with it or leave it open (of   *)
(* the other coroutines' statements only the commits are modelled).        *)
(*                                                                         *)
(* A record stands for its payload hash (collision-free), so the chain     *)
(* link of a row is the record it names as parent.                         *)
(***************************************************************************)
EXTENDS Naturals, Sequences, SequencesExt, FiniteSets

CONSTANTS
  Ordinary,       \* transitions, fills, plans, outcomes
  Corrections,    \* CORRECTION_EVENT records of reconcile_against_exchange
  Resolutions,    \* RECONCILE_RESOLVED records
  Genesis,        \* "no head yet"
  QueueSize,      \* asyncio.Queue(maxsize)
  FaultySteps,    \* statements that may fail: "insert", "audit", "commit"
  MaxFaults,      \* bound: failing statements
  MaxRestarts     \* bound: processes started after the first

Records == Ordinary \cup Corrections \cup Resolutions
Steps == {"insert", "audit", "commit"}

ASSUME LedgerAssumption ==
  /\ Genesis \notin Records
  /\ QueueSize \in Nat \ {0}
  /\ FaultySteps \subseteq Steps
  /\ MaxFaults \in Nat /\ MaxRestarts \in Nat

VARIABLES
  rows,           \* committed ledger rows, oldest first: [record, parent]
  audited,        \* records with a committed ledger_audit row
  pendingRows,    \* ledger rows of the open transaction
  pendingAudit,   \* audit rows of the open transaction
  caller,         \* per record: where the append that carries it stands
  queue,          \* the writer queue
  step,           \* the writer task: "idle", a statement, or "confirm"
  current,        \* the record being applied (Genesis when idle)
  head,           \* LedgerWriter._head
  blocked,        \* LedgerWriter._blocked is set
  reconciling,    \* the correction reconcile_against_exchange awaits
  proc,           \* "up", "stopping", "stopped" (stop()), or "down" (killed)
  faults, restarts

file == <<rows, audited>>
transaction == <<pendingRows, pendingAudit>>
task == <<queue, step, current, head>>
bounds == <<faults, restarts>>
vars == <<file, transaction, caller, task, blocked, reconciling, proc, bounds>>

\* To its caller a refused append raises like any other; it is the one whose
\* first statement failed.  A lost one has nobody left to answer it.
Callers == {"new", "queued", "returned", "refused", "raised", "lost"}
Alive == proc \in {"up", "stopping"}

Init ==
  /\ rows = <<>> /\ audited = {}
  /\ pendingRows = <<>> /\ pendingAudit = {}
  /\ caller = [r \in Records |-> "new"]
  /\ queue = <<>> /\ step = "idle" /\ current = Genesis /\ head = Genesis
  /\ blocked = FALSE /\ reconciling = Genesis
  /\ proc = "up"
  /\ faults = 0 /\ restarts = 0

-----------------------------------------------------------------------------
\* Producers

\* Mutant of Enqueue: put_nowait on an unbounded queue.
EnqueueUnbounded(r) ==
  /\ Alive
  /\ caller[r] = "new"
  /\ queue' = Append(queue, r)
  /\ caller' = [caller EXCEPT ![r] = "queued"]

\* append up to `await self._queue.put(...)`; r is a fresh record.
Enqueue(r) ==
  /\ Alive
  /\ caller[r] = "new"
  /\ Len(queue) < QueueSize
  /\ queue' = Append(queue, r)
  /\ caller' = [caller EXCEPT ![r] = "queued"]

\* While a divergence blocks the ledger only its own audit is admitted.
AppendRecord(r) ==
  /\ r \in Ordinary
  /\ ~blocked
  /\ Enqueue(r)
  /\ UNCHANGED <<file, transaction, step, current, head, blocked, reconciling,
                 proc, bounds>>

\* reconcile_against_exchange finds a delta and appends its correction.
ReconcileDiverges(r) ==
  /\ r \in Corrections
  /\ reconciling = Genesis
  /\ Enqueue(r)
  /\ reconciling' = r
  /\ UNCHANGED <<file, transaction, step, current, head, blocked, proc, bounds>>

\* The correction is durable: only now does the reconciliation block.
ReconcileBlocks ==
  /\ Alive
  /\ reconciling # Genesis /\ caller[reconciling] = "returned"
  /\ blocked' = TRUE
  /\ reconciling' = Genesis
  /\ UNCHANGED <<file, transaction, caller, task, proc, bounds>>

\* The correction raised: the exception leaves the reconciliation.
ReconcileRaises ==
  /\ Alive
  /\ reconciling # Genesis /\ caller[reconciling] \in {"refused", "raised"}
  /\ reconciling' = Genesis
  /\ UNCHANGED <<file, transaction, caller, task, blocked, proc, bounds>>

\* A later comparison matches: unblocked first, then recorded.
ReconcileMatches(r) ==
  /\ r \in Resolutions
  /\ blocked /\ reconciling = Genesis
  /\ blocked' = FALSE
  /\ Enqueue(r)
  /\ UNCHANGED <<file, transaction, step, current, head, reconciling, proc,
                 bounds>>

-----------------------------------------------------------------------------
\* The writer task

\* Mutant of Take: the item is only peeked at.
TakeAgain ==
  /\ proc = "up" /\ step = "idle" /\ queue # <<>>
  /\ current' = Head(queue)
  /\ step' = "insert"
  /\ UNCHANGED <<file, transaction, caller, queue, head, blocked, reconciling,
                 proc, bounds>>

Take ==
  /\ proc = "up" /\ step = "idle" /\ queue # <<>>
  /\ current' = Head(queue)
  /\ queue' = Tail(queue)
  /\ step' = "insert"
  /\ UNCHANGED <<file, transaction, caller, head, blocked, reconciling, proc,
                 bounds>>

InsertRow ==
  /\ proc = "up" /\ step = "insert"
  /\ pendingRows' = Append(pendingRows, [record |-> current, parent |-> head])
  /\ step' = "audit"
  /\ UNCHANGED <<file, pendingAudit, caller, queue, current, head, blocked,
                 reconciling, proc, bounds>>

InsertAudit ==
  /\ proc = "up" /\ step = "audit"
  /\ pendingAudit' = pendingAudit \cup {current}
  /\ step' = "commit"
  /\ UNCHANGED <<file, pendingRows, caller, queue, current, head, blocked,
                 reconciling, proc, bounds>>

\* A COMMIT on the shared connection.
CommitPending ==
  /\ rows' = rows \o pendingRows
  /\ audited' = audited \cup pendingAudit
  /\ pendingRows' = <<>> /\ pendingAudit' = {}

\* Mutant of Commit: writes are buffered, the caller returns before COMMIT.
CommitLater ==
  /\ proc = "up" /\ step = "commit"
  /\ step' = "confirm"
  /\ UNCHANGED <<file, transaction, caller, queue, current, head, blocked,
                 reconciling, proc, bounds>>

Commit ==
  /\ proc = "up" /\ step = "commit"
  /\ CommitPending
  /\ step' = "confirm"
  /\ UNCHANGED <<caller, queue, current, head, blocked, reconciling, proc,
                 bounds>>

\* The commit has returned: the head moves and the producer's future resolves.
Confirm ==
  /\ proc = "up" /\ step = "confirm"
  /\ head' = current
  /\ caller' = [caller EXCEPT ![current] = "returned"]
  /\ step' = "idle" /\ current' = Genesis
  /\ UNCHANGED <<file, transaction, queue, blocked, reconciling, proc, bounds>>

\* Mutant of StatementFails: the exception ends the writer task.
StatementKillsTask(rolledBack) ==
  /\ proc = "up" /\ step \in FaultySteps /\ faults < MaxFaults
  /\ faults' = faults + 1
  /\ step' = "dead"
  /\ UNCHANGED <<file, transaction, caller, queue, current, head, blocked,
                 reconciling, proc, restarts>>

\* A statement raises: the future carries the exception and the task goes on
\* with the next item.  SQLite may or may not have ended the transaction.
StatementFails(rolledBack) ==
  /\ proc = "up" /\ step \in FaultySteps /\ faults < MaxFaults
  /\ faults' = faults + 1
  /\ caller' = [caller EXCEPT
                  ![current] = IF step = "insert" THEN "refused" ELSE "raised"]
  /\ step' = "idle" /\ current' = Genesis
  /\ IF rolledBack THEN pendingRows' = <<>> /\ pendingAudit' = {}
     ELSE UNCHANGED transaction
  /\ UNCHANGED <<file, queue, head, blocked, reconciling, proc, restarts>>

\* Another coroutine commits on the connection (append_trade_plan,
\* append_outcome, the cell cursor).
ForeignCommit ==
  /\ Alive
  /\ pendingRows # <<>> \/ pendingAudit # {}
  /\ CommitPending
  /\ UNCHANGED <<caller, task, blocked, reconciling, proc, bounds>>

-----------------------------------------------------------------------------
\* Lifecycle

Unanswered == [r \in Records |->
                 IF caller[r] = "queued" THEN "lost" ELSE caller[r]]

\* stop() waits until every queued append is done with; an append that slips in
\* before stop() goes on still gets into the queue.
StopJoins ==
  /\ proc = "up" /\ queue = <<>> /\ step = "idle"
  /\ proc' = "stopping"
  /\ UNCHANGED <<file, transaction, caller, task, blocked, reconciling, bounds>>

\* It then cancels the task at its queue and closes the writer; whoever queued
\* meanwhile waits for ever.  The store closes its connection afterwards.
StopCancels ==
  /\ proc = "stopping"
  /\ proc' = "stopped"
  /\ pendingRows' = <<>> /\ pendingAudit' = {}
  /\ caller' = Unanswered /\ queue' = <<>>
  /\ UNCHANGED <<file, step, current, head, blocked, reconciling, bounds>>

\* The process is killed: the open transaction is gone with it.
Crash ==
  /\ Alive
  /\ proc' = "down"
  /\ pendingRows' = <<>> /\ pendingAudit' = {}
  /\ caller' = Unanswered
  /\ queue' = <<>> /\ step' = "idle" /\ current' = Genesis
  /\ UNCHANGED <<file, head, blocked, reconciling, bounds>>

\* Mutant of RecoveredHead: the chain starts anew in every process.
NoRecoveredHead == Genesis

\* _recover_head: the payload hash of the last row.
RecoveredHead == IF rows = <<>> THEN Genesis ELSE Last(rows).record

\* initialize and start of a new writer on the same file.
Restart ==
  /\ ~Alive /\ restarts < MaxRestarts
  /\ restarts' = restarts + 1
  /\ proc' = "up"
  /\ head' = RecoveredHead
  /\ blocked' = FALSE /\ reconciling' = Genesis
  /\ UNCHANGED <<file, transaction, caller, queue, step, current, faults>>

Next ==
  \/ \E r \in Records :
       AppendRecord(r) \/ ReconcileDiverges(r) \/ ReconcileMatches(r)
  \/ ReconcileBlocks \/ ReconcileRaises
  \/ Take \/ InsertRow \/ InsertAudit \/ Commit \/ Confirm
  \/ \E rolledBack \in BOOLEAN : StatementFails(rolledBack)
  \/ ForeignCommit
  \/ StopJoins \/ StopCancels \/ Crash \/ Restart

Spec == Init /\ [][Next]_vars

\* The writer task runs whenever it can, and a stop that has begun ends.
Fairness ==
  /\ WF_vars(Take \/ InsertRow \/ InsertAudit \/ Commit \/ Confirm)
  /\ WF_vars(StopCancels)

FairSpec == Spec /\ Fairness

-----------------------------------------------------------------------------
\* Properties

Rows == Seq([record : Records, parent : Records \cup {Genesis}])

TypeOK ==
  /\ rows \in Rows /\ pendingRows \in Rows
  /\ audited \subseteq Records /\ pendingAudit \subseteq Records
  /\ caller \in [Records -> Callers]
  /\ queue \in Seq(Records) /\ Len(queue) <= QueueSize
  /\ step \in Steps \cup {"idle", "confirm"}
  /\ current \in Records \cup {Genesis} /\ head \in Records \cup {Genesis}
  /\ blocked \in BOOLEAN /\ reconciling \in Corrections \cup {Genesis}
  /\ proc \in {"up", "stopping", "stopped", "down"}
  /\ faults \in 0..MaxFaults /\ restarts \in 0..MaxRestarts

\* The payload hash of the k-th row; before the first there is none.
NameOf(s, k) == IF k = 0 THEN Genesis ELSE s[k].record

\* "One writer => one linear chain" (_apply), whichever statements fail, over
\* crashes, restarts and commits of other coroutines: a committed row names an
\* earlier one, and the rows between them, which it passes over, are all rows of
\* appends that raised.  Without a failing statement it is the row before it.
ChainIsLinear ==
  \A k \in DOMAIN rows : \E j \in 0..(k - 1) :
    /\ rows[k].parent = NameOf(rows, j)
    /\ \A i \in (j + 1)..(k - 1) : caller[rows[i].record] = "raised"

\* An append that returned is durable and audited, whatever happens later; a
\* divergence blocks the ledger only once its correction is durable.
ReturnedIsDurable ==
  /\ \A r \in Records : caller[r] = "returned" =>
       r \in audited /\ \E k \in DOMAIN rows : rows[k].record = r
  /\ blocked => \E k \in DOMAIN rows : rows[k].record \in Corrections

\* Every queued append is answered, unless the process dies or stop() has gone
\* past it.
AppendsAreAnswered ==
  \A r \in Records :
    caller[r] = "queued" ~> caller[r] \in {"returned", "refused", "raised", "lost"}

\* The abstract log, implemented.
Log == INSTANCE AppendLog
  WITH log <- [k \in DOMAIN rows |-> rows[k].record],
       returned <- {r \in Records : caller[r] = "returned"},
       refused <- {r \in Records : caller[r] = "refused"},
       raised <- {r \in Records : caller[r] = "raised"}

LogSpec == Log!Spec
=============================================================================
