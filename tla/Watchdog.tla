------------------------------ MODULE Watchdog ------------------------------
(***************************************************************************)
(* The host's dead-man switch (ops/watchdog.py) and the backup of its      *)
(* database (ops/backup.py): heartbeats and their monitoring pass, the     *)
(* fail-closed states, the hash-chained recovery log with its in-memory    *)
(* mirror, the send-only mail channel, and backup, restore and drill.      *)
(*                                                                         *)
(* A hash stands for everything it was computed over: the payload hash of  *)
(* a row is the sequence of the kinds recorded up to it.                   *)
(***************************************************************************)
EXTENDS Integers, Sequences, FiniteSets, SequencesExt

CONSTANTS
  MissLimit,      \* HEARTBEAT_MISS_LIMIT, in heartbeat intervals
  DecisionLimit,  \* DECISION_TIMEOUT_SECONDS, in the same unit
  OpenOrders,     \* orders with the type the venue reports for them
  Credential,     \* the owner injected a mail credential
  LastTime, MaxEvents

ASSUME WatchdogBounds ==
  /\ MissLimit \in Nat \ {0} /\ DecisionLimit \in Nat
  /\ Credential \in BOOLEAN /\ LastTime \in Nat /\ MaxEvents \in Nat

Protective == {"STOP_LOSS", "TAKE_PROFIT", "PROTECTIVE_COLLAR"}
ResolvedStates == {"RECOVERY", "MANUAL_OVERRIDE", "NORMAL", "EMERGENCY_CLOSE"}

VARIABLES
  clockNow,    \* heartbeat intervals elapsed
  lastBeat,    \* interval of the last heartbeat (-1: none yet)
  mode,        \* Watchdog.state
  logMirror,   \* RecoveryLog._rows: [kind, hash]
  logDisk,     \* rows of ops_recovery_log
  logOpen,     \* the log has a database connection
  holes,       \* history: places of stored rows with a row lost before them
  inherited,   \* history: holes when the log in memory was read from the disk
  mails,       \* mails sent or refused: [alert, delivered]
  cancelled,   \* entry orders put to CANCEL_PENDING
  dbRows,      \* rows committed in the operator's database
  backups,     \* backup file (its second) -> rows in it
  restored     \* rows of the restored database (-1: none)

watchdogVars == <<clockNow, lastBeat, mode, logMirror, logDisk, logOpen, holes,
                  inherited, mails, cancelled, dbRows, backups, restored>>
logVars == <<logMirror, logDisk, logOpen, holes, inherited>>
backupVars == <<dbRows, backups, restored>>

-----------------------------------------------------------------------------
HeadOf(rows) == IF rows = <<>> THEN <<>> ELSE Last(rows).hash

\* RecoveryLog.append: the mirror and its head move before the row is
\* inserted, so a row whose insert fails stays in the mirror only.
Logged(kind, inserted) ==
  LET row == [kind |-> kind, hash |-> Append(HeadOf(logMirror), kind)] IN
    /\ Len(logMirror) < MaxEvents /\ Len(logDisk) < MaxEvents
    /\ logMirror' = Append(logMirror, row)
    /\ logDisk' = IF logOpen /\ inserted THEN Append(logDisk, row) ELSE logDisk
    /\ holes' = IF logOpen /\ inserted /\ Len(logMirror) > Len(logDisk)
                THEN holes \cup {Len(logDisk) + 1} ELSE holes
    /\ UNCHANGED <<logOpen, inherited>>

\* Mutant of LogBreaks: a row is checked alone, without the chain before it.
LogBreaksOfRow(rows) == {n \in 1..Len(rows) : Last(rows[n].hash) # rows[n].kind}

\* RecoveryLog.verify: recomputed from the start, each row on what was
\* recomputed before it; the rows whose stored hash differs.
LogBreaks(rows) ==
  {n \in 1..Len(rows) : rows[n].hash # [m \in 1..n |-> rows[m].kind]}

\* RecoveryLog.open: the mirror and the head are rebuilt from the rows stored.
OpenLog ==
  /\ ~logOpen
  /\ logOpen' = TRUE
  /\ logMirror' = logDisk /\ inherited' = holes
  /\ UNCHANGED <<clockNow, lastBeat, mode, logDisk, holes, mails, cancelled, backupVars>>

\* SendOnlyGmailChannel.send for a CRITICAL alert it accepts.
Mailed(alert) == mails \cup {[alert |-> alert, delivered |-> Credential]}

-----------------------------------------------------------------------------
Beat ==
  /\ lastBeat # clockNow
  /\ lastBeat' = clockNow
  /\ UNCHANGED <<clockNow, mode, logVars, mails, cancelled, backupVars>>

IntervalPasses ==
  /\ clockNow < LastTime
  /\ clockNow' = clockNow + 1
  /\ UNCHANGED <<lastBeat, mode, logVars, mails, cancelled, backupVars>>

\* observe: without a first heartbeat nothing is ever missed.
Missed == IF lastBeat = -1 THEN 0 ELSE clockNow - lastBeat

\* check: at the limit, the log first, then the mail.  A failed insert raises
\* out of the pass, before any mail is sent.
Check(inserted) ==
  /\ Missed >= MissLimit
  /\ Logged("HOST_DOWN", inserted)
  /\ mails' = IF inserted THEN Mailed("HOST_DOWN") ELSE mails
  /\ UNCHANGED <<clockNow, lastBeat, mode, cancelled, backupVars>>

\* enter_fail_closed with fail_closed_entry: protective orders are kept.
EnterFailClosed(inserted) ==
  /\ mode' = "FAIL_CLOSED"
  /\ Logged("FAIL_CLOSED_ENTRY", inserted)
  /\ cancelled' = IF inserted THEN {o \in DOMAIN OpenOrders : OpenOrders[o] = "ENTRY"}
                  ELSE cancelled
  /\ mails' = IF inserted THEN Mailed("FAIL_CLOSED") ELSE mails
  /\ UNCHANGED <<clockNow, lastBeat, backupVars>>

\* resolve: any state to any target, recorded after the state has moved.
Resolve(to, inserted) ==
  /\ mode' = to
  /\ Logged("STATE_TRANSITION", inserted)
  /\ UNCHANGED <<clockNow, lastBeat, mails, cancelled, backupVars>>

\* watchdog_timeout: the states whose silence drives the emergency close.
TimeoutDrives(state, silence) ==
  \/ state = "NORMAL" /\ silence >= DecisionLimit
  \/ state = "RECOVERY" /\ silence >= 5 * DecisionLimit

\* The process ends: what the mirror holds beyond the disk is gone.
ProcessRestarts ==
  /\ logOpen' = FALSE /\ logMirror' = <<>> /\ inherited' = {}
  /\ lastBeat' = -1 /\ mode' = "NORMAL" /\ cancelled' = {}
  /\ UNCHANGED <<clockNow, logDisk, holes, mails, backupVars>>

-----------------------------------------------------------------------------
CommitRow ==
  /\ dbRows < MaxEvents
  /\ dbRows' = dbRows + 1
  /\ UNCHANGED <<clockNow, lastBeat, mode, logVars, mails, cancelled, backups, restored>>

\* backup: an online copy; a second one in the same second takes its name.
Backup ==
  /\ backups' = [backups EXCEPT ![clockNow] = dbRows]
  /\ UNCHANGED <<clockNow, lastBeat, mode, logVars, mails, cancelled, dbRows, restored>>

\* restore: an existing target needs the overwrite flag.
Restore(stamp, overwrite) ==
  /\ backups[stamp] # -1
  /\ restored = -1 \/ overwrite
  /\ restored' = backups[stamp]
  /\ UNCHANGED <<clockNow, lastBeat, mode, logVars, mails, cancelled, dbRows, backups>>

\* restore_drill: a ledger built, backed up and restored in a directory of its
\* own; it compares the record counts and never touches the database.
DrillPasses(records) == records - records = 0

StorageAction(freePercent) ==
  IF freePercent < 15 THEN "PAUSE" ELSE IF freePercent < 20 THEN "ALERT" ELSE "PROCEED"

WatchdogInit ==
  /\ clockNow = 0 /\ lastBeat = -1 /\ mode = "NORMAL"
  /\ logMirror = <<>> /\ logDisk = <<>> /\ logOpen = FALSE
  /\ holes = {} /\ inherited = {}
  /\ mails = {} /\ cancelled = {}
  /\ dbRows = 0 /\ backups = [s \in 0..LastTime |-> -1] /\ restored = -1

LogNext ==
  \/ Beat \/ IntervalPasses \/ OpenLog \/ ProcessRestarts
  \/ \E inserted \in BOOLEAN :
       \/ Check(inserted)
       \/ EnterFailClosed(inserted)
       \/ \E to \in ResolvedStates : Resolve(to, inserted)

BackupNext ==
  \/ IntervalPasses \/ CommitRow \/ Backup
  \/ \E stamp \in 0..LastTime, overwrite \in BOOLEAN : Restore(stamp, overwrite)

-----------------------------------------------------------------------------
(* What verify() calls broken is exactly what is broken.  The stored log,  *)
(* read again: each row from the first one on that was written after its   *)
(* process had lost a row (watchdog.py 214-257: the head moves before the  *)
(* insert).  The log in memory: the rows that were broken when it was read *)
(* from the disk (202-206), and all that were recorded on top of them; a   *)
(* row this process loses never shows in its own verdict.                  *)
LogVerdictIsTrue ==
  LET from(rows, cut) == {n \in 1..Len(rows) : \E h \in cut : h <= n} IN
    /\ LogBreaks(logDisk) = from(logDisk, holes)
    /\ LogBreaks(logMirror) = from(logMirror, inherited)
=============================================================================
