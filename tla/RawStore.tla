------------------------------- MODULE RawStore -------------------------------
(***************************************************************************)
(* The raw candle tables, statement by statement: an observation is one    *)
(* raw row (immutable, unique by content) and one market row with a        *)
(* status; the serving process ingests closed bars, the repair command     *)
(* replaces rows that were stored before their bar had closed.  Each       *)
(* process has one connection, writes are pending until its commit, and a  *)
(* process that dies loses what is pending.  Bar b opens at b and closes   *)
(* at b + 1; a row is [bar, version].                                      *)
(***************************************************************************)
EXTENDS Naturals, FiniteSets

CONSTANTS LastBar,   \* bars are 1..LastBar
          LastTick,  \* bound on the clock
          Skew       \* SKEW_MARGIN_SECONDS

ASSUME RawStoreAssumption == {LastBar, LastTick, Skew} \subseteq Nat

VARIABLES storeClock, \* the clock
          evidence,   \* bar -> what the owner's evidence files say of it, fixed
          db,         \* committed: [raw, market, revisions, events]
          lock, work, \* the connection with a transaction open, and what it sees
          job         \* connection -> what its process is doing

rawStoreVars == <<storeClock, evidence, db, lock, work, job>>
tx == <<lock, work>>

StoredBars == 1..LastBar
Connections == {"serve", "repair"}
Versions == {"early", "later", "final"}   \* two snapshots of an open bar, the closed bar
NoLock == "none"
NoJob == [at |-> "idle", row |-> << >>, old |-> << >>, queue |-> {}]

CloseOf(bar) == bar + 1
Hidden == {"SUPERSEDED"}
VisibleRows(d, bar) == {r \in DOMAIN d.market : r.bar = bar /\ d.market[r] \notin Hidden}

(* A store whose newest rows an older build wrote: any of them may be a    *)
(* snapshot taken while its bar was open.                                  *)
OlderStore(bars, early) ==
  LET rows == {[bar |-> b, version |-> IF b \in early THEN "early" ELSE "final"] : b \in bars}
  IN [raw |-> [r \in rows |-> IF r.version = "early" THEN r.bar ELSE CloseOf(r.bar) + Skew],
      market |-> [r \in rows |-> "CLOSED"], revisions |-> {}, events |-> {}]

RawStoreInit ==
  /\ storeClock = 2
  /\ evidence \in [StoredBars -> {"none", "proves", "differs"}]
  /\ \E early \in SUBSET (1..2) : db = OlderStore(1..2, {2} \cup early)
  /\ lock = NoLock /\ work = db
  /\ job = [k \in Connections |-> NoJob]

View(k) == IF lock = k THEN work ELSE db
(* The first write of a transaction takes the database's write lock.       *)
MayWrite(k) == lock \in {NoLock, k}
Write(k, d) == MayWrite(k) /\ lock' = k /\ work' = d /\ UNCHANGED db
Commit(k, d) == MayWrite(k) /\ lock' = NoLock /\ work' = d /\ db' = d
WithRow(table, r, value) ==
  [x \in DOMAIN table \cup {r} |-> IF x = r THEN value ELSE table[x]]
Goto(k, place) == job' = [job EXCEPT ![k].at = place]

ClockAdvances ==
  /\ storeClock < LastTick /\ storeClock' = storeClock + 1
  /\ UNCHANGED <<evidence, db, tx, job>>

-----------------------------------------------------------------------------
(* ingest_raw: the raw row; an observation already there by content ends   *)
(* here; else the market row, and the commit of both.                      *)
InsertRaw(k) ==
  LET r == job[k].row  d == View(k)
  IN /\ job[k].at = "raw"
     /\ IF r \in DOMAIN d.raw
        THEN Commit(k, d) /\ Goto(k, "ingested")
        ELSE Write(k, [d EXCEPT !.raw = WithRow(@, r, storeClock)]) /\ Goto(k, "market")
     /\ UNCHANGED <<storeClock, evidence>>

InsertMarket(k) ==
  LET r == job[k].row  d == View(k)
  IN /\ job[k].at = "market"
     /\ Commit(k, [d EXCEPT !.market = WithRow(@, r, "CLOSED")]) /\ Goto(k, "ingested")
     /\ UNCHANGED <<storeClock, evidence>>

(* The catch-up serves the closed bars above the stored frontier.          *)
ServeIngests ==
  \E bar \in StoredBars :
    /\ job["serve"].at = "idle"
    /\ \A r \in DOMAIN db.raw : r.bar < bar
    /\ CloseOf(bar) <= storeClock
    /\ job' = [job EXCEPT !["serve"] = [NoJob EXCEPT !.at = "raw",
                                          !.row = [bar |-> bar, version |-> "final"]]]
    /\ UNCHANGED <<storeClock, evidence, db, tx>>

ServeIngested ==
  /\ job["serve"].at = "ingested" /\ job' = [job EXCEPT !["serve"] = NoJob]
  /\ UNCHANGED <<storeClock, evidence, db, tx>>

-----------------------------------------------------------------------------
(* The repair command.                                                     *)

Candidates(d) ==
  {r \in DOMAIN d.market : d.market[r] = "CLOSED" /\ d.raw[r] < CloseOf(r.bar) + Skew}

RepairStarts ==
  /\ job["repair"].at = "idle" /\ Candidates(db) # {}
  /\ job' = [job EXCEPT !["repair"] = [NoJob EXCEPT !.at = "next", !.queue = Candidates(db)]]
  /\ UNCHANGED <<storeClock, evidence, db, tx>>

ClosedOrNot(bar) == FALSE
StillOpen(bar) == CloseOf(bar) + Skew > storeClock

(* What the venue answers of the bar: its closed version, a snapshot of    *)
(* the open one, or nothing any more (window passed, error).               *)
VenueBar(bar) ==
  {[bar |-> bar, version |-> IF CloseOf(bar) <= storeClock THEN "final" ELSE "later"], << >>}

(* The owner's file is believed only about the row that is stored now.     *)
EvidenceBar(bar) == IF evidence[bar] = "proves" THEN [bar |-> bar, version |-> "final"] ELSE << >>

Replacement(bar, live) == IF live # << >> THEN live ELSE EvidenceBar(bar)

(* The oldest candidate is next.  A still open bar is skipped; no          *)
(* replacement is UNREPAIRABLE or refused, one that breaks the OHLC law is *)
(* refused, an identical one verified, a dry run writes nothing.           *)
RepairJudges ==
  \E old \in job["repair"].queue :
    LET rest == job["repair"].queue \ {old}
    IN /\ job["repair"].at = "next" /\ \A r \in rest : old.bar <= r.bar
       /\ \/ job' = [job EXCEPT !["repair"].queue = rest]
          \/ \E live \in VenueBar(old.bar) :
               LET new == Replacement(old.bar, live)
               IN /\ ~StillOpen(old.bar) /\ new \notin {<< >>, old}
                  /\ job' = [job EXCEPT !["repair"] =
                              [@ EXCEPT !.at = "supersede", !.old = old, !.row = new,
                                        !.queue = rest]]
       /\ UNCHANGED <<storeClock, evidence, db, tx>>

SupersedeNothing(d, r) == d
Superseded(d, r) == [d EXCEPT !.market[r] = "SUPERSEDED"]

(* correct_raw: the old market row, the ingest of the new observation with *)
(* its own commit, then the status, the revision and the audit event under *)
(* a second commit.                                                        *)
CorrectSupersedes ==
  /\ job["repair"].at = "supersede"
  /\ Write("repair", Superseded(View("repair"), job["repair"].old)) /\ Goto("repair", "raw")
  /\ UNCHANGED <<storeClock, evidence>>

CorrectMarks ==
  LET r == job["repair"].row
  IN /\ job["repair"].at = "ingested"
     /\ Write("repair", [View("repair") EXCEPT !.market[r] = "CORRECTED"])
     /\ Goto("repair", "audit")
     /\ UNCHANGED <<storeClock, evidence>>

CorrectAudits ==
  LET me == job["repair"]
      pair == [old |-> me.old, new |-> me.row]
  IN /\ me.at = "audit"
     /\ Commit("repair", [View("repair") EXCEPT !.revisions = @ \cup {pair},
                                               !.events = @ \cup {pair}])
     /\ job' = [job EXCEPT !["repair"] = [NoJob EXCEPT !.at = "next", !.queue = me.queue]]
     /\ UNCHANGED <<storeClock, evidence>>

RepairEnds ==
  /\ job["repair"].at = "next" /\ job["repair"].queue = {}
  /\ job' = [job EXCEPT !["repair"] = NoJob]
  /\ UNCHANGED <<storeClock, evidence, db, tx>>

ProcessDies(k) ==
  /\ job[k] # NoJob
  /\ job' = [job EXCEPT ![k] = NoJob]
  /\ IF lock = k THEN lock' = NoLock /\ work' = db ELSE UNCHANGED tx
  /\ UNCHANGED <<storeClock, evidence, db>>

RawStoreNext ==
  \/ ClockAdvances
  \/ \E k \in Connections : InsertRaw(k) \/ InsertMarket(k) \/ ProcessDies(k)
  \/ ServeIngests \/ ServeIngested
  \/ RepairStarts \/ RepairJudges \/ CorrectSupersedes \/ CorrectMarks \/ CorrectAudits
  \/ RepairEnds

RawStoreSpec == RawStoreInit /\ [][RawStoreNext]_rawStoreVars

-----------------------------------------------------------------------------
(* The engines read one bar per open time whatever dies where: every bar   *)
(* with a raw row has exactly one row that get_window would return, and a  *)
(* bar that went through a correction shows its closed version.            *)
OneBarPerOpenTime ==
  \A bar \in StoredBars :
    (\E r \in DOMAIN db.raw : r.bar = bar) =>
      /\ Cardinality(VisibleRows(db, bar)) = 1
      /\ (\E r \in DOMAIN db.raw : r.bar = bar /\ r \notin VisibleRows(db, bar))
            => \A r \in VisibleRows(db, bar) : r.version = "final"

(* repair_one: only store I/O failures propagate, fail-closed, nothing     *)
(* half-written: a superseded row has its revision and its audit event.    *)
CorrectionIsAudited ==
  \A r \in DOMAIN db.market :
    db.market[r] = "SUPERSEDED" => \E pair \in db.revisions \cap db.events : pair.old = r
=============================================================================
