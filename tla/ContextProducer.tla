---------------------------- MODULE ContextProducer ----------------------------
(***************************************************************************)
(* How one cell of a PAPER cycle comes by its decision context             *)
(* (ops/engine_context.py, EngineContextProducer, driven by                *)
(* ops/paper_loop.py run_cycle): catch-up stores bars and publishes their  *)
(* quality facts, the cycle fixes the instant of the decision, public      *)
(* funding and venue facts are refreshed, and prepare composes the context *)
(* out of append-only facts dated no later than that instant.              *)
(*                                                                         *)
(* Time is counted in ticks; the cell's bars close every BarTicks.  What   *)
(* the twelve engines measure is one number, `level`: the entropy of the   *)
(* regime and the restriction of the conflict, which only the trend of the *)
(* uncertainty compares.  Facts nobody reads (SL14_ADMISSION) and the      *)
(* redundancy series out of COMPONENTS carry no control and are left out.  *)
(***************************************************************************)
EXTENDS Integers, Sequences, FiniteSets, FiniteSetsExt, SequencesExt

CONSTANTS
  BarTicks,     \* length of a bar
  LastTick,     \* bound on the clock
  Bootstrapped, \* bars the bootstrap has stored, without quality facts
  Window,       \* bars of quality_window and of the engines' warm-up
  RefreshAge,   \* age at which a public fact is fetched again
  Levels,       \* values of the measured uncertainty
  MaxVersions,  \* bound: packages and classifiers the process is started with
  MaxMishaps    \* bound: failed calls, refusing sources and deaths

ASSUME ContextAssumption ==
  /\ {BarTicks, Bootstrapped, Window} \subseteq Nat \ {0}
  /\ {LastTick, RefreshAge, MaxVersions, MaxMishaps} \subseteq Nat
  /\ Levels \subseteq Nat

VARIABLES
  tick,      \* the clock
  version,   \* the parameter package and the classifier in force
  created,   \* bar -> when its raw row was stored, 0 if it was not
  quality,   \* bar -> date of its quality fact, 0 if there is none
  funding,   \* PUBLIC_FUNDING_SCHEDULE facts, oldest first: date, value or refusal
  venue,     \* PUBLIC_VENUE_FACTS, likewise
  trend,     \* UNCERTAINTY facts, oldest first
  contexts,  \* BRIDGE_CONTEXT facts that can still be read: date, fingerprint, context
  lastClose, \* the cell's durable cursor
  work,      \* the cycle in progress, lost with the process
  mishaps

factVars == <<created, quality, funding, venue, trend, contexts, lastClose>>
contextVars == <<tick, version, created, quality, funding, venue, trend, contexts,
                 lastClose, work, mishaps>>

BarIds == 1..(LastTick \div BarTicks)
Boundary(t) == t \div BarTicks      \* latest_close_boundary, as a bar
CloseOf(b) == b * BarTicks          \* close_time_ms
NoContext == [bar |-> 0]
AtRest == [ stage |-> "rest", moment |-> 0, fetched |-> {}, caughtUp |-> TRUE, asOf |-> 0,
            failed |-> {}, ready |-> NoContext, refusal |-> "none" ]

ContextInit ==
  /\ tick = CloseOf(Bootstrapped) /\ version = 1
  /\ created = [b \in BarIds |-> IF b <= Bootstrapped THEN tick ELSE 0]
  /\ quality = [b \in BarIds |-> 0]
  /\ funding = <<>> /\ venue = <<>> /\ trend = <<>> /\ contexts = {}
  /\ lastClose = 0 /\ work = AtRest /\ mishaps = 0

Resting == [AtRest EXCEPT !.moment = work.moment]
Mishap == mishaps < MaxMishaps /\ mishaps' = mishaps + 1
At(stage) == work.stage = stage

-----------------------------------------------------------------------------
\* catch_up of the cell: one page of the closed bars that are missing, then one
\* quality fact for each new bar; a failed publication is only reported.
CatchUpStarts ==
  /\ At("rest") /\ tick > work.moment      \* run sleeps its interval between cycles
  /\ work' = [AtRest EXCEPT !.stage = "fetch", !.moment = tick]
  /\ UNCHANGED <<tick, version, factVars, mishaps>>

CatchUpFetches ==
  /\ At("fetch")
  /\ LET missing == {b \in BarIds : created[b] = 0 /\ b <= Boundary(work.moment)}
     IN /\ created' = [b \in BarIds |-> IF b \in missing THEN tick ELSE created[b]]
        /\ work' = [work EXCEPT !.stage = IF missing = {} THEN "stamp" ELSE "measure",
                                !.fetched = missing]
  /\ UNCHANGED <<tick, version, quality, funding, venue, trend, contexts, lastClose, mishaps>>

CatchUpFails ==
  /\ At("fetch") /\ Mishap
  /\ work' = [work EXCEPT !.stage = "stamp", !.caughtUp = FALSE]
  /\ UNCHANGED <<tick, version, factVars>>

\* publish_catch_up_quality and publish_quality_observation.
QualityPublished ==
  /\ At("measure")
  /\ quality' = [b \in BarIds |-> IF b \in work.fetched /\ quality[b] = 0
                                  THEN tick ELSE quality[b]]
  /\ work' = [work EXCEPT !.stage = "stamp"]
  /\ UNCHANGED <<tick, version, created, funding, venue, trend, contexts, lastClose, mishaps>>

QualityNotPublished ==
  /\ At("measure") /\ Mishap
  /\ work' = [work EXCEPT !.stage = "stamp"]
  /\ UNCHANGED <<tick, version, factVars>>

\* publish_quality_backfill, a command of its own: a fact for every row without
\* one, dated when the row was stored, unless that was before the bar closed.
BackfillQuality ==
  /\ \E b \in BarIds : created[b] > 0 /\ quality[b] = 0
  /\ quality' = [b \in BarIds |-> IF quality[b] = 0 /\ created[b] >= CloseOf(b)
                                  THEN created[b] ELSE quality[b]]
  /\ UNCHANGED <<tick, version, created, funding, venue, trend, contexts, lastClose, work,
                 mishaps>>

\* run_cycle: a due close fixes the instant of its decision, after catch-up.
Stamped ==
  /\ At("stamp")
  /\ LET close == Boundary(work.moment)
     IN /\ work' = IF close > lastClose
                   THEN [work EXCEPT !.stage = "funding", !.asOf = Max({CloseOf(close), tick})]
                   ELSE Resting
        /\ contexts' = {c \in contexts : c.at >= tick}
  /\ UNCHANGED <<tick, version, created, quality, funding, venue, trend, lastClose, mishaps>>

\* _refresh_publishers: each source when its last fact, success or refusal, is
\* older than RefreshAge.  A transport that is down spares the symbols that
\* follow, not the venue facts of this one.
Due(facts) == facts = <<>> \/ tick - Last(facts).at > RefreshAge

FundingRefreshed(ok) ==
  /\ At("funding")
  /\ IF Due(funding)
     THEN /\ funding' = Append(funding, [at |-> tick, ok |-> ok])
          /\ IF ok THEN UNCHANGED mishaps ELSE Mishap
     ELSE ok /\ UNCHANGED <<funding, mishaps>>
  /\ work' = [work EXCEPT !.stage = "venue",
                          !.failed = IF ok THEN @ ELSE @ \cup {"funding"}]
  /\ UNCHANGED <<tick, version, created, quality, venue, trend, contexts, lastClose>>

VenueRefreshed(ok) ==
  /\ At("venue")
  /\ IF Due(venue)
     THEN /\ venue' = Append(venue, [at |-> tick, ok |-> ok])
          /\ IF ok THEN UNCHANGED mishaps ELSE Mishap
     ELSE ok /\ UNCHANGED <<venue, mishaps>>
  /\ work' = [work EXCEPT !.stage = "prepare",
                          !.failed = IF ok THEN @ ELSE @ \cup {"venue"}]
  /\ UNCHANGED <<tick, version, created, quality, funding, trend, contexts, lastClose>>

-----------------------------------------------------------------------------
\* read_context_fact: the last fact dated at or before `at`.
LatestAt(facts, at) ==
  LET readable == {i \in DOMAIN facts : facts[i].at <= at}
  IN {facts[i] : i \in {i \in readable : \A j \in readable : j <= i}}

\* window: the last bars closed and available at `at`.
BarsAt(at) ==
  LET seen == {b \in BarIds : created[b] > 0 /\ CloseOf(b) <= at /\ created[b] <= at}
  IN {b \in seen : Cardinality({c \in seen : c > b}) < Window}

\* _input_fingerprint: what the context is a function of, dated at or before
\* `at`; facts of its own making only from before the last boundary.
Fingerprint(at) ==
  [ bars |-> {b \in BarIds : created[b] \in 1..at}, version |-> version, cursor |-> lastClose,
    facts |-> << {b \in BarIds : quality[b] \in 1..at}, LatestAt(funding, at), LatestAt(venue, at) >>,
    prior |-> {f \in ToSet(trend) : f.at < CloseOf(Boundary(at))} ]

Sources == {"artifact", "engines", "fabric"}       \* refuse before the trend is stored
LateSources == {"setup", "account", "ladder", "forecast", "shape"}

\* quality_window, mtf_inputs, prepare_engine_bundle and decision_inputs, in
\* order: why nothing is measured for the cell.
EarlyRefusal(at, broken) ==
  LET bars == BarsAt(at) IN
  IF broken = "artifact" THEN broken
  ELSE IF bars = {} THEN "NO_MARKET_DATA"
  ELSE IF \E b \in bars : quality[b] \notin 1..at THEN "QUALITY_PROVENANCE_UNAVAILABLE"
  ELSE IF Max(bars) # Boundary(at) \/ Cardinality(bars) < Window THEN "MTF_INSUFFICIENT"
  ELSE IF broken = "engines" THEN broken
  ELSE IF \A f \in LatestAt(venue, at) : ~f.ok THEN "VENUE_FACTS_UNAVAILABLE"
  ELSE IF broken = "fabric" THEN broken ELSE "none"

\* Mutant of Comparable: any earlier observation will do.
ComparableAnyAge(previous, current) == previous.version = current.version

\* uncertainty_trend: only the observation of the bar before, same versions.
Comparable(previous, current) ==
  previous.version = current.version /\ previous.bar + 1 = current.bar

\* ... and of what follows the trend, whose fact is stored by then.
LateRefusal(at, prior, current, broken) ==
  IF ~\E f \in prior : Comparable(f, current) THEN "UNCERTAINTY_TREND_UNAVAILABLE"
  ELSE IF broken \in {"setup", "account", "ladder"} THEN broken
  ELSE IF \A f \in LatestAt(funding, at) : ~f.ok THEN "FUNDING_UNAVAILABLE"
  ELSE IF broken \in {"forecast", "shape"} THEN broken ELSE "none"

Append1(facts, f) == IF f \in ToSet(facts) THEN facts ELSE Append(facts, f)

\* prepare: a context saved under the same fingerprint, or a new one.  The new
\* one is saved before its shape is validated.
Prepare(level, broken) ==
  /\ At("prepare") /\ work.caughtUp
  /\ IF broken = "none" THEN UNCHANGED mishaps ELSE Mishap
  /\ LET at == work.asOf
         saved == {c \in contexts : c.at = at /\ c.print = Fingerprint(at)}
         current == [at |-> at, bar |-> Boundary(at), version |-> version, level |-> level]
         prior == LatestAt(trend, CloseOf(current.bar) - 1)
         early == EarlyRefusal(at, broken)
         late == LateRefusal(at, prior, current, broken)
         made == [ bar |-> current.bar, at |-> at, version |-> version, level |-> level,
                   rising |-> \E f \in prior : level > f.level ]
     IN /\ saved = {}
        /\ trend' = IF early = "none" THEN Append1(trend, current) ELSE trend
        /\ contexts' = IF early = "none" /\ late \in {"none", "shape"}
                       THEN contexts \cup {[at |-> at, print |-> Fingerprint(at), made |-> made]}
                       ELSE contexts
        /\ work' = [work EXCEPT !.stage = "decide",
                      !.refusal = IF early # "none" THEN early ELSE late,
                      !.ready = IF early = "none" /\ late = "none" THEN made ELSE NoContext]
  /\ UNCHANGED <<tick, version, created, quality, funding, venue, lastClose>>

PrepareSaved ==
  /\ At("prepare") /\ work.caughtUp
  /\ \E c \in contexts :
        /\ c.at = work.asOf /\ c.print = Fingerprint(work.asOf)
        /\ work' = [work EXCEPT !.stage = "decide", !.ready = c.made]
  /\ UNCHANGED <<tick, version, factVars, mishaps>>

NotPrepared ==
  /\ At("prepare") /\ ~work.caughtUp
  /\ work' = [work EXCEPT !.stage = "decide", !.refusal = "CATCH_UP_FAILED"]
  /\ UNCHANGED <<tick, version, factVars, mishaps>>

\* get_bridge_context hands the prepared context to the plan bridge; a close
\* whose context was refused is not used up.
CellDecided ==
  /\ At("decide")
  /\ lastClose' = IF work.refusal = "none" THEN Max({lastClose, Boundary(work.moment)})
                  ELSE lastClose
  /\ work' = Resting
  /\ UNCHANGED <<tick, version, created, quality, funding, venue, trend, contexts, mishaps>>

ProcessDies ==
  /\ ~At("rest") /\ Mishap
  /\ work' = AtRest
  /\ version' \in version..Max({version, Min({version + 1, MaxVersions})})
  /\ UNCHANGED <<tick, factVars>>

\* Where a tick makes a difference; elsewhere it commutes with the next step.
ClockTicks ==
  /\ tick < LastTick /\ tick' = tick + 1
  /\ work.stage \in {"rest", "fetch", "measure", "funding"}
  /\ UNCHANGED <<version, factVars, work, mishaps>>

ContextNext ==
  \/ CatchUpStarts \/ CatchUpFetches \/ CatchUpFails \/ QualityPublished
  \/ QualityNotPublished \/ BackfillQuality \/ Stamped
  \/ \E ok \in BOOLEAN : FundingRefreshed(ok) \/ VenueRefreshed(ok)
  \/ \E level \in Levels, broken \in Sources \cup LateSources \cup {"none"} :
        Prepare(level, broken)
  \/ PrepareSaved \/ NotPrepared \/ CellDecided \/ ProcessDies \/ ClockTicks

-----------------------------------------------------------------------------
\* The trend a context carries compares it with the bar right before it, seen
\* under the same package and classifier, however cycles failed, were late or
\* were cut off: uncertainty_is_rising is never a comparison over a gap.
TrendIsOverOneBar ==
  work.ready # NoContext =>
    LET one == work.ready
        before == {i \in DOMAIN trend : /\ trend[i].bar = one.bar - 1
                                        /\ trend[i].version = one.version
                                        /\ trend[i].at < CloseOf(one.bar)}
    IN before # {} /\ (one.rising <=> one.level > trend[Max(before)].level)

\* A bar catch-up has stored has its quality fact when the next cycle begins.
StoredBarsAreMeasured ==
  At("fetch") => \A b \in BarIds : created[b] > 0 /\ b > Bootstrapped => quality[b] > 0

\* A cycle whose refresh of a source failed does not decide on an older fact.
FailedSourceIsNotUsed ==
  work.ready # NoContext => work.failed = {}
=============================================================================
