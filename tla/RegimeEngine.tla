------------------------------ MODULE RegimeEngine ------------------------------
(***************************************************************************)
(* E11, the regime of a cell (engines/e11_regime/engine.py): each closed   *)
(* candle is classified by a priority tree, and hysteresis decides when    *)
(* the label that is published may change.  One RegimeEngine can be fed    *)
(* candle after candle (run_engine over a series); the decision path       *)
(* builds a new one for every bar and feeds it that bar alone, with the    *)
(* norms of the feature timeline (ops/engine_context.py,                   *)
(* complete_engine_bundle).  A behaviour is of one kind or the other.      *)
(*                                                                         *)
(* The state vector, the entropy and the turbulence are inputs in per      *)
(* cent; a participation filled in from earlier candles is one of them.    *)
(* The reference state (mu, Sigma), the Hamilton filter and the snapshot   *)
(* identity carry no control and are left out.                             *)
(***************************************************************************)
EXTENDS Integers, Sequences, FiniteSets, FiniteSetsExt, SequencesExt

CONSTANTS
  RegimeTape,    \* sets of candles that may close as n-th
  ConfirmBars,   \* transition_confirm_bars
  WarmUpSamples  \* samples of every rolling window before the engine speaks

ASSUME RegimeBounds ==
  ConfirmBars \in Nat \ {0} /\ WarmUpSamples \in Nat

VARIABLES
  streaming,  \* one engine for all candles, or a new one for each
  candles,    \* the candles closed
  rawStates,  \* hist_raw_states
  confirmed,  \* last_confirmed, "none" before the first
  lastAsOf,   \* last_as_of
  samples,    \* length of the rolling windows
  regimes     \* what the engine has said of each candle

regimeVars == <<streaming, candles, rawStates, confirmed, lastAsOf, samples, regimes>>

Never == -1
Fresh == [raw |-> <<>>, confirmed |-> "none", asOf |-> Never]

RegimeInit ==
  /\ candles = <<>> /\ rawStates = <<>> /\ confirmed = "none" /\ lastAsOf = Never
  /\ regimes = <<>> /\ streaming \in BOOLEAN
  /\ samples = IF streaming THEN 0 ELSE WarmUpSamples

-----------------------------------------------------------------------------
\* rule_tree_priority, in the order of risk.
RuleTree(v) ==
  IF v.turb >= 1550 \/ v.volatility >= 90 THEN "CRISIS"
  ELSE IF v.entropy >= 65 THEN "TRANSITION"
  ELSE IF v.expansion >= 60 /\ v.participation >= 60 THEN "EXPANSION"
  ELSE IF v.trend >= 60 /\ v.expansion >= 50 THEN "TREND_EXPANSION"
  ELSE IF v.trend >= 60 /\ v.compression >= 60 THEN "TREND_CONTRACTION"
  ELSE IF v.trend >= 60 THEN "TREND"
  ELSE IF v.compression >= 60 /\ v.volatility <= 40 THEN "COMPRESSION"
  ELSE IF v.participation <= 30 /\ v.liquidity <= 40 THEN "CHOP"
  ELSE "RANGE"

\* Mutant of Hysteresis: the last branch of the pseudocode, which confirms a
\* label the candle before had too.
HysteresisOfTwo(raw, label, before) ==
  IF raw = <<>> \/ label = before \/ Last(raw) = label THEN <<label, "CONFIRMED">>
  ELSE <<before, "SUSPECTED">>

\* hysteresis_manager: a label changes after ConfirmBars raw labels in a row.
Hysteresis(raw, label, before) ==
  IF raw = <<>> \/ label = before THEN <<label, "CONFIRMED">>
  ELSE IF /\ Len(raw) >= ConfirmBars - 1
          /\ \A i \in Len(raw) - ConfirmBars + 2 .. Len(raw) : raw[i] = label
       THEN <<label, "CONFIRMED">>
  ELSE <<before, "SUSPECTED">>

\* An offset of more than two timeframes to the last accepted candle.
Late(c, asOf) == asOf # Never /\ c.at - asOf > 2

\* quality_score and apply_quality_caps: the worst of the score and its caps; a
\* label with too few base rates behind it is capped too.
Quality(c, v, late, label) ==
  LET score == IF ~c.contract THEN 1
               ELSE IF v.entropy >= 80 \/ v.turb >= 2000 THEN 2
               ELSE IF v.entropy >= 65 \/ v.turb >= 1550 THEN 3
               ELSE IF v.entropy < 40 /\ v.turb < 800 THEN 5 ELSE 4
      caps == (IF c.volume = 0 \/ late \/ ~c.contract THEN {1} ELSE {})
              \cup (IF c.oi = "AVAILABLE" THEN {} ELSE {4})
              \cup (IF label \in c.thin THEN {3} ELSE {})
  IN Min({score} \cup caps)

\* The gap rule over compute_state_vector: a gap is an expansion.
Vector(c) == IF c.gap THEN [c.vec EXCEPT !.expansion = 100] ELSE c.vec

\* What compute_state_vector raises on: a required input is missing.
InputsMissing(c) == c.inputs = "missing" \/ (c.inputs = "nopart" /\ c.volume # 0)

\* catalog_events and the fate of their evidence: a status of CONFIRMED reads as
\* a confirmed transition, whether or not the label changed.
CatalogEvents(status, v, q) ==
  {"EV_RGM_001"} \cup (IF status = "SUSPECTED" THEN {"EV_RGM_002"} ELSE {"EV_RGM_003"})
  \cup (IF v.entropy >= 65 THEN {"EV_RGM_004"} ELSE {})
  \cup (IF v.turb >= 1550 THEN {"EV_RGM_005"} ELSE {})
  \cup (IF q <= 1 THEN {"EV_RGM_006"} ELSE {})
RegimeFate(q) == IF q >= 3 THEN "ACTIVE" ELSE "CANDIDATE"
Said(c, v, raw, verdict, q) ==
  [ kind |-> "state", at |-> c.at, raw |-> raw, state |-> verdict[1], status |-> verdict[2],
    entropy |-> v.entropy, turb |-> v.turb, q |-> q,
    events |-> CatalogEvents(verdict[2], v, q), fate |-> RegimeFate(q) ]

\* A candle that is refused leaves the engine as it was, but for its answer.
Refused(c, why) ==
  /\ regimes' = Append(regimes, [kind |-> why, at |-> c.at])
  /\ UNCHANGED <<rawStates, confirmed, lastAsOf, samples>>

\* run_engine below the floors of the norms: only samples are collected.
WarmsUp(c) ==
  /\ streaming /\ samples < WarmUpSamples
  /\ samples' = samples + 1
  /\ regimes' = Append(regimes, [kind |-> "QX", at |-> c.at])
  /\ UNCHANGED <<rawStates, confirmed, lastAsOf>>

\* update of a candle that is accepted.
Classifies(c, engine) ==
  LET v == Vector(c)
      raw == RuleTree(v)
      verdict == Hysteresis(engine.raw, raw, engine.confirmed)
      late == Late(c, engine.asOf)
  IN /\ rawStates' = Append(engine.raw, raw)
     /\ confirmed' = verdict[1] /\ lastAsOf' = c.at
     /\ samples' = IF streaming THEN samples + 1 ELSE samples
     /\ regimes' = Append(regimes, Said(c, v, raw, verdict, Quality(c, v, late, verdict[1])))

\* update: a repeated candle is answered from the cache, H < L and missing
\* inputs degrade, everything else is classified.
CandleCloses(c) ==
  LET engine == IF streaming THEN [ raw |-> rawStates, confirmed |-> confirmed,
                                    asOf |-> lastAsOf ]
                ELSE Fresh
  IN /\ candles' = Append(candles, c) /\ UNCHANGED streaming
     /\ IF streaming /\ samples < WarmUpSamples THEN WarmsUp(c)
        ELSE IF c.at = engine.asOf
        THEN UNCHANGED <<rawStates, confirmed, lastAsOf, samples, regimes>>
        ELSE IF ~c.sane THEN Refused(c, "H<L")
        ELSE IF InputsMissing(c) THEN Refused(c, "AMBIGUOUS")
        ELSE Classifies(c, engine)

RegimeNext ==
  \E i \in DOMAIN RegimeTape :
    i = Len(candles) + 1 /\ \E c \in RegimeTape[i] : CandleCloses(c)

-----------------------------------------------------------------------------
\* The candles that were classified, and those of them from one to another.
Classified == {i \in DOMAIN regimes : regimes[i].kind = "state"}
ClassifiedFrom(j, i) == {k \in Classified : j <= k /\ k <= i}

\* A published label that differs from the one published before it is the raw
\* label of the last ConfirmBars candles that were classified: no single bar and
\* no pair of bars turns the regime, whatever was refused in between.
ChangesAreSettled ==
  \A p, i \in Classified :
    p < i /\ ClassifiedFrom(p, i) = {p, i} /\ regimes[i].state # regimes[p].state =>
      /\ Cardinality(ClassifiedFrom(1, i)) >= ConfirmBars
      /\ \A j \in ClassifiedFrom(1, i) :
           Cardinality(ClassifiedFrom(j, i)) <= ConfirmBars => regimes[j].raw = regimes[i].state

\* What a label is worth depends on how the engine is fed: fed candle after
\* candle it changes when it is settled; an engine built for one candle confirms
\* whatever that candle's own raw label is, so the label says nothing of the
\* candles before and may change with every one.
LabelsFollowTheirFeed ==
  /\ streaming => ChangesAreSettled
  /\ ~streaming => \A i \in Classified :
                     regimes[i].state = regimes[i].raw /\ regimes[i].status = "CONFIRMED"
=============================================================================
