---- MODULE PlanBridge ----
(***************************************************************************)
(* The paper plan bridge: what a produced engine context goes through      *)
(* before it becomes a TradePlan (ops/plan_bridge.py), stage by stage in   *)
(* the code's order: record checks, fabric and conflict policy, pattern    *)
(* and forecast, the setup family with its thirteen gates, the playbook's  *)
(* stop, eligibility, arbitration, risk and materialisation.               *)
(*                                                                         *)
(* A context is a function: every measurement in Scale takes one of a few  *)
(* values, listed from the soundest to the worst.  One call of the bridge  *)
(* is one step; between two calls one measurement may change, and at most  *)
(* MaxFaults of them are off their first value at a time.                  *)
(***************************************************************************)
EXTENDS Fabric, Sequences

CONSTANTS MaxFaults, Timeframes, SetupFrame

\* params/quality_weights_v1.yaml: 0.40 to 0.60.
ASSUME BridgeBounds == QMin \in 1 .. 80

ScoreMin == 55      \* Q_min_setup
StructMin == 55     \* family_s_struct_min
EntropyMax == 85    \* gate7_entropy_threshold
ForecastMin == 50   \* gate_forecast_q_min
ProbabilityMin == 50
ConfidenceMin == 30
ZoneWindow == 12    \* FVG_LOOKBACK_BARS
ConfirmatoryPercent == 40

Scale ==
    [ record     |-> <<"COMPLETE", "MISSING_KEYS", "BAD_E11", "BAD_EVENT", "BAD_ADMISSION",
                       "NO_PACKAGE", "BAR_AFTER_AS_OF", "BAR_NOT_CLOSED">>,
      members    |-> <<"ALL", "SOME", "NONE">>,      \* required engines in the fabric
      trust      |-> <<80, TrustFloor, TrustFloor - 1>>,
      qRaw       |-> <<80, QMin, QMin - 1>>,
      dissent    |-> <<0, MaterialPercent - 1, MaterialPercent, 50>>,
      mtf        |-> <<"ALIGNED", "PARTIALLY_ALIGNED", "STALE", "UNAVAILABLE",
                       "INSUFFICIENT", "CONFLICTING">>,
      regimeSure |-> <<100, 0>>,                     \* regime confidence and certainty
      opposed    |-> <<FALSE, TRUE>>,                \* two required engines disagree
      pattern    |-> <<"WITH", "ABSENT", "AGAINST">>,
      atr        |-> <<"MEASURED", "UNAVAILABLE">>,
      sweep      |-> <<"RECLAIMED", "NO_RECLAIM", "NO_SWEEP">>,
      zoneAge    |-> <<0, ZoneWindow, ZoneWindow + 1>>,
      zoneFilled |-> <<FALSE, TRUE>>,
      bosSide    |-> <<"WITH", "AGAINST", "NONE">>,
      bosStrength |-> <<80, StructMin, StructMin - 1>>,
      regime     |-> <<"TREND", "CRISIS">>,
      inputs     |-> <<"PRESENT", "MISSING">>,       \* s_i and q_i of a required engine
      score      |-> <<100, 80, ScoreMin - 1>>,      \* raw score over the family mass
      rho        |-> <<0, 86>>,                      \* largest correlation of two components
      window     |-> <<"VALID", "BELOW_Q_THR">>,
      entropy    |-> <<0, EntropyMax, EntropyMax + 1>>,
      temporalQ  |-> <<"Q3", "Q2", "Q1", "QX">>,
      volatilityQ |-> <<"Q3", "Q2", "Q1", "QX">>,
      qForecast  |-> <<80, ForecastMin, ForecastMin - 1, Unmeasured>>,
      package    |-> <<"CALIBRATED", "BOOTSTRAP", "DEGRADED", "NO_METRICS">>,
      lineage    |-> <<"INTACT", "MALFORMED">>,
      stopSide   |-> <<"RIGHT", "WRONG">>,
      fresh      |-> <<TRUE, FALSE>>,
      p          |-> <<80, ProbabilityMin, ProbabilityMin - 1>>,
      c          |-> <<80, ConfidenceMin, ConfidenceMin - 1>>,
      rising     |-> <<FALSE, TRUE>>,                \* uncertainty rises with risk
      weights    |-> <<"GOVERNED", "ALIGNMENT_UNAVAILABLE", "MISSING">>,
      family     |-> <<"ACTIVE", "DEGRADING", "DEMOTED">>,
      riskKeys   |-> <<"COMPLETE", "MISSING">>,
      veto       |-> <<"NONE", "FIRED">>,            \* the kernel's verdict on the plan
      store      |-> <<"UP", "DOWN">> ]
Measures == DOMAIN Scale

VARIABLES
    cell,    \* [measurement -> index into its scale]
    answer   \* [plan, sized, reason] of the last call

bridgeVars == <<cell, answer>>

Value(m) == Scale[m][cell[m]]

----
(* The relative timeframes of a setup.                                     *)
Coarsest == Len(Timeframes)
SetupIndex == CHOOSE i \in 1..Len(Timeframes) : Timeframes[i] = SetupFrame
IntermediateIndex ==
    IF SetupIndex + 2 <= Coarsest THEN SetupIndex + 2
    ELSE IF SetupIndex + 1 <= Coarsest THEN SetupIndex + 1 ELSE 0
HtfIndex ==
    IF SetupIndex + 4 <= Coarsest THEN SetupIndex + 4
    ELSE IF IntermediateIndex # 0 THEN Coarsest ELSE 0
Vacuous == IntermediateIndex = 0 /\ HtfIndex = 0

----
(* Record checks, in order: the first that fails names the refusal.        *)
RecordRefusal(v) ==
    CASE v["record"] = "MISSING_KEYS"    -> "BRIDGE_CONTEXT_INCOMPLETE"
      [] v["record"] = "BAD_E11"         -> "E11_CONTEXT_INCOMPLETE"
      [] v["record"] = "BAD_EVENT"       -> "PERSISTED_EVIDENCE_INCOMPLETE"
      [] v["record"] = "BAD_ADMISSION"   -> "EVIDENCE_LIFECYCLE_INVALID"
      [] v["record"] = "BAR_AFTER_AS_OF" -> "BRIDGE_PIT_VIOLATION"
      [] v["record"] = "BAR_NOT_CLOSED"  -> "DATA_QUALITY_QX"
      [] v["record"] = "NO_PACKAGE"      -> "PARAMETER_PACKAGE_INVALID"
      [] OTHER -> "NO"

Output(v) ==
    Resolve(v["dissent"] >= HardPercent, v["dissent"] >= MaterialPercent,
            v["trust"], v["qRaw"], v["mtf"], FALSE)

FabricRefusal(v) ==
    IF v["members"] = "NONE" THEN "FABRIC_NO_ACTIVE_EVIDENCE"
    ELSE IF ~Solvent(v["trust"], v["qRaw"]) THEN "CONTEXT_SOLVENCY_FAILED"
    ELSE IF v["pattern"] = "AGAINST" THEN "PATTERN_DIRECTION_MISMATCH"
    ELSE IF v["pattern"] = "ABSENT" THEN "PATTERN_NOT_DETECTED"
    ELSE "NO"

(* z of the context combiner; below ConfirmatoryPercent of the sigmoid     *)
(* (gain 8: z < 0.45) the propagation band is COLLAPSED.                   *)
Collapsed(v) ==
    ContextZ(v["trust"], v["mtf"], 100 - v["dissent"], v["regimeSure"],
             100 - v["regimeSure"], 100 - v["regimeSure"]) < 45

----
(* The setup family: entry logic, then score, then the thirteen gates.     *)
\* Mutant of QualityClass: an unknown class counts as Q2.
QualityClassLenient(q) == CASE q = "Q3" -> 3 [] q = "Q1" -> 1 [] OTHER -> 2

QualityClass(q) == CASE q = "Q3" -> 3 [] q = "Q2" -> 2 [] q = "Q1" -> 1 [] OTHER -> -1

StructureRefusal(v) ==
    IF v["bosSide"] = "NONE" THEN "NO_BOS_EVIDENCE"
    ELSE IF v["bosStrength"] < StructMin THEN "S_STRUCT_BELOW_MIN"
    ELSE "NO"

EntryRefusal(v) ==
    IF v["atr"] = "UNAVAILABLE" THEN "ATR_UNAVAILABLE"
    ELSE IF v["sweep"] # "RECLAIMED" THEN v["sweep"]
    ELSE IF v["zoneAge"] > ZoneWindow \/ v["zoneFilled"] THEN "NO_UNFILLED_FVG_IN_WINDOW"
    ELSE IF StructureRefusal(v) # "NO" THEN StructureRefusal(v)
    ELSE IF v["regime"] = "CRISIS" THEN "FORBIDDEN_REGIME"
    ELSE IF v["members"] # "ALL" THEN "REQUIRED_EVIDENCE_MISSING"
    ELSE IF v["inputs"] = "MISSING" THEN "COMPONENT_INPUT_MISSING"
    ELSE "NO"

(* A correlated pair halves its weaker term (a fifth of the score here)    *)
(* and takes 30 per cent off; opposed required engines take 40 per cent.   *)
FinalScore(v) ==
    LET redundant == RedundancyPenalty(v["rho"]) > 0
        terms == IF redundant THEN v["score"] - v["score"] \div 10 ELSE v["score"]
    IN  (terms * (IF v["opposed"] THEN 60 ELSE 100)
               * (IF redundant THEN 70 ELSE 100)) \div 10000

(* Gate 10 reads forecast_quality, gate 12 q_forecast: the producer fills   *)
(* both from one forecast (engine_context.py 2016).                        *)
GatePasses(v) ==
    << FinalScore(v) >= ScoreMin,
       v["window"] = "VALID",
       ConflictPenalty(Output(v)) <= 50,
       RedundancyPenalty(v["rho"]) <= 30,
       v["mtf"] # "CONFLICTING",
       v["mtf"] # "INSUFFICIENT" \/ Vacuous,
       v["entropy"] <= EntropyMax,
       QualityClass(v["temporalQ"]) >= 2,
       QualityClass(v["volatilityQ"]) >= 2,
       v["qForecast"] >= ForecastMin,
       v["lineage"] = "INTACT",
       v["qForecast"] # Unmeasured /\ v["qForecast"] >= ForecastMin,
       v["package"] \in {"CALIBRATED", "BOOTSTRAP"} >>

BlockedBy(v) == {g \in 1..13 : ~GatePasses(v)[g]}

FamilyRefusal(v) ==
    IF EntryRefusal(v) # "NO" THEN EntryRefusal(v)
    ELSE IF BlockedBy(v) # {} THEN "SETUP_NOT_EMITTED" ELSE "NO"

----
(* Stop and target are built at three R, so the ratio floor never bites.   *)
StopRefusal(v) == IF v["stopSide"] = "WRONG" THEN "BRIDGE_FAIL_CLOSED" ELSE "NO"

Ineligible(v) ==
    \/ ~GatePasses(v)[10]
    \/ Output(v) = "HARD_CONFLICT"
    \/ v["qRaw"] < QMin \/ ~v["fresh"] \/ v["trust"] < TrustFloor
    \/ v["p"] < ProbabilityMin \/ v["c"] < ConfidenceMin

(* Both sides become candidates unless risk rises with uncertainty; the    *)
(* family's own side is then taken from the ranking and arbitrated alone.  *)
(* The arbitration's regime window is every class but CRISIS               *)
(* (setup_weights_v1.yaml), which the family has refused by then.          *)
DecisionRefusal(v) ==
    IF StopRefusal(v) # "NO" THEN StopRefusal(v)
    ELSE IF Ineligible(v) THEN "DECISION_INELIGIBLE"
    ELSE IF v["rising"] THEN "DECISION_NO_CANDIDATE"
    ELSE IF v["weights"] # "GOVERNED" THEN "ARBITRATION_CONTEXT_UNAVAILABLE"
    ELSE IF v["family"] # "ACTIVE" THEN "DECISION_NO_TRADE"
    ELSE IF v["riskKeys"] = "MISSING" THEN "RISK_CONTEXT_INCOMPLETE"
    ELSE IF v["store"] = "DOWN" THEN "SETUP_MATERIALIZATION_FAILED"
    ELSE "NO"

Refusal(v) ==
    IF RecordRefusal(v) # "NO" THEN RecordRefusal(v)
    ELSE IF FabricRefusal(v) # "NO" THEN FabricRefusal(v)
    ELSE IF FamilyRefusal(v) # "NO" THEN FamilyRefusal(v)
    ELSE DecisionRefusal(v)

(* Any refusal, and any exception, is kept under its reason and returns no *)
(* plan; a plan is returned after its setup row is committed.  A plan the  *)
(* kernel rejects is returned too, with a quantity of zero.                *)
CallBridge(v) ==
    LET plan == Refusal(v) = "NO"
    IN  [plan |-> plan, sized |-> plan /\ v["veto"] = "NONE", reason |-> Refusal(v)]

Sound == [m \in Measures |-> 1]
Read(k) == [m \in Measures |-> Scale[m][k[m]]]
Faults(k) == {m \in Measures : k[m] # 1}

BridgeInit == cell = Sound /\ answer = CallBridge(Read(Sound))

(* The next call finds one measurement changed.                            *)
Reassess(m, i) ==
    /\ i # cell[m]
    /\ Cardinality(Faults([cell EXCEPT ![m] = i])) <= MaxFaults
    /\ cell' = [cell EXCEPT ![m] = i]
    /\ answer' = CallBridge(Read(cell'))

BridgeNext == \E m \in Measures : \E i \in DOMAIN Scale[m] : Reassess(m, i)

----
(* A cell that was refused, or whose plan was sized to zero, is not traded *)
(* because one of its measurements got worse: not by falling past a        *)
(* quality class or a threshold into one that is not checked, and not by a *)
(* higher conflict that is less restrictive than a lower one               *)
(* (plan_bridge.py 614, gates.py, pipeline.py, conflict.py I3).            *)
WorseNeverTrades ==
    [][ (\A m \in Measures : cell'[m] >= cell[m])
            => (answer'.plan => answer.plan) /\ (answer'.sized => answer.sized) ]_bridgeVars

(* A plan rests on a break of structure on its own side: "E01 BOS/CHOCH    *)
(* with setup" (APEX_GEN5.md 15565, structure_gate).                       *)
StructureIsWithSetup == answer.plan => Value("bosSide") = "WITH"

(* A context whose confidence is below 0.40 is "excluded from composition; *)
(* never a permission" (APEX_GEN5.md 14851, propagation_band).             *)
CollapsedNeverTrades == answer.plan => ~Collapsed(Read(cell))
====
