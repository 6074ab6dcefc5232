---- MODULE Fabric ----
(***************************************************************************)
(* The evidence fabric of one (symbol, timeframe) cell: the lifecycle      *)
(* gate that admits engine evidence (fabric/evidence.py and the admission  *)
(* step of engine_context.py), the disagreement of the admitted voices and *)
(* the conflict policy (fabric/conflict.py, fabric/context.py).            *)
(*                                                                         *)
(* Qualities, trust and weights are percentages.  A voice weighs its       *)
(* engine's weight divided by the number of members of that engine; Share  *)
(* makes that division exact.                                              *)
(***************************************************************************)
EXTENDS Integers, FiniteSets, FiniteSetsExt

CONSTANTS
    Voice,         \* [evidence id -> [engine, dir]]: what the engines may emit
    EngineWeight,  \* [engine -> percent], the frozen twelve of setup_weights
    EngineGroup,   \* [engine -> dependency group]
    Rooted,        \* evidence whose lineage reaches an observation of the window
    QMin,          \* Q_min of the timeframe
    ZoneEnds,      \* the fates a zone is seen to die of
    BarSteps,      \* how many bars may close before the next look
    LastFabricBar  \* bound on the bars

Evidence == DOMAIN Voice

ASSUME FabricAssumption ==
    /\ IsFiniteSet(Evidence)
    /\ \A e \in Evidence :
          Voice[e].dir \in {-1, 0, 1} /\ EngineWeight[Voice[e].engine] \in Nat

Share == 12
ExpiryBars == 5
TrustFloor == 30
HardPercent == 60
MaterialPercent == 35
Unmeasured == -1
MtfStates == {"ALIGNED", "PARTIALLY_ALIGNED", "STALE", "CONFLICTING",
              "UNAVAILABLE", "INSUFFICIENT"}

VARIABLES
    stage,    \* the SL-14 state the event was emitted in, or "NONE"
    bornAt,   \* the bar of its event_time
    zoneFate, \* fate of the zone behind an E05 event
    fabricBar,
    fabric,   \* members of the fabric composed last
    conflict  \* the four-way output of that composition, "NONE" or "REFUSED"

fabricVars == <<stage, bornAt, zoneFate, fabricBar, fabric, conflict>>

----
(* Lifecycle                                                               *)

Forward ==
    [CANDIDATE   |-> {"CONFIRMED"},
     CONFIRMED   |-> {"ACTIVE"},
     ACTIVE      |-> {"MITIGATED", "INVALIDATED", "EXPIRED", "SUPERSEDED"},
     MITIGATED   |-> {"INVALIDATED", "EXPIRED", "SUPERSEDED"},
     INVALIDATED |-> {}, EXPIRED |-> {}, SUPERSEDED |-> {}]

AdvanceLifecycle(from, to) == IF to \in Forward[from] THEN to ELSE "ILLEGAL"

(* What a zone's fate makes of an ACTIVE E05 event.                        *)
FateTarget(fate) ==
    CASE fate \in {"EXPIRED", "INVALIDATED", "MITIGATED"} -> fate
      [] fate = "FILLED" -> "MITIGATED"
      [] OTHER -> "ACTIVE"

(* Every composition starts again from the state the event was emitted in. *)
Admission(e) ==
    IF stage[e] = "CONFIRMED" THEN AdvanceLifecycle("CONFIRMED", "ACTIVE")
    ELSE IF /\ stage[e] = "ACTIVE"
            /\ Voice[e].engine = "E05"
            /\ FateTarget(zoneFate[e]) # "ACTIVE"
         THEN AdvanceLifecycle("ACTIVE", FateTarget(zoneFate[e]))
         ELSE stage[e]

AgeBars(e) == fabricBar - bornAt[e]

Excluded(e) ==
    IF stage[e] = "NONE" THEN "NOT_EMITTED"
    ELSE IF Admission(e) # "ACTIVE" THEN "NOT_ACTIVE_SL14"
    ELSE IF bornAt[e] > fabricBar THEN "E-PIT-001"
    ELSE IF e \notin Rooted THEN "LINEAGE_UNRESOLVED_QX"
    ELSE IF AgeBars(e) > ExpiryBars THEN "EXPIRED_5TF"
    ELSE "NO"

Assemble == {e \in Evidence : Excluded(e) = "NO"}

----
(* Disagreement                                                            *)

EnginesOf(ms) == {Voice[e].engine : e \in ms}
UndividedVote(e, ms) == EngineWeight[Voice[e].engine] * Share

Vote(e, ms) ==
    (EngineWeight[Voice[e].engine] * Share)
        \div Cardinality({f \in ms : Voice[f].engine = Voice[e].engine})

GroupMembers(g, ms) == {e \in ms : EngineGroup[Voice[e].engine] = g}

Total(f, S) == MapThenSumSet(LAMBDA x : f[x], S)

(* The weighted-dominant direction of a group: 0 on a tie.                 *)
Lean(g, ms) ==
    LET s == Total([e \in ms |-> Voice[e].dir * Vote(e, ms)], GroupMembers(g, ms))
    IN  IF s > 0 THEN 1 ELSE IF s < 0 THEN -1 ELSE 0

Opposes(e, ms) ==
    LET lean == Lean(EngineGroup[Voice[e].engine], ms)
    IN  lean # 0 /\ Voice[e].dir = -lean

Opposing(ms) == Total([e \in ms |-> Vote(e, ms)], {e \in ms : Opposes(e, ms)})
Present(ms) == Total([n \in EnginesOf(ms) |-> EngineWeight[n] * Share], EnginesOf(ms))

DisagreementAtLeast(percent, ms) ==
    \/ Present(ms) = 0
    \/ Opposing(ms) * 100 >= percent * Present(ms)

(* stale counts from 5 bars on, while assemble excludes above 5 only.      *)
StaleMembers(ms) == {e \in ms : AgeBars(e) >= ExpiryBars}

----
(* Conflict policy                                                         *)

Restriction == [CONSENSUS |-> 0, MATERIAL_CONFLICT |-> 1,
                INSUFFICIENT_EVIDENCE |-> 2, HARD_CONFLICT |-> 3]

(* atHard and atMaterial say which thresholds the disagreement reaches.    *)
Resolve(atHard, atMaterial, trust, q, mtf, hardFlags) ==
    IF mtf = "CONFLICTING" THEN "HARD_CONFLICT"
    ELSE IF atHard THEN "HARD_CONFLICT"
    ELSE IF atMaterial THEN "MATERIAL_CONFLICT"
    ELSE IF trust < TrustFloor \/ q = Unmeasured \/ q < QMin THEN "INSUFFICIENT_EVIDENCE"
    ELSE IF ~hardFlags THEN "CONSENSUS"
    ELSE "INSUFFICIENT_EVIDENCE"

ConflictPenalty(output) ==
    IF output \in {"MATERIAL_CONFLICT", "HARD_CONFLICT"} THEN 40 ELSE 0
RedundancyPenalty(rho) == IF rho > 85 \/ rho < -85 THEN 30 ELSE 0

Solvent(trust, q) == trust >= TrustFloor /\ (q = Unmeasured \/ q >= QMin)

(* The combiner: weights 35, 20, 15, 15, 10, 5 and 0 per cent.  The        *)
(* sigmoid with its gain is monotone, so a band is a range of z.           *)
MtfScore == [ALIGNED |-> 100, PARTIALLY_ALIGNED |-> 60, STALE |-> 30,
             CONFLICTING |-> 0, UNAVAILABLE |-> 0, INSUFFICIENT |-> 0]
ContextZ(trust, mtf, agreement, regime, uncertainty, divergence) ==
    ( 35 * trust + 20 * MtfScore[mtf] + 15 * agreement + 15 * regime
      + 10 * (100 - uncertainty) + 5 * (100 - divergence) ) \div 100

----
FabricInit ==
    /\ stage = [e \in Evidence |-> "NONE"]
    /\ bornAt = [e \in Evidence |-> 0]
    /\ zoneFate = [e \in Evidence |-> "OPEN"]
    /\ fabricBar = 0 /\ fabric = {} /\ conflict = "NONE"

(* An engine emits an event: E01 in CONFIRMED or CANDIDATE, the others in  *)
(* ACTIVE or CANDIDATE.                                                    *)
EmitEvidence(e) ==
    /\ stage[e] = "NONE"
    /\ \E s \in {"CANDIDATE",
                 IF Voice[e].engine = "E01" THEN "CONFIRMED" ELSE "ACTIVE"} :
            stage' = [stage EXCEPT ![e] = s]
    /\ bornAt' = [bornAt EXCEPT ![e] = fabricBar]
    /\ UNCHANGED <<zoneFate, fabricBar, fabric, conflict>>

ZoneDies(e) ==
    /\ Voice[e].engine = "E05" /\ stage[e] # "NONE" /\ zoneFate[e] = "OPEN"
    /\ \E fate \in ZoneEnds :
            zoneFate' = [zoneFate EXCEPT ![e] = fate]
    /\ UNCHANGED <<stage, bornAt, fabricBar, fabric, conflict>>

(* Bars close, one or as many as an outage takes.                          *)
FabricBarCloses ==
    /\ \E n \in BarSteps :
            /\ fabricBar + n <= LastFabricBar
            /\ fabricBar' = fabricBar + n
    /\ UNCHANGED <<stage, bornAt, zoneFate, fabric, conflict>>

(* One composition of the cell: admission, fabric, conflict record.        *)
Compose(trust, q, mtf) ==
    /\ fabric' = Assemble
    /\ conflict' = IF Assemble = {} THEN "REFUSED"
                   ELSE Resolve(DisagreementAtLeast(HardPercent, Assemble),
                                DisagreementAtLeast(MaterialPercent, Assemble),
                                trust, q, mtf, FALSE)
    /\ UNCHANGED <<stage, bornAt, zoneFate, fabricBar>>

FabricNext ==
    \/ \E e \in Evidence : EmitEvidence(e) \/ ZoneDies(e)
    \/ FabricBarCloses
    \/ \E trust \in {TrustFloor - 1, TrustFloor}, q \in {QMin - 1, QMin},
          mtf \in {"ALIGNED", "CONFLICTING"} : Compose(trust, q, mtf)

----
(* The voices against a group's own lean are never more than half of the   *)
(* weight present, whatever is emitted, ages out or dies: the limit of 60  *)
(* per cent at which resolve makes a disagreement a HARD_CONFLICT is out   *)
(* of reach of disagreement_of, and only the timeframes can raise one      *)
(* (fabric/context.py 225, fabric/conflict.py 220).                        *)
DissentIsMinority == 2 * Opposing(fabric) <= Present(fabric)
====
