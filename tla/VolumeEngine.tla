------------------------------ MODULE VolumeEngine ------------------------------
(***************************************************************************)
(* E03, participation (engines/e03_volume/engine.py).  Bars are fed one    *)
(* after another; the engine keeps every bar it accepted together with the *)
(* running on-balance volume (OBV) and the open interest (OI) seen, refuses*)
(* bars whose inputs are incomplete, and measures each accepted bar against*)
(* the ones before it.  compute then dresses the whole list as evidence.   *)
(*                                                                         *)
(* Volumes and prices are small integers.  A bar carries its own RangeZ,   *)
(* VolumeZ (in tenths) and A/D proxy, which are statistics of the window;  *)
(* volume ratio, OBV, OI state and divergence are computed here.           *)
(***************************************************************************)
EXTENDS Integers, Sequences, FiniteSets, FiniteSetsExt, SequencesExt

CONSTANTS
  VolumeTape,   \* sets of bars that may arrive as n-th: at, o, h, l, c, v, oi, oiAt,
                \* atr, stamped, closed, rz, vz, ad
  WarmBars,     \* bars before the first evidence
  AverageBars,  \* vol_sma_n
  OiFlatBars,   \* equal values of OI that make it stale
  OiGapBars,    \* bars without a new OI stamp that make it stale
  WashBars,     \* bars before wash trading is looked for
  BadBarLimit   \* _FAILED_PERSISTENCE_BARS

ASSUME VolumeBounds ==
  {WarmBars, AverageBars, OiFlatBars, OiGapBars, WashBars, BadBarLimit} \subseteq Nat \ {0}

NoOi == -1           \* the venue gave no open interest, or it carries no stamp

VARIABLES
  fedBars,       \* how many bars were fed
  volPhase,      \* state
  badBars,       \* _consecutive_invalid
  keptBars,      \* history_bars (with history_vols, history_closes, history_ranges)
  obvOf,         \* history_obv
  oiSeen,        \* history_oi with history_oi_ts
  participation  \* emitted

volumeVars == <<fedBars, volPhase, badBars, keptBars, obvOf, oiSeen, participation>>

VolumeInit ==
  /\ fedBars = 0 /\ volPhase = "INIT" /\ badBars = 0
  /\ keptBars = <<>> /\ obvOf = <<>> /\ oiSeen = <<>> /\ participation = <<>>

-----------------------------------------------------------------------------
VolumeSum(f(_), S) == MapThenSumSet(f, S)
LastOnes(w, n) == SubSeq(w, Max({1, Len(w) - n + 1}), Len(w))

\* obv_series_wilder: a flat close adds nothing.
ObvStep(obv, before, b) ==
  CASE b.c > before -> obv + b.v [] b.c < before -> obv - b.v [] OTHER -> obv
ObvSeries(w) ==
  LET obv[i \in 1..Len(w)] ==
        IF i = 1 THEN w[1].v ELSE ObvStep(obv[i-1], w[i-1].c, w[i])
  IN [i \in 1..Len(w) |-> obv[i]]
ObvNow(b) ==
  IF keptBars = <<>> THEN b.v ELSE ObvStep(Last(obvOf), Last(keptBars).c, b)

\* volume_ratio_pit, in tenths: against the bars before this one only.
VolumeRatio(w, v) ==
  LET base == LastOnes(w, AverageBars)
      total == VolumeSum(LAMBDA i : base[i].v, DOMAIN base)
  IN IF total = 0 THEN -1 ELSE (10 * v * Len(base)) \div total

\* detect_oi_stale: flat, or a stamp long after the one before it; neither is
\* looked at before there are OiFlatBars values.
OiStale(b) ==
  LET values == Append(oiSeen, [oi |-> b.oi, at |-> b.oiAt])
  IN /\ Len(values) >= OiFlatBars
     /\ \/ Cardinality({r.oi : r \in Range(LastOnes(values, OiFlatBars))}) = 1
        \/ b.oiAt - Last(oiSeen).at > OiGapBars
OiState(b) == IF b.oi = NoOi THEN "MISSING" ELSE IF OiStale(b) THEN "STALE" ELSE "AVAILABLE"

\* The z-score of the change of OI against the changes before it: its sign if
\* it exceeds one deviation, else 0; the change is to the last value seen.
OiMove(b) ==
  LET n == Len(oiSeen) - 1
      change(i) == oiSeen[i+1].oi - oiSeen[i].oi
      total == VolumeSum(change, 1..n)
      squares == VolumeSum(LAMBDA i : change(i) * change(i), 1..n)
      apart == n * (b.oi - Last(oiSeen).oi) - total
  IN IF OiState(b) # "AVAILABLE" \/ n < 2 THEN 0
     ELSE IF apart * apart <= n * squares - total * total THEN 0
     ELSE IF apart > 0 THEN 1 ELSE -1

\* detect_participation_divergence over the last four pivots of the closes.
Rising(y) ==
  LET n == Len(y)
  IN n * VolumeSum(LAMBDA i : i * y[i], 1..n) > VolumeSum(LAMBDA i : i, 1..n) * VolumeSum(LAMBDA i : y[i], 1..n)
VolumePivots(w) ==
  LET turns(i) == (w[i].c >= w[i-1].c /\ w[i].c >= w[i+1].c)
                  \/ (w[i].c <= w[i-1].c /\ w[i].c <= w[i+1].c)
  IN LastOnes(SelectSeq([k \in 1..(Len(w) - 2) |-> k + 1], turns), 4)
Diverges(w, obv) ==
  /\ Len(w) >= 6
  /\ LET p == VolumePivots(w)
     IN Len(p) >= 2 /\ Rising([k \in DOMAIN p |-> w[p[k]].c]) # Rising([k \in DOMAIN p |-> obv[p[k]]])

Washed(b, vr) ==
  /\ Len(keptBars) + 1 >= WashBars
  /\ vr > 30 /\ b.rz \in (-4)..4
  /\ 10 * Max({b.c - b.o, b.o - b.c}) < Max({1, b.h - b.l})

\* A ratio and a range this far out are a climax; a ratio this low a dry-up.
Climax(b, vr) == vr >= 25 /\ b.rz >= 20
DryUp(vr) == vr # -1 /\ vr <= 4

VolumeEvents(b, vr) ==
  {e \in {"SPIKE", "CLIMAX", "DRY_UP", "EFFORT_LOW", "EFFORT_HIGH", "ACCUMULATION",
          "DISTRIBUTION", "OI_UP", "OI_DOWN", "OI_UNAVAILABLE", "WASH", "DIVERGENCE"} :
     CASE e = "SPIKE" -> vr >= 15
       [] e = "CLIMAX" -> Climax(b, vr)
       [] e = "DRY_UP" -> DryUp(vr)
       [] e = "EFFORT_LOW" -> b.vz > 15 /\ b.rz \in (-4)..4
       [] e = "EFFORT_HIGH" -> b.vz > 15 /\ b.rz \notin (-15)..15
       [] e = "ACCUMULATION" -> b.ad = "ACC"
       [] e = "DISTRIBUTION" -> b.ad = "DIST"
       [] e = "OI_UP" -> OiMove(b) = 1
       [] e = "OI_DOWN" -> OiMove(b) = -1
       [] e = "OI_UNAVAILABLE" -> OiState(b) \in {"STALE", "MISSING"}
       [] e = "WASH" -> Washed(b, vr)
       [] OTHER -> Diverges(keptBars, obvOf)}

-----------------------------------------------------------------------------
(* ingest_bar.                                                             *)

Keeps(b, obv) ==
  /\ keptBars' = Append(keptBars, b)
  /\ obvOf' = Append(obvOf, obv)
  /\ oiSeen' = IF b.oi # NoOi /\ b.oiAt # NoOi
               THEN Append(oiSeen, [oi |-> b.oi, at |-> b.oiAt]) ELSE oiSeen

KeepsBarOnly(b) == keptBars' = Append(keptBars, b) /\ UNCHANGED <<obvOf, oiSeen>>

KeepsNothing(b) == UNCHANGED <<keptBars, obvOf, oiSeen>>

\* High under low: the third in a row ends the engine.
BadBar(b) ==
  /\ b.closed /\ b.h < b.l
  /\ badBars' = badBars + 1
  /\ volPhase' = IF badBars + 1 >= BadBarLimit THEN "FAILED" ELSE volPhase
  /\ KeepsNothing(b) /\ UNCHANGED participation

Sane(b) == b.closed /\ b.h >= b.l
RepeatsLast(b) ==
  keptBars # <<>> /\ LET k == Last(keptBars) IN k.at = b.at /\ k.v = b.v /\ k.c = b.c
Warming == Len(keptBars) < WarmBars

\* An open bar, one without its stamps, one after the end, and the last bar
\* once more (not while warming up) leave no trace but the reset of the count.
SkippedBar(b) ==
  /\ \/ ~b.closed
     \/ Sane(b) /\ (~b.stamped \/ volPhase = "FAILED" \/ (~Warming /\ RepeatsLast(b)))
  /\ badBars' = IF b.closed THEN 0 ELSE badBars
  /\ KeepsNothing(b) /\ UNCHANGED <<volPhase, participation>>

Taken(b) == Sane(b) /\ b.stamped /\ volPhase # "FAILED"

\* While warming up the bar is kept first and its OI stamp looked at last.
WarmUpBar(b) ==
  /\ Taken(b) /\ Warming
  /\ badBars' = 0
  /\ volPhase' = IF Len(keptBars) >= 5 THEN "WARMUP" ELSE volPhase
  /\ Keeps(b, ObvNow(b))
  /\ UNCHANGED participation

\* Later the inputs come first: without the OI stamp or the ATR the bar is
\* refused before anything is kept.
InputsComplete(b) == (b.oi # NoOi => b.oiAt # NoOi) /\ b.atr
RefusedBar(b) ==
  /\ Taken(b) /\ ~Warming /\ ~RepeatsLast(b) /\ ~InputsComplete(b)
  /\ badBars' = 0 /\ volPhase' = "READY"
  /\ KeepsNothing(b)
  /\ UNCHANGED participation

MeasuredBar(b) ==
  /\ Taken(b) /\ ~Warming /\ ~RepeatsLast(b) /\ InputsComplete(b)
  /\ badBars' = 0
  /\ volPhase' = IF OiState(b) = "AVAILABLE" THEN "EMITTING" ELSE "DEGRADED"
  /\ LET vr == VolumeRatio(keptBars, b.v)
     IN participation' = Append(participation,
          [fed |-> fedBars + 1, past |-> Len(keptBars), bar |-> b, vr |-> vr, obv |-> ObvNow(b),
           oi |-> OiState(b), events |-> VolumeEvents(b, vr)])
  /\ Keeps(b, ObvNow(b))

VolumeNext ==
  /\ fedBars < Len(VolumeTape)
  /\ fedBars' = fedBars + 1
  /\ \E b \in VolumeTape[fedBars + 1] :
       BadBar(b) \/ SkippedBar(b) \/ WarmUpBar(b) \/ RefusedBar(b) \/ MeasuredBar(b)

-----------------------------------------------------------------------------
(* compute, over what was emitted.                                         *)

\* _climax_calibration: how many climaxes of the window were continued within
\* five bars, of how many that had any bar after them.
ClimaxesTold(evidence) ==
  {i \in DOMAIN evidence : "CLIMAX" \in evidence[i].events /\ i < Len(evidence)
     /\ evidence[i+1].fed <= evidence[i].fed + 5}
Continued(evidence, i) ==
  \E j \in (i+1)..Min({Len(evidence), i + 5}) :
    /\ evidence[j].fed <= evidence[i].fed + 5
    /\ IF evidence[i].bar.c >= evidence[i].bar.o THEN evidence[j].bar.c > evidence[i].bar.c
       ELSE evidence[j].bar.c < evidence[i].bar.c
VolumeConfidence(evidence) ==
  LET told == ClimaxesTold(evidence)
  IN [of |-> Cardinality(told), good |-> Cardinality({i \in told : Continued(evidence, i)})]

VolumeClass(e) ==
  IF e.vr = -1 THEN "QX"
  ELSE IF e.oi \in {"STALE", "MISSING"} THEN "Q3"
  ELSE IF e.events \cap {"CLIMAX", "DRY_UP"} # {} THEN "Q2"
  ELSE IF e.events \cap {"ACCUMULATION", "DISTRIBUTION", "DIVERGENCE", "WASH"} # {} THEN "Q3"
  ELSE "Q1"

VolumeRows ==
  [i \in DOMAIN participation |->
     [class |-> VolumeClass(participation[i]), confidence |-> VolumeConfidence(participation)]]

-----------------------------------------------------------------------------
(* What a bar is measured against is the accepted past and nothing else:   *)
(* the three histories speak of the same bars, however many were refused,  *)
(* repeated or incomplete in between; each bar of evidence follows, in the *)
(* history, exactly the bars its ratio was taken over; and an engine that  *)
(* failed has nothing more to say.                                         *)
MeasuredAgainstItsPast ==
  /\ obvOf = ObvSeries(keptBars)
  /\ Len(oiSeen) = Cardinality({i \in DOMAIN keptBars : keptBars[i].oi # NoOi /\ keptBars[i].oiAt # NoOi})
  /\ \A i \in DOMAIN participation :
       LET e == participation[i]
       IN /\ keptBars[e.past + 1] = e.bar
          /\ e.vr = VolumeRatio(SubSeq(keptBars, 1, e.past), e.bar.v)
          /\ e.obv = ObvSeries(SubSeq(keptBars, 1, e.past + 1))[e.past + 1]
          /\ \A j \in 1..(i-1) : participation[j].past < e.past /\ participation[j].fed < e.fed

\* The confidence of a bar is settled when the bar is measured.
ConfidenceIsSettled ==
  [][\A i \in DOMAIN participation :
       VolumeRows'[i].confidence = VolumeRows[i].confidence]_volumeVars

\* No bar is counted twice.
BarsAreCountedOnce ==
  \A i, j \in DOMAIN keptBars : i # j => keptBars[i].at # keptBars[j].at
=============================================================================
