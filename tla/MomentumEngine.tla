----------------------------- MODULE MomentumEngine ----------------------------
(***************************************************************************)
(* E10, momentum and divergence over closed candles (engines/e10_momentum/ *)
(* engine.py).  The engine streams: a candle at a known close time returns *)
(* the last state, an invalid one is discarded, a gap resets the smoothers *)
(* to their seeds, and every accepted one extends the aligned RSI series   *)
(* and may confirm a pivot PivotBars earlier.  Divergence compares the     *)
(* last two price pivots with the last two pivots of the RSI.              *)
(*                                                                         *)
(* What a smoother would say (RSI, z-scored velocity and acceleration, the *)
(* volume ratio, the sign of the two regressions) is an attribute of the   *)
(* candle; when it says anything at all is modelled.                       *)
(***************************************************************************)
EXTENDS Integers, Sequences, FiniteSets, FiniteSetsExt, SequencesExt

CONSTANTS
  MomentumTape,   \* sets of candles that may close as n-th:
                  \*   at, h, l, ok, v, rsi, mz, az, mvz, vr, ols
  PivotBars,      \* pivot_min_bars
  SmootherPeriod, \* period of the RSI and of the velocity
  MinHistory,     \* candles before a state is built
  FullHistory,    \* candles before two agreeing methods are Q4
  BufferBars      \* candles the buffer holds

ASSUME MomentumBounds ==
  /\ {PivotBars, SmootherPeriod, MinHistory} \subseteq Nat \ {0}
  /\ FullHistory >= MinHistory /\ BufferBars >= MinHistory
  /\ MomentumTape \in Seq(SUBSET [at : Nat, h : Nat, l : Nat, ok : BOOLEAN, v : Nat, rsi : Nat,
                                  mz : Int, az : Int, mvz : Int, vr : Nat, ols : STRING])

NoReading == -1       \* an RSI nobody has computed yet
ImpulseZ == 2         \* impulse_z
AccelZ == 1           \* accel_threshold
NoVolume == [mvz |-> 0, vr |-> NoReading]

VARIABLES
  fed,          \* candles given to update
  candlesKept,  \* every accepted candle: the buffer is its tail
  sinceReset,   \* returns since the smoothers were reset
  velocities,   \* smoothed velocities computed
  rsiHist,      \* the RSI series
  auxByBar,     \* the reference value of each accepted candle
  pivots,       \* the four lists of confirmed pivots
  lastVolume,   \* last_mv_z and last_vr
  lastState,    \* last_state: the last state built
  momentumState \* what run_engine answers for the candles so far

momentumVars ==
  <<fed, candlesKept, sinceReset, velocities, rsiHist, auxByBar, pivots, lastVolume,
    lastState, momentumState>>

PivotLists == {"highPrice", "lowPrice", "highMomentum", "lowMomentum"}
MomentumRefusal(q) == [q |-> q, flags |-> {}, kind |-> "NONE", method |-> "NONE",
                        pairs |-> <<>>, disagree |-> FALSE]

MomentumInit ==
  /\ fed = 0 /\ candlesKept = <<>> /\ sinceReset = 0 /\ velocities = 0
  /\ rsiHist = <<>> /\ auxByBar = <<>>
  /\ pivots = [list \in PivotLists |-> <<>>]
  /\ lastVolume = NoVolume
  /\ lastState = MomentumRefusal("QX") /\ momentumState = MomentumRefusal("QX")

-----------------------------------------------------------------------------
\* _gap_break: more than one and a half intervals since the last candle.
GapBreak(c, kept) == kept # <<>> /\ 2 * (c.at - Last(kept).at) > 3

\* The smoothers seed with a mean of SmootherPeriod returns, gap included;
\* before that the last value they gave, if any, stands.
Seeded(returns) == returns >= SmootherPeriod

AuxValue(readings) == IF readings = <<>> THEN NoReading ELSE Last(readings)

\* _fractal: the middle of 2k+1 known values against all of them, HIGH first.
Fractal(window) ==
  LET mid == window[PivotBars + 1]
  IN IF NoReading \in ToSet(window) THEN "NONE"
     ELSE IF \A v \in ToSet(window) : mid >= v THEN "HIGH"
     ELSE IF \A v \in ToSet(window) : mid <= v THEN "LOW" ELSE "NONE"

\* Mutant: the index within the buffer.
CandidateInBuffer(kept, value) ==
  [index |-> Min({Len(kept), BufferBars}) - PivotBars, confirmed |-> Len(kept), value |-> value]

\* _update_pivots: the candle that can be confirmed by the newest one, by its
\* index among all accepted candles.
Candidate(kept, value) ==
  [index |-> Len(kept) - PivotBars, confirmed |-> Len(kept), value |-> value]

WithPivot(list, pivot) == IF \E p \in ToSet(list) : p.index = pivot.index
                          THEN list ELSE Append(list, pivot)

UpdatedPivots(kept, aux) ==
  LET tail(s) == SubSeq(s, Len(s) - 2 * PivotBars, Len(s))
      highs == tail([i \in DOMAIN kept |-> kept[i].h])
      lows == tail([i \in DOMAIN kept |-> kept[i].l])
      mid(s) == s[PivotBars + 1]
      onPrice == IF Fractal(highs) = "HIGH" THEN "highPrice"
                 ELSE IF Fractal(lows) = "LOW" THEN "lowPrice" ELSE "NONE"
      onMomentum == CASE Fractal(tail(aux)) = "HIGH" -> "highMomentum"
                      [] Fractal(tail(aux)) = "LOW" -> "lowMomentum"
                      [] OTHER -> "NONE"
      seen == [highPrice |-> mid(highs), lowPrice |-> mid(lows),
               highMomentum |-> mid(tail(aux)), lowMomentum |-> mid(tail(aux))]
  IN IF Len(kept) < 2 * PivotBars + 1 THEN pivots
     ELSE [list \in PivotLists |->
             IF list \in {onPrice, onMomentum}
             THEN WithPivot(pivots[list], Candidate(kept, seen[list])) ELSE pivots[list]]

\* classify_pivot_pair, of two price and two momentum values of one side.
PairKind(p1, p2, m1, m2, side) ==
  CASE side = "HIGH" /\ p2 > p1 /\ m2 < m1 -> "REGULAR_BEARISH"
    [] side = "HIGH" /\ p2 < p1 /\ m2 > m1 -> "HIDDEN_BEARISH"
    [] side = "LOW" /\ p2 < p1 /\ m2 > m1 -> "REGULAR_BULLISH"
    [] side = "LOW" /\ p2 > p1 /\ m2 < m1 -> "HIDDEN_BULLISH"
    [] OTHER -> "NONE"

\* _detect_divergence_pivot: the last two of each list, the highs first.
LastTwo(list) == SubSeq(list, Len(list) - 1, Len(list))
PivotDivergence(side, ps, ms) ==
  IF Len(ps) < 2 \/ Len(ms) < 2 THEN [kind |-> "NONE", pairs |-> <<>>]
  ELSE LET p == LastTwo(ps)  m == LastTwo(ms)
       IN [kind |-> PairKind(p[1].value, p[2].value, m[1].value, m[2].value, side),
           pairs |-> <<p, m>>]
DivergenceByPivots(lists) ==
  LET high == PivotDivergence("HIGH", lists["highPrice"], lists["highMomentum"])
      low == PivotDivergence("LOW", lists["lowPrice"], lists["lowMomentum"])
  IN IF high.kind # "NONE" THEN high
     ELSE IF low.kind # "NONE" THEN low ELSE [kind |-> "NONE", pairs |-> <<>>]

\* The pivots win a disagreement, which costs quality; a convergence of the
\* regressions is reported only when no method sees a divergence.
Divergence(ols, byPivots) ==
  LET regression == ols \notin {"NONE", "CONVERGENCE"}
      onPivots == byPivots.kind # "NONE"
  IN CASE onPivots -> [kind |-> byPivots.kind, pairs |-> byPivots.pairs,
                       method |-> IF ols = byPivots.kind THEN "BOTH" ELSE "PIVOT",
                       disagree |-> regression /\ ols # byPivots.kind]
       [] ~onPivots /\ ols # "NONE" ->
            [kind |-> ols, pairs |-> <<>>, method |-> "OLS", disagree |-> FALSE]
       [] OTHER -> [kind |-> "NONE", pairs |-> <<>>, method |-> "NONE", disagree |-> FALSE]

\* impulse_exhaustion_flags, with the volume context of the last built state.
ImpulseFlags(c, before) ==
  LET declining == before.vr # NoReading /\ c.vr < before.vr
  IN {f \in {"impulse_bull"} : c.mz >= ImpulseZ /\ c.az >= AccelZ /\ c.mvz > 0}
     \cup {f \in {"impulse_bear"} : c.mz <= -ImpulseZ /\ c.az <= -AccelZ /\ c.mvz < 0}
     \cup {f \in {"exhaustion_bull"} :
             c.mz >= ImpulseZ /\ c.az < -AccelZ /\ c.mvz < before.mvz /\ declining}
     \cup {f \in {"exhaustion_bear"} :
             c.mz <= -ImpulseZ /\ c.az > AccelZ /\ c.mvz > before.mvz /\ declining}
     \cup {f \in {"neutral"} : c.mz = 0}

\* The quality cascade: agreement, a full window of velocities, then the cuts
\* for disagreement and for a bar without volume.
MomentumQuality(c, n, vels, div) ==
  LET q == IF div.method = "BOTH" THEN (IF n >= FullHistory THEN "Q4" ELSE "Q3")
           ELSE IF vels >= MinHistory THEN "Q3" ELSE "Q2"
  IN IF (div.disagree /\ q \in {"Q3", "Q4"}) \/ (c.v = 0 /\ q = "Q3") THEN "Q2" ELSE q

\* _build_state on the newest candle.
BuiltState(c, kept, vels, lists) ==
  LET div == Divergence(c.ols, DivergenceByPivots(lists))
  IN [q |-> MomentumQuality(c, Len(kept), vels, div),
      flags |-> IF vels < 2 THEN {} ELSE ImpulseFlags(c, lastVolume),
      kind |-> div.kind, method |-> div.method,
      pairs |-> div.pairs, disagree |-> div.disagree]

\* catalog_events and _to_evidence: a row for each flag and for a divergence,
\* context only, ACTIVE when the quality allows.
MomentumRows(st) ==
  {[code |-> code, fate |-> IF st.q \in {"Q3", "Q4"} THEN "ACTIVE" ELSE "CANDIDATE",
    conf |-> IF code # "divergence" THEN st.q ELSE IF st.disagree THEN "half" ELSE st.method] :
      code \in IF st.q \in {"QX", "Q0"} THEN {}
               ELSE st.flags \cup {x \in {"divergence"} : st.kind # "NONE"}}

-----------------------------------------------------------------------------
\* update returns the cached state, or the refusal of the warm up.
Repeated(c) ==
  /\ candlesKept # <<>> /\ Last(candlesKept).at = c.at
  /\ UNCHANGED <<candlesKept, sinceReset, velocities, rsiHist, auxByBar, pivots, lastVolume, lastState>>
  /\ momentumState' = IF lastState.q # "QX" THEN lastState ELSE momentumState

\* A refused candle leaves every buffer alone, and is the batch's answer.
Discarded(c) ==
  /\ ~(candlesKept # <<>> /\ Last(candlesKept).at = c.at)
  /\ ~c.ok
  /\ momentumState' = MomentumRefusal("Q0")
  /\ UNCHANGED <<candlesKept, sinceReset, velocities, rsiHist, auxByBar, pivots, lastVolume, lastState>>

Accepted(c) ==
  LET kept == Append(candlesKept, c)
      returns == IF candlesKept = <<>> THEN 0
                 ELSE IF GapBreak(c, candlesKept) THEN 1 ELSE sinceReset + 1
      vels == IF Seeded(returns) THEN velocities + 1 ELSE velocities
      readings == IF Seeded(returns) THEN Append(rsiHist, c.rsi) ELSE rsiHist
      aux == Append(auxByBar, AuxValue(readings))
      lists == UpdatedPivots(kept, aux)
      full == Min({Len(kept), BufferBars}) >= MinHistory
  IN /\ c.ok /\ ~(candlesKept # <<>> /\ Last(candlesKept).at = c.at)
     /\ candlesKept' = kept /\ sinceReset' = returns /\ velocities' = vels
     /\ rsiHist' = readings /\ auxByBar' = aux /\ pivots' = lists
     /\ lastState' = IF full THEN BuiltState(c, kept, vels, lists) ELSE lastState
     /\ momentumState' = IF full THEN lastState' ELSE momentumState
     /\ lastVolume' = IF full THEN [mvz |-> c.mvz, vr |-> c.vr] ELSE lastVolume

MomentumCandle ==
  /\ fed < Len(MomentumTape) /\ fed' = fed + 1
  /\ \E c \in MomentumTape[fed + 1] : Repeated(c) \/ Discarded(c) \/ Accepted(c)

MomentumNext == MomentumCandle

-----------------------------------------------------------------------------
(* Properties *)

\* A pivot is a fact about one candle: the recorded index names the candle
\* whose price (or RSI) it is, an extreme of the candles PivotBars either side,
\* known exactly when the last of them closed, and the pivots a divergence
\* compares were all known on the candle that reports it.
SeriesOf(list) ==
  CASE list = "highPrice" -> [i \in DOMAIN candlesKept |-> candlesKept[i].h]
    [] list = "lowPrice" -> [i \in DOMAIN candlesKept |-> candlesKept[i].l]
    [] OTHER -> auxByBar
PivotsAreWhereTheyAre ==
  /\ \A list \in PivotLists : \A p \in ToSet(pivots[list]) :
       /\ p.confirmed = p.index + PivotBars /\ p.confirmed <= Len(candlesKept)
       /\ p.value = SeriesOf(list)[p.index] /\ p.value # NoReading
       /\ \A i \in p.index - PivotBars .. p.confirmed :
            IF list \in {"highPrice", "highMomentum"}
            THEN SeriesOf(list)[i] <= p.value ELSE SeriesOf(list)[i] >= p.value
  /\ \A i \in DOMAIN lastState.pairs :
       \A p \in ToSet(lastState.pairs[i]) : p.confirmed <= Len(candlesKept)
  /\ \A row \in MomentumRows(momentumState) : row.code = "divergence" =>
       /\ row.conf # "OLS" => Len(momentumState.pairs) = 2
       /\ row.conf = "half" => row.fate = "CANDIDATE"
=============================================================================
