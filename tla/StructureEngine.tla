---------------------------- MODULE StructureEngine ----------------------------
(***************************************************************************)
(* E01, market structure (engines/e01_structure/engine.py): swings, breaks *)
(* of structure and changes of character over a window of closed bars, and *)
(* the streaming engine that is fed one bar at a time and recomputes them  *)
(* over everything it has been fed.                                        *)
(*                                                                         *)
(* Prices are small integers; Atr stands for the average true range in the *)
(* same unit and is the same at every bar (the code's atr_override).  The  *)
(* scaled epsilon is below one price unit, so "+ eps" is a strict order.   *)
(***************************************************************************)
EXTENDS Integers, Sequences, FiniteSets, SequencesExt, FiniteSetsExt

CONSTANTS
  Tape,        \* the bars that may close as n-th: sets of records o, h, l, c
  Atr,
  MinBars      \* min_candles

ASSUME StructureBounds ==
  /\ Atr \in Nat \ {0} /\ MinBars \in Nat
  /\ \A n \in 1..Len(Tape) : \A b \in Tape[n] : b.l <= b.h

Williams == 2        \* k_williams
MaxLevels == 3
RetestExpiry == 48   \* expiry_bars
MaxSwingAge == 120   \* theta_maxAge

VARIABLES
  bars,        \* StructureEngineStreaming.candles
  published    \* StructureEngineStreaming.events, deduplicated by identity

structureVars == <<bars, published>>

-----------------------------------------------------------------------------
Beyond(kind, price, level) == IF kind = "HIGH" THEN price > level ELSE price < level
Extreme(kind, bar) == IF kind = "HIGH" THEN bar.h ELSE bar.l

\* detect_swings_williams: an extreme strictly beyond the k bars on each side.
WilliamsSwings(w) ==
  {[kind |-> k, at |-> t, price |-> Extreme(k, w[t]), method |-> "WILLIAMS"] :
     <<k, t>> \in {<<k, t>> \in {"HIGH", "LOW"} \X ((1 + Williams)..(Len(w) - Williams)) :
       \A d \in 1..Williams : \A near \in {t - d, t + d} :
         Beyond(k, Extreme(k, w[t]), Extreme(k, w[near]))}}

\* detect_swings_gann: the extreme of a leg, known when the leg turns.
GannSwings(w) ==
  LET Turn(g, t) ==
        LET up   == g.trend # 1 /\ w[t].l > w[t - 1].l
            down == g.trend = 1 /\ w[t].h < w[t - 1].h
            trough == IF down THEN t ELSE g.trough
            peak   == IF up THEN t ELSE g.peak
        IN [ trend  |-> IF up THEN 1 ELSE IF down THEN -1 ELSE g.trend,
             trough |-> IF w[t].l < w[trough].l THEN t ELSE trough,
             peak   |-> IF w[t].h > w[peak].h THEN t ELSE peak,
             found  |-> g.found
               \cup (IF up THEN {[kind |-> "LOW", at |-> g.trough, price |-> w[g.trough].l,
                                  method |-> "GANN"]} ELSE {})
               \cup (IF down THEN {[kind |-> "HIGH", at |-> g.peak, price |-> w[g.peak].h,
                                    method |-> "GANN"]} ELSE {}) ]
  IN FoldLeft(Turn, [trend |-> 0, trough |-> 1, peak |-> 1, found |-> {}],
              [n \in 1..(Len(w) - 1) |-> n + 1]).found

\* sorted(swings_w + swings_g): by bar, Williams before Gann, highs first.
InOrder(w, swings) ==
  LET Slot(n) == [ kind   |-> IF n % 2 = 0 THEN "HIGH" ELSE "LOW", at |-> 1 + n \div 4,
                   method |-> IF n % 4 < 2 THEN "WILLIAMS" ELSE "GANN" ]
      Swing(n) == LET s == Slot(n) IN
        [kind |-> s.kind, at |-> s.at, price |-> Extreme(s.kind, w[s.at]), method |-> s.method]
  IN SelectSeq([n \in 1..(4 * Len(w)) |-> Swing(n - 1)], LAMBDA s : s \in swings)

\* merge_and_prune_swings, first half: of a Williams and a Gann swing of one
\* extreme within two bars the further one stays.
Deduplicated(w, swings) ==
  LET Place(kept, s) ==
        IF kept # <<>> /\ s.at - Last(kept).at <= 2 /\ s.kind = Last(kept).kind
           /\ s.method # Last(kept).method
        THEN IF Beyond(s.kind, s.price, Last(kept).price)
             THEN Append(Front(kept), s) ELSE kept
        ELSE Append(kept, s)
  IN FoldLeft(Place, <<>>, InOrder(w, swings))

\* Second half: a swing too close to the last one kept, too old, or known to
\* the Gann method alone and shallow is pruned.
ActiveSwings(w) ==
  LET williams == WilliamsSwings(w)
      Confirmed(s) == \E o \in williams : o.kind = s.kind /\ o.at - s.at \in (-2)..2
      Keep(kept, s) ==
        LET apart == IF s.price > Last(kept).price THEN s.price - Last(kept).price
                     ELSE Last(kept).price - s.price
        IN IF \/ s.method = "GANN" /\ ~Confirmed(s) /\ 10 * apart < 12 * Atr
              \/ 10 * apart < 8 * Atr
              \/ Len(w) - s.at + 1 > MaxSwingAge
           THEN kept ELSE Append(kept, s)
      merged == Deduplicated(w, williams \cup GannSwings(w))
  IN IF merged = <<>> THEN <<>> ELSE FoldLeft(Keep, <<Head(merged)>>, Tail(merged))

Swung(swings, kind, last) ==
  SelectSeq(swings, LAMBDA s : s.kind = kind /\ s.at <= last)

\* detect_bos: a close beyond one of the last opposing swings, each level an
\* event of its own.
StructureBreaks(w, swings) ==
  {e \in [what : {"BOS"}, kind : {"HIGH", "LOW"}, at : 2..Len(w), level : {s.price : s \in ToSet(swings)}] :
     LET stack == Swung(swings, e.kind, e.at - 2)
         levels == {stack[n].price : n \in Max({1, Len(stack) - MaxLevels + 1})..Len(stack)}
     IN /\ e.level \in levels
        /\ Beyond(e.kind, w[e.at].c, e.level)
        /\ 10 * (IF e.kind = "HIGH" THEN w[e.at].c - e.level ELSE e.level - w[e.at].c) >= 3 * Atr}

\* _structure_state_up_to: what the last four swings before the bar say.
StructureAt(swings, t) ==
  LET before == SelectSeq(swings, LAMBDA s : s.at < t)
      recent == SubSeq(before, Max({1, Len(before) - 3}), Len(before))
      highs == Swung(recent, "HIGH", t)
      lows == Swung(recent, "LOW", t)
      Moves(k) == /\ Len(highs) = 2 /\ Beyond(k, highs[2].price, highs[1].price)
                  /\ Len(lows) = 2 /\ Beyond(k, lows[2].price, lows[1].price)
  IN IF Moves("HIGH") THEN "BULL" ELSE IF Moves("LOW") THEN "BEAR" ELSE "RANGE"

\* detect_choch: the body closes beyond the last swing against the structure,
\* after a break with it.
Characters(w, swings) ==
  {e \in [what : {"CHOCH"}, kind : {"HIGH", "LOW"}, at : 1..Len(w), level : {s.price : s \in ToSet(swings)}] :
     LET side == Swung(swings, e.kind, e.at - 1) IN
       /\ StructureAt(swings, e.at) = (IF e.kind = "HIGH" THEN "BEAR" ELSE "BULL")
       /\ side # <<>> /\ e.level = Last(side).price
       /\ Beyond(e.kind, w[e.at].c, e.level) /\ Beyond(e.kind, w[e.at].o, e.level)
       /\ \E b \in StructureBreaks(w, swings) : b.kind # e.kind /\ b.at < e.at}

\* detect_retest_and_invalidation: the first later bar that closes near the
\* broken level, or back through it, decides.
Outcomes(w, breaks) ==
  UNION {
    LET near(t) == 4 * (IF w[t].c > b.level THEN w[t].c - b.level ELSE b.level - w[t].c) <= Atr
        back(t) == 2 * (IF b.kind = "HIGH" THEN b.level - w[t].c ELSE w[t].c - b.level) > Atr
        ends == {t \in (b.at + 1)..Min({Len(w), b.at + RetestExpiry}) : near(t) \/ back(t)}
    IN IF ends = {} THEN {}
       ELSE {[what |-> IF near(Min(ends)) THEN "RETEST" ELSE "INVALIDATION",
              kind |-> b.kind, at |-> Min(ends), level |-> b.level]} : b \in breaks}

\* detect_wick_rejection, at swing highs only.
Rejections(w, swings) ==
  {e \in [what : {"WICK"}, kind : {"HIGH"}, at : 1..Len(w), level : {s.price : s \in ToSet(swings)}] :
     LET side == Swung(swings, "HIGH", e.at - 1) IN
       /\ side # <<>> /\ e.level = Last(side).price
       /\ w[e.at].h > e.level /\ w[e.at].c < e.level
       /\ 10 * (w[e.at].h - e.level) > 2 * Atr}

\* detect_gaps.
Gaps(w) ==
  {[what |-> "GAP", kind |-> IF w[t].o > w[t - 1].c THEN "HIGH" ELSE "LOW", at |-> t, level |-> w[t].o] :
     t \in {t \in 2..Len(w) : \E d \in {w[t].o - w[t - 1].c, w[t - 1].c - w[t].o} : 10 * d > 18 * Atr}}

\* run_pipeline: everything the window says.
Pipeline(w) ==
  IF Len(w) < MinBars THEN {}
  ELSE LET swings == ActiveSwings(w)
           breaks == StructureBreaks(w, swings)
       IN breaks \cup Characters(w, swings) \cup Outcomes(w, breaks)
            \cup Rejections(w, swings) \cup Gaps(w)

\* StructureState.on_event over the events of the window in bar order, breaks
\* before changes of character: from a trend to its opposite only through
\* TRANSITION.  A strength S above 0.6 stands for a break of one ATR or more.
MarketState(w) ==
  LET said == Pipeline(w)
      Out(e) == IF e.kind = "HIGH" THEN w[e.at].c - e.level ELSE e.level - w[e.at].c
      OnBreak(st, kind, evs) ==
        LET own == IF kind = "HIGH" THEN "BULL" ELSE "BEAR" IN
        IF evs # {} /\ (st \in {own, "TRANSITION"} \/ (st = "RANGE" /\ \E e \in evs : Out(e) >= Atr))
        THEN own ELSE st
      At(what, kind, t) == {e \in said : e.what = what /\ e.kind = kind /\ e.at = t}
      OnBar(st, t) ==
        LET broken == OnBreak(OnBreak(st, "HIGH", At("BOS", "HIGH", t)), "LOW", At("BOS", "LOW", t))
        IN IF \/ broken = "BEAR" /\ At("CHOCH", "HIGH", t) # {}
              \/ broken = "BULL" /\ At("CHOCH", "LOW", t) # {}
           THEN "TRANSITION" ELSE broken
  IN FoldLeft(OnBar, "RANGE", [t \in 1..Len(w) |-> t])

\* MARKET_TRANSITIONS.
LegalStates(st) ==
  IF st = "RANGE" THEN {"BULL", "BEAR", "RANGE"}
  ELSE IF st = "TRANSITION" THEN {"BULL", "BEAR", "RANGE", "TRANSITION"}
  ELSE {st, "TRANSITION", "RANGE"}

\* _DIRECTION_MAP and _to_evidence: an invalidation speaks against its break.
DirectionOf(e) ==
  IF e.what \in {"RETEST", "WICK", "GAP"} THEN 0
  ELSE IF (e.kind = "HIGH") # (e.what = "INVALIDATION") THEN 1 ELSE -1

-----------------------------------------------------------------------------
StructureInit == bars = <<>> /\ published = {}

\* on_new_candle: the window grows by the bar and what is new is published.
NewBar ==
  \E n \in {n \in 1..Len(Tape) : n = Len(bars) + 1} : \E b \in Tape[n] :
    /\ bars' = Append(bars, b)
    /\ published' = published \cup Pipeline(bars')

StructureNext == NewBar

-----------------------------------------------------------------------------
\* What is stamped available at a bar's close (_to_evidence: availability_time
\* is the bar's time) was said by the run whose window ended at that bar.  The
\* docstring of detect_choch calls its conditions PIT-safe.
SaidInTime ==
  [][\A e \in published' \ published : e.at = Len(bars')]_structureVars

\* no_future_leak_check: the swings up to k + 1 bars before the newest one are
\* the same when the window has grown by a bar.
SwingsAreSettled ==
  [][LET Old(w) == {s \in ToSet(ActiveSwings(w)) : s.at <= Len(bars) - Williams - 1}
     IN Old(bars) = Old(bars')]_structureVars

\* The state machine's table, of the state the engine reports bar after bar.
StateStepsAreLegal ==
  [][MarketState(bars') \in LegalStates(MarketState(bars))]_structureVars
=============================================================================
