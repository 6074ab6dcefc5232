----------------------------- MODULE WyckoffEngine -----------------------------
(***************************************************************************)
(* E08, the Wyckoff cycle of a trading range (engines/e08_wyckoff/         *)
(* engine.py).  The first tight window latches a range; a selling climax   *)
(* (SC), its rally (AR), tests (ST), springs, a sign of strength (SOS) and *)
(* last points of support (LPS) are looked for inside it, each against     *)
(* what the earlier ones latched, until the range is invalidated by a      *)
(* close under the climax or expires.  process_bar is one step.            *)
(*                                                                         *)
(* Prices are integers, in units of a tenth of the constant ATR; a bar     *)
(* carries the volume ratio, RangeZ, EVR, the direction of E01's structure *)
(* and the bar at which its break was confirmed, all measured elsewhere.   *)
(***************************************************************************)
EXTENDS Integers, Sequences, FiniteSets, FiniteSetsExt, SequencesExt

CONSTANTS
  WyckoffTape,   \* sets of bars that may close as n-th: o, h, l, c, vr, rz, evr, bos, dir, atr
  RangeBars,     \* range_min_bars
  RallyBars,     \* ar_bars
  SpringBars,    \* spring_since_st_max
  MaxRangeAge    \* max_age_bars

ASSUME WyckoffBounds == {RangeBars, RallyBars, SpringBars, MaxRangeAge} \subseteq Nat \ {0}

Unknown == -1          \* a volume ratio or EVR that is not a number
NoBreak == 0           \* no bullish break of structure known
CycleStates == <<"NO_RANGE", "RANGE_DETECTED", "SC", "AR", "ST", "SPRING", "SOS", "LPS">>

VARIABLES
  wyckoffBars,   \* the bars processed, refused ones too
  range,         \* lo, hi and age of the latched range, since: the bar that latched it
  latches,       \* low_sc, sc_idx, high_sos and last_st_idx, each as bar and price
  cycleState,    \* state, an index into CycleStates
  cycleFate,     \* fate of the last bar
  signals        \* events

wyckoffVars == <<wyckoffBars, range, latches, cycleState, cycleFate, signals>>

NoRange == [lo |-> 0, hi |-> 0, age |-> 0, since |-> 0]
NotYet == [bar |-> 0, price |-> 0]
NoLatches == [sc |-> NotYet, st |-> NotYet, sos |-> NotYet]
Latched(l) == l.bar > 0

WyckoffInit ==
  /\ wyckoffBars = <<>> /\ range = NoRange /\ latches = NoLatches
  /\ cycleState = 1 /\ cycleFate = "AMBIGUOUS" /\ signals = <<>>

-----------------------------------------------------------------------------
\* The ATR is 10: thresholds in ATR become units of price.
Spread(b) == b.h - b.l
\* ClosePos as a percentage, and BodyRatio at least one half.
ClosesAt(b) == IF Spread(b) = 0 THEN 0 ELSE (100 * (b.c - b.l)) \div Spread(b)
BodyIsHalf(b) == Spread(b) > 0 /\ 2 * Max({b.c - b.o, b.o - b.c}) >= Spread(b)

\* The bars that reached the history: H >= L and an ATR.
Usable(b) == b.h >= b.l /\ b.atr
UsableBars(w) == SelectSeq(w, Usable)
LastBars(w, n) == SubSeq(w, Max({1, Len(w) - n + 1}), Len(w))
LowOf(w) == Min({w[i].l : i \in DOMAIN w})
HighOf(w) == Max({w[i].h : i \in DOMAIN w})

\* detect_range: the last RangeBars bars within 1.5 ATR.
RangeOf(w) ==
  LET window == LastBars(w, RangeBars)
  IN {r \in {[lo |-> LowOf(window), hi |-> HighOf(window), age |-> 0, since |-> 0]} :
        Len(w) >= RangeBars /\ r.hi - r.lo < 15}

\* detect_sc_full: volume, range, close, body and the lowest low of six bars.
IsClimax(b, w) ==
  /\ b.vr >= 25 /\ b.rz >= 2 /\ ClosesAt(b) \in 25..60 /\ BodyIsHalf(b) /\ b.c < b.o
  /\ b.l = LowOf(LastBars(w, 6))

\* detect_ar, at most RallyBars after the climax.
IsRally(b, sc, n) ==
  n - sc.bar \in 1..RallyBars /\ b.h - sc.price >= 5 /\ ClosesAt(b) >= 60

\* detect_st: dry volume near the climax low and not under it.
IsTest(b, sc) == b.vr # Unknown /\ b.vr <= 7 /\ b.l \in sc.price .. sc.price + 3

\* detect_spring: under the range and closed back in, on volume or effort;
\* without a test there is nothing to be late after.
IsSpring(b, r, st, n) ==
  /\ r.lo - b.l \in 1..3 /\ b.c > r.lo
  /\ b.vr >= 13 \/ b.evr
  /\ ~Latched(st) \/ n - st.bar <= SpringBars

\* detect_utad and detect_lpsy, the distribution side: they latch nothing.
IsUpthrust(b, r) == b.h - r.hi \in 1..3 /\ b.c < r.hi /\ b.vr >= 12 /\ ClosesAt(b) <= 40
IsLastSupply(b, r) ==
  b.h < r.hi /\ b.l >= r.lo + 2 /\ b.vr \in 0..7 /\ b.c < b.o

\* detect_sos: the break must have been confirmed by the bar before.
IsStrength(b, r, n) ==
  b.bos \in 1 .. n - 1 /\ b.c > r.hi + 2 /\ b.vr >= 12 /\ ClosesAt(b) >= 65
IsSupport(b, r, sos) ==
  b.h < sos.price /\ b.l >= r.lo + 2 /\ b.vr \in 0..7 /\ b.dir # "BEAR"

-----------------------------------------------------------------------------
\* Mutant of Released: high_sos survives the range it was seen in.
ReleasedButStrength(l) == [NoLatches EXCEPT !.sos = l.sos]

\* An invalidated or expired hypothesis gives up everything it latched.
Released(l) == NoLatches

\* _advance: along the order of the states, never back; states may be skipped.
Advanced(seen) == Max({cycleState} \cup seen)

\* _to_evidence: the direction a signal carries.
DirectionOfSignal(name) ==
  IF name \in {"AR", "SPRING", "SOS", "LPS"} THEN 1
  ELSE IF name \in {"SC", "UTAD", "LPSY"} THEN -1 ELSE 0
Signal(on, name, n) ==
  IF on THEN <<[code |-> name, at |-> n, dir |-> DirectionOfSignal(name)]>> ELSE <<>>

\* Event detection of one bar inside range r with latches l: which events, what
\* is latched and how far the cycle goes.
ActsOf(b, w, r, l, n) ==
  LET climax == IsClimax(b, w)
      sc == IF climax THEN [bar |-> n, price |-> b.l] ELSE l.sc
      rally == ~climax /\ Latched(sc) /\ IsRally(b, sc, n)
      test == Latched(sc) /\ IsTest(b, sc)
      st == IF test THEN [bar |-> n, price |-> b.l] ELSE l.st
      spring == IsSpring(b, r, st, n)
      strength == IsStrength(b, r, n)
      support == ~strength /\ Latched(l.sos) /\ IsSupport(b, r, l.sos)
  IN [ latches |-> [ sc |-> sc, st |-> st,
                     sos |-> IF strength THEN [bar |-> n, price |-> b.h] ELSE l.sos ],
       reached |-> (IF climax THEN {3} ELSE {}) \cup (IF rally THEN {4} ELSE {})
                   \cup (IF test THEN {5} ELSE {}) \cup (IF spring THEN {6} ELSE {})
                   \cup (IF strength THEN {7} ELSE {}) \cup (IF support THEN {8} ELSE {}),
       events |-> Signal(climax, "SC", n) \o Signal(rally, "AR", n) \o Signal(test, "ST", n)
                  \o Signal(spring, "SPRING", n) \o Signal(IsUpthrust(b, r), "UTAD", n)
                  \o Signal(IsLastSupply(b, r), "LPSY", n) \o Signal(strength, "SOS", n)
                  \o Signal(support, "LPS", n) ]

\* process_bar.  The hypotheses of the eight phases are left out: their entropy
\* is never below 2 nats (scores in [0, 1]), the threshold is 0.85, so a bar that
\* ends nothing is AMBIGUOUS.
WyckoffBarCloses(b) ==
  LET n == Len(wyckoffBars) + 1
      w == UsableBars(Append(wyckoffBars, b))
      open == range.since > 0
      found == IF open THEN {} ELSE RangeOf(w)
      r0 == IF open THEN [range EXCEPT !.age = @ + 1]
            ELSE IF found # {} THEN [(CHOOSE r \in found : TRUE) EXCEPT !.since = n] ELSE NoRange
      under == Latched(latches.sc) /\ b.c < latches.sc.price - 5
      old == r0.age > MaxRangeAge
      over == under \/ old
      r1 == IF over THEN NoRange ELSE r0
      l1 == IF over THEN Released(latches) ELSE latches
      Nothing == [latches |-> l1, reached |-> {}, events |-> <<>>]
      seen == IF r1.since > 0 THEN ActsOf(b, w, r1, l1, n) ELSE Nothing
  IN /\ wyckoffBars' = Append(wyckoffBars, b)
     /\ IF ~Usable(b)
        THEN cycleFate' = "Q0_INVALID" /\ UNCHANGED <<range, latches, cycleState, signals>>
        ELSE /\ range' = r1 /\ latches' = seen.latches
             /\ cycleState' = IF over THEN 1
                              ELSE Advanced(seen.reached \cup (IF found # {} THEN {2} ELSE {}))
             /\ cycleFate' = IF under THEN "INVALIDATED" ELSE IF old THEN "EXPIRED"
                             ELSE "AMBIGUOUS"
             /\ signals' = signals \o Signal(found # {}, "RANGE", n) \o Signal(under, "OVER", n)
                           \o Signal(old, "OVER", n) \o seen.events

WyckoffNext ==
  \E i \in DOMAIN WyckoffTape :
    i = Len(wyckoffBars) + 1 /\ \E b \in WyckoffTape[i] : WyckoffBarCloses(b)

-----------------------------------------------------------------------------
\* Every later act of a cycle rests on an earlier one of the same range: a rally
\* and a test on a climax, a last point of support on a sign of strength, with no
\* end of the range in between, and a rally within its bars.
ActsBelongToOneRange ==
  LET Rests(i, first, bars) ==
        \E j \in 1 .. i - 1 :
           /\ signals[j].code = first /\ signals[i].at - signals[j].at <= bars
           /\ \A k \in j .. i : signals[k].code \notin {"OVER", "RANGE"}
  IN \A i \in DOMAIN signals :
        /\ signals[i].code = "AR" => Rests(i, "SC", RallyBars)
        /\ signals[i].code = "ST" => Rests(i, "SC", Len(wyckoffBars))
        /\ signals[i].code = "LPS" => Rests(i, "SOS", Len(wyckoffBars))
=============================================================================
