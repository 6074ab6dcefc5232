---------------------------- MODULE LiquidityEngine ----------------------------
(***************************************************************************)
(* E02, liquidity (engines/e02_liquidity/engine.py): levels formed by      *)
(* touches of swing extremes, activity-window extremes and range edges,    *)
(* their fates, sweeps of them, and the pools they gather in.  One closed  *)
(* bar is one step; the stages run in the code's order.                    *)
(*                                                                         *)
(* Prices are integers and the average true range is the constant RangeAtr.*)
(* Which voids a bar fills is an input (the volume profile decides it);    *)
(* order flow and VPIN, on which no level's life depends, are left out;    *)
(* every bar has volume.                                                   *)
(***************************************************************************)
EXTENDS Integers, Sequences, FiniteSets, SequencesExt, FiniteSetsExt

CONSTANTS
  LiquidityTape,  \* sets of bars that may close as n-th: records o, h, l, c
  WindowOf,       \* activity window (utc_window_of) of the n-th bar
  VoidFills,      \* edges <<lo, hi, ...>> of the voids the n-th bar may fill
  RangeAtr,
  LevelExpiry,    \* level_expiry_bars
  EdgeBars,       \* bars of the rolling range
  WarmUp          \* bars of the ATR sample below which a level is Q3

ASSUME LiquidityBounds ==
  /\ Len(WindowOf) = Len(LiquidityTape) /\ Len(VoidFills) = Len(LiquidityTape)
  /\ \A n \in DOMAIN LiquidityTape : LiquidityTape[n] \subseteq [o : Int, h : Int, l : Int, c : Int]
  /\ {RangeAtr, LevelExpiry, EdgeBars, WarmUp} \subseteq Nat

SwingWidth == 2
SalientBars == 45  \* last bar of age at which three touches score 0.7
SweepPause == 3
Live == {"FORMED", "ACTIVE", "STRENGTHENED"}
Terminal == {"SWEPT", "INVALIDATED", "EXPIRED"}
Raidable == {"ACTIVE", "STRENGTHENED"}

VARIABLES
  closed,    \* LiquidityEngineV4.candles
  levels,    \* lid = <<price, bar>> -> level
  extremes,  \* _window_extreme: window -> record
  sweepLog,  \* sweep_log: records lid, side, at
  pools      \* pid = <<lo, hi>> -> record

liquidityVars == <<closed, levels, extremes, sweepLog, pools>>

-----------------------------------------------------------------------------
Apart(a, b) == IF a > b THEN a - b ELSE b - a
Near(a, b) == 100 * Apart(a, b) <= 15 * RangeAtr
MiddleOf(prices) == LET s == SortSeq(prices, LAMBDA a, b : a < b) IN s[1 + Len(s) \div 2]

\* _ingest_touch: the nearest live level of that side takes the touch and moves
\* to the median of its members; otherwise a level is formed under its price
\* and bar, whatever stood under that name before.
Touched(lvs, price, bar, now) ==
  LET side == IF price < now.c THEN "BUY_SIDE" ELSE "SELL_SIDE"
      hosts == {id \in DOMAIN lvs : /\ lvs[id].side = side /\ lvs[id].fate \in Live
                                    /\ Near(price, lvs[id].price)}
      nearest == {id \in hosts : \A o \in hosts : Apart(price, lvs[id].price) <= Apart(price, lvs[o].price)}
      New == [ price |-> price, side |-> side, first |-> bar, last |-> bar, fate |-> "FORMED",
               q |-> "Q1", members |-> <<price>> ]
      Joined(lv) == [ lv EXCEPT !.members = Append(@, price), !.last = bar,
                        !.price = MiddleOf(Append(lv.members, price)),
                        !.fate = IF @ = "ACTIVE" THEN "STRENGTHENED" ELSE @ ]
  IN IF hosts = {} THEN (<<price, bar>> :> New) @@ lvs
     ELSE LET id == CHOOSE id \in nearest : TRUE IN [lvs EXCEPT ![id] = Joined(@)]

\* _new_swing_confirmed: the bar two back, when it stands out on both sides.
SwingTouches(w) ==
  LET t == Len(w) - SwingWidth
      Out(Higher(_, _)) == \A d \in 1..SwingWidth : Higher(w[t], w[t - d]) /\ Higher(w[t], w[t + d])
  IN IF t <= SwingWidth THEN <<>>
     ELSE (IF Out(LAMBDA a, b : a.h > b.h) THEN <<[price |-> w[t].h, bar |-> t]>> ELSE <<>>)
          \o (IF Out(LAMBDA a, b : a.l < b.l) THEN <<[price |-> w[t].l, bar |-> t]>> ELSE <<>>)

\* _ingest_window_extreme, the tracker of the bar's own window.
Tracked(ext, w) ==
  LET n == Len(w)
      win == WindowOf[n]
      old == IF win \in DOMAIN ext THEN ext[win]
             ELSE [high |-> w[n].h, highBar |-> n, low |-> w[n].l, lowBar |-> n]
      new == [ high |-> Max({old.high, w[n].h}), highBar |-> IF w[n].h > old.high THEN n ELSE old.highBar,
               low |-> Min({old.low, w[n].l}), lowBar |-> IF w[n].l < old.low THEN n ELSE old.lowBar ]
  IN [x \in DOMAIN ext \cup {win} |-> IF x = win THEN new ELSE ext[x]]

Crossed(w) == Len(w) > 1 /\ WindowOf[Len(w)] # WindowOf[Len(w) - 1]

\* ... and, when the bar opens another window, the touches of the one before.
WindowTouches(ext, w) ==
  IF ~Crossed(w) \/ WindowOf[Len(w) - 1] \notin DOMAIN ext THEN <<>>
  ELSE LET done == ext[WindowOf[Len(w) - 1]] IN
       <<[price |-> done.high, bar |-> done.highBar], [price |-> done.low, bar |-> done.lowBar]>>

\* Mutant of Retired: the tracker of a finished window is kept for the next day.
KeptForNextDay(ext, w) == ext

\* A finished window's tracker is dropped.  Only another window's name ends one:
\* after a gap to the next day's window of its name it goes on.
Retired(ext, w) ==
  IF Crossed(w) THEN [win \in DOMAIN ext \ {WindowOf[Len(w) - 1]} |-> ext[win]] ELSE ext

\* _ingest_range_edges: an edge of the rolling range no live level is near.
EdgeTouch(lvs, price, w) ==
  IF \E id \in DOMAIN lvs : lvs[id].fate \in Live /\ Near(lvs[id].price, price)
  THEN lvs ELSE Touched(lvs, price, Len(w), w[Len(w)])

EdgesTouched(lvs, w) ==
  IF Len(w) < EdgeBars THEN lvs
  ELSE LET recent == (Len(w) - EdgeBars + 1)..Len(w)
       IN EdgeTouch(EdgeTouch(lvs, Max({w[n].h : n \in recent}), w), Min({w[n].l : n \in recent}), w)

\* _update_fates of one level.
Aged(lv, w) ==
  LET n == Len(w)
      fate == IF lv.fate = "FORMED" /\ n >= lv.first + 1 THEN "ACTIVE" ELSE lv.fate
      strong == /\ Len(lv.members) >= 3 /\ n - lv.last <= SalientBars
                /\ 2 * (n - lv.first) <= LevelExpiry
      q == IF strong THEN "Q2" ELSE lv.q
      beyond == IF lv.side = "SELL_SIDE" THEN w[n].c - lv.price ELSE lv.price - w[n].c
  IN IF lv.fate \in Terminal THEN lv
     ELSE [lv EXCEPT !.q = IF n < WarmUp /\ q = "Q1" THEN "Q3" ELSE q,
                     !.fate = IF n - lv.last > LevelExpiry /\ fate # "FORMED" THEN "EXPIRED"
                              ELSE IF fate \in Raidable /\ 2 * beyond > 3 * RangeAtr THEN "INVALIDATED"
                              ELSE fate]

\* detect_sweep: the five prerequisites of a sweep of the level by the bar.
IsSwept(lv, b, n) ==
  LET sell == lv.side = "SELL_SIDE"
      pen == Max({0, IF sell THEN b.h - lv.price ELSE lv.price - b.l})
      wick == IF sell THEN b.h - Max({b.o, b.c}) ELSE Min({b.o, b.c}) - b.l
      back == IF sell THEN lv.price - b.c ELSE b.c - lv.price
  IN /\ lv.fate \in Raidable /\ lv.q \in {"Q1", "Q2"} /\ lv.first <= n - 1
     /\ pen > 0 /\ 10 * pen >= RangeAtr
     /\ 5 * wick >= b.h - b.l /\ 10 * back >= 3 * pen
     /\ lv.last < n

\* _update_pools: clusters of live levels within twice the tolerance of each
\* other.  A known pool only takes members it did not have; its fate stays.  With
\* no level to gather the pools are not looked at, not even for their fates.
ClustersOf(lvs) ==
  LET live == {id \in DOMAIN lvs : lvs[id].fate \in Raidable}
      Linked(a, b) == 100 * Apart(lvs[a].price, lvs[b].price) <= 30 * RangeAtr
      Group(id) == {o \in live : Linked(id, o)}
  IN {g \in {Group(id) : id \in live} : Cardinality(g) >= 2}

Gathered(ps, lvs) ==
  LET clusters == ClustersOf(lvs)
      Pid(g) == <<Min({lvs[id].price : id \in g}), Max({lvs[id].price : id \in g})>>
      Known(p) == IF p \in DOMAIN ps THEN ps[p] ELSE [members |-> {}, fate |-> "ACTIVE"]
      Grown(p) == LET own == UNION {g \in clusters : Pid(g) = p} IN
                  IF own \subseteq Known(p).members THEN Known(p) ELSE [Known(p) EXCEPT !.members = own]
      Judged(pool) ==
        IF pool.fate = "ACTIVE" /\ \A id \in pool.members : lvs[id].fate \in Terminal
        THEN [pool EXCEPT !.fate = "SWEPT"] ELSE pool
  IN IF \A id \in DOMAIN lvs : lvs[id].fate \notin Raidable THEN ps
     ELSE [p \in DOMAIN ps \cup {Pid(g) : g \in clusters} |-> Judged(Grown(p))]

\* Raid: two sweeps of one side within three bars.
Raided(log, side, n) == Cardinality({s \in log : s.side = side /\ n - s.at <= 3}) >= 2

-----------------------------------------------------------------------------
LiquidityInit ==
  /\ closed = <<>> /\ levels = <<>> /\ extremes = <<>> /\ sweepLog = {} /\ pools = <<>>

\* on_new_closed_candle.  The edges of a void the bar fills touch levels last.
BarCloses(b, edges) ==
  LET w == Append(closed, b)
      n == Len(w)
      tracked == Tracked(extremes, w)
      Take(lvs, touch) == Touched(lvs, touch.price, touch.bar, b)
      touched == FoldLeft(Take, levels, SwingTouches(w) \o WindowTouches(tracked, w))
      aged == LET t == EdgesTouched(touched, w) IN [id \in DOMAIN t |-> Aged(t[id], w)]
      swept == {id \in DOMAIN aged :
                  /\ IsSwept(aged[id], b, n)
                  /\ \A s \in sweepLog : s.lid = id => n - s.at >= SweepPause}
      after == [id \in DOMAIN aged |-> IF id \in swept THEN [aged[id] EXCEPT !.fate = "SWEPT"] ELSE aged[id]]
  IN /\ closed' = w
     /\ extremes' = Retired(tracked, w)
     /\ levels' = FoldLeft(LAMBDA lvs, edge : Touched(lvs, edge, n, b), after, edges)
     /\ sweepLog' = sweepLog \cup {[lid |-> id, side |-> after[id].side, at |-> n] : id \in swept}
     /\ pools' = Gathered(pools, after)

LiquidityNext ==
  \E n \in {n \in 1..Len(LiquidityTape) : n = Len(closed) + 1} :
    \E b \in LiquidityTape[n] : \E edges \in {e \in VoidFills[n] : \A i \in DOMAIN e : e[i] \in b.l..b.h} :
      BarCloses(b, edges)

-----------------------------------------------------------------------------
\* What is tracked is what was seen since the bars last changed their window: the
\* other windows have no tracker, and no extreme from before that change is left.
ExtremesAreOfThisWindow ==
  closed = <<>> \/
    LET n == Len(closed)
        Same(m) == \A i \in m..n : WindowOf[i] = WindowOf[n]
        own == {m \in 1..n : Same(m)}
        seen == extremes[WindowOf[n]]
    IN /\ DOMAIN extremes = {WindowOf[n]}
       /\ seen.high = Max({closed[m].h : m \in own}) /\ seen.low = Min({closed[m].l : m \in own})
       /\ {seen.highBar, seen.lowBar} \subseteq own
=============================================================================
