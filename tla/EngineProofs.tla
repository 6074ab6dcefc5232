----------------------------- MODULE EngineProofs -----------------------------
(***************************************************************************)
(* What E02, E03, E05, E08 and E10 keep from bar to bar stays whole:       *)
(* extremes, the accepted past, zones, signals and pivots.                 *)
(***************************************************************************)
EXTENDS Engines, DecisionProofs

-----------------------------------------------------------------------------
(* Naturals.                                                               *)

\* A set of naturals has a least one.
LEMMA LeastNatural ==
  ASSUME NEW S \in SUBSET Nat, S # {}
  PROVE  \E m \in S : \A y \in S : m <= y
<1>1. PICK m \in S : \A y \in S : ~(<<y, m>> \in OpToRel(<, Nat))
  BY NatLessThanWellFounded, WFMin
<1>2. \A y \in S : <<y, m>> \in OpToRel(<, Nat) <=> y < m
  BY DEF OpToRel
<1>3. \A y \in S : ~(y < m)
  BY <1>1, <1>2
<1> QED
  BY <1>3

LEMMA LeastOf ==
  ASSUME NEW S \in SUBSET Nat, S # {}
  PROVE  Min(S) \in S /\ \A y \in S : Min(S) <= y
<1>1. PICK m \in S : \A y \in S : m <= y
  BY LeastNatural
<1>2. \A x \in S : (\A y \in S : x <= y) => x = m
  BY <1>1
<1> QED
  BY <1>1, <1>2 DEF Min

LEMMA OfTwo ==
  ASSUME NEW a \in Int, NEW b \in Int, a <= b
  PROVE  Min({a, b}) = a /\ Max({a, b}) = b /\ Min({b, a}) = a /\ Max({b, a}) = b
<1>1. a \in {a, b} /\ \A y \in {a, b} : a <= y
  OBVIOUS
<1>2. b \in {a, b} /\ \A y \in {a, b} : b >= y
  OBVIOUS
<1>3. \A x \in {a, b} : (\A y \in {a, b} : x <= y) => x = a
  BY <1>1
<1>4. \A x \in {a, b} : (\A y \in {a, b} : x >= y) => x = b
  BY <1>2
<1>5. {b, a} = {a, b}
  OBVIOUS
<1>6. Min({a, b}) = a
  BY <1>1, <1>3, Zenon DEF Min
<1>7. Max({a, b}) = b
  BY <1>2, <1>4, Zenon DEF Max
<1> QED
  BY <1>5, <1>6, <1>7, Zenon

\* An element no other exceeds is the greatest, one that exceeds no other the least.
LEMMA GreatestIs ==
  ASSUME NEW S \in SUBSET Int, NEW x \in S, \A y \in S : y <= x
  PROVE  Max(S) = x
<1>1. \A z \in S : (\A y \in S : z >= y) => z = x
  OBVIOUS
<1>2. \A y \in S : x >= y
  OBVIOUS
<1> QED
  BY <1>1, <1>2, Zenon DEF Max

LEMMA LeastIs ==
  ASSUME NEW S \in SUBSET Int, NEW x \in S, \A y \in S : x <= y
  PROVE  Min(S) = x
<1>1. \A z \in S : (\A y \in S : z <= y) => z = x
  OBVIOUS
<1> QED
  BY <1>1, Zenon DEF Min

-----------------------------------------------------------------------------
(* E02.  The tracker holds the extremes of the bars of the current window, *)
(* with the bars they were reached at, and nothing else: the bar that      *)
(* opens a window ends the one before, so a window of that name opened on  *)
(* another day finds no tracker.                                           *)

LiquiditySpec == LiquidityInit /\ [][LiquidityNext]_liquidityVars

Candles == [o : Int, h : Int, l : Int, c : Int]
\* The bars up to the n-th that lie in its window without a break.
Own(n) == {m \in 1 .. n : \A i \in m .. n : WindowOf[i] = WindowOf[n]}

Spans(looked, w, bars) ==
  /\ looked.highBar \in bars /\ looked.high = w[looked.highBar].h
  /\ looked.lowBar \in bars /\ looked.low = w[looked.lowBar].l
  /\ \A m \in bars : w[m].h <= looked.high /\ looked.low <= w[m].l

LiquidityInv ==
  /\ closed \in Seq(Candles)
  /\ closed = <<>> => DOMAIN extremes = {}
  /\ closed # <<>> => /\ DOMAIN extremes = {WindowOf[Len(closed)]}
                      /\ Spans(extremes[WindowOf[Len(closed)]], closed, Own(Len(closed)))

\* One bar more.
LEMMA SpansMore ==
  ASSUME NEW w \in Seq(Candles), NEW n \in 1 .. Len(w), NEW bars \in SUBSET (1 .. Len(w)),
         NEW old, Spans(old, w, bars), NEW new,
         new = [ high |-> Max({old.high, w[n].h}),
                 highBar |-> IF w[n].h > old.high THEN n ELSE old.highBar,
                 low |-> Min({old.low, w[n].l}),
                 lowBar |-> IF w[n].l < old.low THEN n ELSE old.lowBar ]
  PROVE  Spans(new, w, bars \cup {n})
<1>1. \A m \in 1 .. Len(w) : w[m].h \in Int /\ w[m].l \in Int
  <2>1. \A m \in 1 .. Len(w) : w[m] \in Candles
    OBVIOUS
  <2> QED
    BY <2>1 DEF Candles
<1>2. old.high \in Int /\ old.low \in Int /\ old.highBar \in 1 .. Len(w) /\ old.lowBar \in 1 .. Len(w)
  BY <1>1 DEF Spans
<1>3. /\ new.high = Max({old.high, w[n].h}) /\ new.low = Min({old.low, w[n].l})
      /\ w[n].h > old.high => new.highBar = n
      /\ ~(w[n].h > old.high) => new.highBar = old.highBar
      /\ w[n].l < old.low => new.lowBar = n
      /\ ~(w[n].l < old.low) => new.lowBar = old.lowBar
  OBVIOUS
<1>4. /\ w[n].h > old.high => new.high = w[n].h
      /\ ~(w[n].h > old.high) => new.high = old.high
  <2>1. CASE w[n].h > old.high
    <3>1. old.high <= w[n].h /\ w[n].h \in Int
      BY <1>1, <1>2, <2>1
    <3> QED
      BY <1>2, <1>3, <2>1, <3>1, OfTwo, Zenon
  <2>2. CASE ~(w[n].h > old.high)
    <3>1. w[n].h <= old.high /\ w[n].h \in Int
      BY <1>1, <1>2, <2>2
    <3> QED
      BY <1>2, <1>3, <2>2, <3>1, OfTwo, Zenon
  <2> QED
    BY <2>1, <2>2
<1>5. /\ w[n].l < old.low => new.low = w[n].l
      /\ ~(w[n].l < old.low) => new.low = old.low
  <2>1. CASE w[n].l < old.low
    <3>1. w[n].l <= old.low /\ w[n].l \in Int
      BY <1>1, <1>2, <2>1
    <3> QED
      BY <1>2, <1>3, <2>1, <3>1, OfTwo, Zenon
  <2>2. CASE ~(w[n].l < old.low)
    <3>1. old.low <= w[n].l /\ w[n].l \in Int
      BY <1>1, <1>2, <2>2
    <3> QED
      BY <1>2, <1>3, <2>2, <3>1, OfTwo, Zenon
  <2> QED
    BY <2>1, <2>2
<1>6. \A m \in bars : w[m].h <= old.high /\ old.low <= w[m].l /\ w[m].h \in Int /\ w[m].l \in Int
  BY <1>1 DEF Spans
<1>7. /\ new.highBar \in bars \cup {n} /\ new.high = w[new.highBar].h
      /\ new.lowBar \in bars \cup {n} /\ new.low = w[new.lowBar].l
  BY <1>3, <1>4, <1>5 DEF Spans
<1>8. ASSUME NEW m \in bars \cup {n}
      PROVE  w[m].h <= new.high /\ new.low <= w[m].l
  BY <1>1, <1>2, <1>4, <1>5, <1>6
<1> QED
  BY <1>7, <1>8 DEF Spans

\* The bars of the window of the n-th bar.
LEMMA OwnBars ==
  ASSUME NEW n \in Nat \ {0}
  PROVE  /\ n > 1 /\ WindowOf[n] = WindowOf[n - 1] => Own(n) = Own(n - 1) \cup {n}
         /\ ~(n > 1 /\ WindowOf[n] = WindowOf[n - 1]) => Own(n) = {n}
<1>1. n \in Own(n)
  BY DEF Own
<1>2. CASE n > 1 /\ WindowOf[n] = WindowOf[n - 1]
  <2>1. ASSUME NEW m \in Own(n - 1)
        PROVE  m \in Own(n)
    <3>1. m \in 1 .. n /\ \A i \in m .. n - 1 : WindowOf[i] = WindowOf[n]
      BY <1>2, <2>1 DEF Own
    <3>2. \A i \in m .. n : i = n \/ i \in m .. n - 1
      BY <3>1
    <3> QED
      BY <3>1, <3>2 DEF Own
  <2>2. ASSUME NEW m \in Own(n), m # n
        PROVE  m \in Own(n - 1)
    <3>1. m \in 1 .. n - 1 /\ \A i \in m .. n : WindowOf[i] = WindowOf[n]
      BY <2>2 DEF Own
    <3>2. \A i \in m .. n - 1 : i \in m .. n
      BY <3>1
    <3> QED
      BY <1>2, <3>1, <3>2 DEF Own
  <2> QED
    BY <1>1, <1>2, <2>1, <2>2
<1>3. CASE ~(n > 1 /\ WindowOf[n] = WindowOf[n - 1])
  <2>1. ASSUME NEW m \in Own(n), m # n
        PROVE  FALSE
    <3>1. m \in 1 .. n - 1 /\ \A i \in m .. n : WindowOf[i] = WindowOf[n]
      BY <2>1 DEF Own
    <3>2. n - 1 \in m .. n
      BY <3>1
    <3>3. WindowOf[n - 1] = WindowOf[n] /\ n > 1
      BY <3>1, <3>2
    <3> QED
      BY <1>3, <3>3
  <2> QED
    BY <1>1, <1>3, <2>1
<1> QED
  BY <1>2, <1>3

LEMMA LiquidityBarKeeps ==
  ASSUME NEW b \in Candles, NEW edges, LiquidityInv, BarCloses(b, edges)
  PROVE  LiquidityInv'
<1>1. PICK w, n : w = Append(closed, b) /\ n = Len(w)
  OBVIOUS
<1>2. /\ closed \in Seq(Candles) /\ w \in Seq(Candles) /\ n \in Nat \ {0} /\ n = Len(closed) + 1
      /\ w[n] = b /\ \A m \in 1 .. n - 1 : w[m] = closed[m]
  BY <1>1 DEF LiquidityInv
<1>3. PICK tracked : tracked = Tracked(extremes, w)
  OBVIOUS
<1>4. closed' = w /\ extremes' = Retired(tracked, w)
  BY <1>1, <1>3, Zenon DEF BarCloses
<1>5. PICK win : win = WindowOf[n]
  OBVIOUS
<1>6. PICK old : old = IF win \in DOMAIN extremes THEN extremes[win]
                       ELSE [high |-> w[n].h, highBar |-> n, low |-> w[n].l, lowBar |-> n]
  OBVIOUS
<1>7. PICK new : new = [ high |-> Max({old.high, w[n].h}),
                         highBar |-> IF w[n].h > old.high THEN n ELSE old.highBar,
                         low |-> Min({old.low, w[n].l}),
                         lowBar |-> IF w[n].l < old.low THEN n ELSE old.lowBar ]
  OBVIOUS
<1>8. tracked = [x \in DOMAIN extremes \cup {win} |-> IF x = win THEN new ELSE extremes[x]]
  BY <1>1, <1>3, <1>5, <1>6, <1>7, Zenon DEF Tracked
<1>9. PICK same \in BOOLEAN : same <=> n > 1 /\ WindowOf[n] = WindowOf[n - 1]
  OBVIOUS
<1>10. closed # <<>> <=> n > 1
  BY <1>2
<1>11. n > 1 => /\ DOMAIN extremes = {WindowOf[n - 1]}
                /\ Spans(extremes[WindowOf[n - 1]], closed, Own(n - 1))
  <2>1. n - 1 = Len(closed)
    BY <1>2
  <2> QED
    BY <1>10, <2>1, Zenon DEF LiquidityInv
<1>12. ~(n > 1) => DOMAIN extremes = {}
  BY <1>10 DEF LiquidityInv
<1>13. Own(n) \subseteq 1 .. n
  BY DEF Own
<1>14. Spans(new, w, Own(n))
  <2>1. CASE same
    <3>1. win \in DOMAIN extremes /\ old = extremes[WindowOf[n - 1]] /\ n > 1
      BY <1>5, <1>6, <1>9, <1>11, <2>1
    <3>2. Own(n - 1) \subseteq 1 .. n - 1
      BY DEF Own
    <3>3. Spans(old, w, Own(n - 1))
      BY <1>2, <1>11, <3>1, <3>2 DEF Spans
    <3>4. Own(n - 1) \in SUBSET (1 .. Len(w)) /\ n \in 1 .. Len(w)
      BY <1>1, <1>2, <3>2
    <3>5. Spans(new, w, Own(n - 1) \cup {n})
      BY <1>2, <1>7, <3>3, <3>4, SpansMore, Zenon
    <3> QED
      BY <1>2, <1>9, <2>1, <3>5, OwnBars, Zenon
  <2>2. CASE ~same
    <3>1. win \notin DOMAIN extremes
      BY <1>2, <1>5, <1>9, <1>11, <1>12, <2>2
    <3>2. old = [high |-> w[n].h, highBar |-> n, low |-> w[n].l, lowBar |-> n]
      BY <1>6, <3>1
    <3>3. w[n].h <= w[n].h /\ w[n].l <= w[n].l
      BY <1>2 DEF Candles
    <3>4. Spans(old, w, {n})
      BY <3>2, <3>3 DEF Spans
    <3>5. {n} \in SUBSET (1 .. Len(w)) /\ n \in 1 .. Len(w)
      BY <1>1, <1>2
    <3>6. Spans(new, w, {n} \cup {n})
      BY <1>2, <1>7, <3>4, <3>5, SpansMore, Zenon
    <3>7. Own(n) = {n} \cup {n}
      BY <1>2, <1>9, <2>2, OwnBars
    <3> QED
      BY <3>6, <3>7, Zenon
  <2> QED
    BY <2>1, <2>2
<1>15. DOMAIN extremes' = {win} /\ extremes'[win] = new
  <2>1. CASE n > 1 /\ WindowOf[n] # WindowOf[n - 1]
    <3>1. extremes' = [x \in DOMAIN tracked \ {WindowOf[n - 1]} |-> tracked[x]]
      BY <1>1, <1>4, <2>1 DEF Retired, Crossed
    <3>2. DOMAIN tracked = {WindowOf[n - 1], win}
      BY <1>8, <1>11, <2>1
    <3> QED
      BY <1>5, <1>8, <2>1, <3>1, <3>2
  <2>2. CASE ~(n > 1 /\ WindowOf[n] # WindowOf[n - 1])
    <3>1. extremes' = tracked
      BY <1>1, <1>4, <2>2 DEF Retired, Crossed
    <3>2. DOMAIN extremes \subseteq {win}
      BY <1>5, <1>11, <1>12, <2>2
    <3> QED
      BY <1>8, <3>1, <3>2
  <2> QED
    BY <2>1, <2>2
<1>16. closed' # <<>> /\ Len(closed') = n
  BY <1>1, <1>2, <1>4
<1> QED
  BY <1>2, <1>4, <1>5, <1>14, <1>15, <1>16 DEF LiquidityInv

LEMMA LiquidityStarts == LiquidityInit => LiquidityInv
BY DEF LiquidityInit, LiquidityInv

LEMMA LiquidityGoesOn == LiquidityInv /\ [LiquidityNext]_liquidityVars => LiquidityInv'
<1> SUFFICES ASSUME LiquidityInv, [LiquidityNext]_liquidityVars
             PROVE  LiquidityInv'
  OBVIOUS
<1>1. CASE LiquidityNext
  <2>1. PICK n \in {m \in 1 .. Len(LiquidityTape) : m = Len(closed) + 1} :
          \E b \in LiquidityTape[n] :
            \E edges \in {e \in VoidFills[n] : \A i \in DOMAIN e : e[i] \in b.l..b.h} :
              BarCloses(b, edges)
    BY Zenon, <1>1 DEF LiquidityNext
  <2> PICK b \in LiquidityTape[n] : \E edges : BarCloses(b, edges)
    BY <2>1
  <2> PICK edges : BarCloses(b, edges)
    OBVIOUS
  <2>2. b \in Candles
    BY <2>1, LiquidityBounds DEF Candles
  <2> QED
    BY <2>2, LiquidityBarKeeps
<1>2. CASE UNCHANGED liquidityVars
  BY <1>2 DEF LiquidityInv, liquidityVars
<1> QED
  BY <1>1, <1>2

\* The extremes that become levels when the bars change their window are those seen
\* since they last did: none of another window, and none of an earlier turn of this
\* one (_ingest_window_extreme), on whatever tape.
THEOREM ExtremesAreItsOwn == LiquiditySpec => []ExtremesAreOfThisWindow
<1>1. LiquidityInv => ExtremesAreOfThisWindow
  <2> SUFFICES ASSUME LiquidityInv, closed # <<>>
               PROVE  ExtremesAreOfThisWindow
    BY DEF ExtremesAreOfThisWindow
  <2>1. PICK n, own, looked : n = Len(closed) /\ own = Own(n) /\ looked = extremes[WindowOf[n]]
    OBVIOUS
  <2>2. DOMAIN extremes = {WindowOf[n]} /\ Spans(looked, closed, own) /\ closed \in Seq(Candles)
    BY <2>1 DEF LiquidityInv
  <2>3. own \subseteq 1 .. Len(closed)
    BY <2>1 DEF Own
  <2>4. \A m \in own : closed[m].h \in Int /\ closed[m].l \in Int
    <3>1. \A m \in own : closed[m] \in Candles
      BY <2>2, <2>3
    <3> QED
      BY <3>1 DEF Candles
  <2>5. looked.high = Max({closed[m].h : m \in own})
    <3>1. PICK S : S = {closed[m].h : m \in own}
      OBVIOUS
    <3>2. S \in SUBSET Int /\ looked.high \in S /\ \A y \in S : y <= looked.high
      BY <2>2, <2>4, <3>1 DEF Spans
    <3> QED
      BY <3>1, <3>2, GreatestIs, Zenon
  <2>6. looked.low = Min({closed[m].l : m \in own})
    <3>1. PICK S : S = {closed[m].l : m \in own}
      OBVIOUS
    <3>2. S \in SUBSET Int /\ looked.low \in S /\ \A y \in S : looked.low <= y
      BY <2>2, <2>4, <3>1 DEF Spans
    <3> QED
      BY <3>1, <3>2, LeastIs, Zenon
  <2>7. {looked.highBar, looked.lowBar} \subseteq own
    BY <2>2 DEF Spans
  <2> QED
    BY <2>1, <2>2, <2>5, <2>6, <2>7, Zenon DEF ExtremesAreOfThisWindow, Own
<1> QED
  BY <1>1, LiquidityStarts, LiquidityGoesOn, PTL DEF LiquiditySpec

-----------------------------------------------------------------------------
(* E05.  Merging stops when no two neighbours have to be one; that then no *)
(* two zones have to be, neighbours or not, is a fact about intervals: a   *)
(* third one that begins between two that have to be one has to be one     *)
(* with either of them.  It does stop, since every merge leaves one zone   *)
(* less.                                                                   *)

FvgSpec == FvgInit /\ [][FvgNext]_fvgVars

Zone == [dir : {"UP", "DOWN"}, lo : Nat, hi : Nat, born : Nat, age : Nat, touches : Nat,
         depth : Int, fate : {"FRESH", "TOUCHED", "MITIGATED", "FILLED", "EXPIRED"},
         filled : BOOLEAN]
Prices == [l : Nat, h : Nat, c : Nat]
Zones == {zs \in SUBSET Zone : IsFiniteSet(zs) /\ \A z \in zs : z.lo < z.hi}
NoneMerges(zs) == \A a, b \in zs : a # b => ~MustMerge(a, b)

FvgInv == fvgBars \in Seq(Prices) /\ zones \in Zones /\ NoneMerges(zones)

\* Having to be one, in numbers.
LEMMA MustMergeIff ==
  ASSUME NEW a \in Zone, NEW b \in Zone, a.lo < a.hi, b.lo < b.hi, a.lo <= b.lo
  PROVE  /\ MustMerge(a, b) <=>
              /\ a.dir = b.dir
              /\ \/ b.hi <= a.hi \/ a.lo = b.lo
                 \/ b.lo < a.hi /\ 100 * (a.hi - b.lo) > 70 * (b.hi - a.lo)
         /\ MustMerge(b, a) <=> MustMerge(a, b)
<1>1. a.lo \in Nat /\ a.hi \in Nat /\ b.lo \in Nat /\ b.hi \in Nat
  BY DEF Zone
<1>2. Inside(a, b) \/ Inside(b, a) <=> b.hi <= a.hi \/ a.lo = b.lo
  BY <1>1 DEF Inside
<1>3. CASE b.hi <= a.hi \/ a.lo = b.lo
  BY <1>2, <1>3, Zenon DEF MustMerge
<1>4. CASE ~(b.hi <= a.hi \/ a.lo = b.lo)
  <2>1. /\ a.hi <= b.hi /\ a.lo < b.lo /\ a.hi - b.lo \in Int /\ b.hi - a.lo \in Int
        /\ a.lo \in Int /\ a.hi \in Int /\ b.lo \in Int /\ b.hi \in Int /\ 0 \in Int
    BY <1>1, <1>4
  <2>2. Min({a.hi, b.hi}) = a.hi /\ Max({a.hi, b.hi}) = b.hi
        /\ Min({b.hi, a.hi}) = a.hi /\ Max({b.hi, a.hi}) = b.hi
    BY <2>1, OfTwo, Zenon
  <2>3. Min({a.lo, b.lo}) = a.lo /\ Max({a.lo, b.lo}) = b.lo
        /\ Min({b.lo, a.lo}) = a.lo /\ Max({b.lo, a.lo}) = b.lo
    BY <2>1, OfTwo, Zenon
  <2>4. PICK common : common = Max({0, a.hi - b.lo})
    OBVIOUS
  <2>5. Overlap(a, b) = common /\ Overlap(b, a) = common
    BY <2>2, <2>3, <2>4, Zenon DEF Overlap
  <2>6. MustMerge(a, b) <=> a.dir = b.dir /\ 100 * common > MergePercent * (b.hi - a.lo)
    BY <1>2, <1>4, <2>2, <2>3, <2>5, Zenon DEF MustMerge
  <2>7. MustMerge(b, a) <=> a.dir = b.dir /\ 100 * common > MergePercent * (b.hi - a.lo)
    BY <1>2, <1>4, <2>2, <2>3, <2>5, Zenon DEF MustMerge
  <2>8. 100 * common > 70 * (b.hi - a.lo) <=>
          b.lo < a.hi /\ 100 * (a.hi - b.lo) > 70 * (b.hi - a.lo)
    <3>1. CASE b.lo < a.hi
      <4>1. common = a.hi - b.lo
        <5>1. 0 <= a.hi - b.lo
          BY <1>1, <3>1
        <5> QED
          BY <2>1, <2>4, <5>1, OfTwo, Zenon
      <4> QED
        BY <3>1, <4>1
    <3>2. CASE a.hi <= b.lo
      <4>1. common = 0
        <5>1. a.hi - b.lo <= 0
          BY <1>1, <3>2
        <5> QED
          BY <2>1, <2>4, <5>1, OfTwo, Zenon
      <4> QED
        BY <1>1, <2>1, <3>2, <4>1
    <3> QED
      BY <1>1, <3>1, <3>2
  <2> QED
    BY <1>4, <2>6, <2>7, <2>8, Zenon DEF MergePercent
<1> QED
  BY <1>3, <1>4

\* A zone that begins between two that have to be one has to be one with either.
LEMMA BetweenMerges ==
  ASSUME NEW a \in Zone, NEW o \in Zone, NEW b \in Zone, a.lo < a.hi, o.lo < o.hi, b.lo < b.hi,
         a.lo < o.lo, o.lo < b.lo, a.dir = o.dir, MustMerge(a, b)
  PROVE  MustMerge(a, o) \/ MustMerge(o, b)
<1>1. /\ a.lo \in Nat /\ a.hi \in Nat /\ b.lo \in Nat /\ b.hi \in Nat
      /\ o.lo \in Nat /\ o.hi \in Nat
  BY DEF Zone
<1>2. a.lo < b.lo
  BY <1>1
<1>3. /\ a.dir = b.dir
      /\ b.hi <= a.hi \/ (b.lo < a.hi /\ 100 * (a.hi - b.lo) > 70 * (b.hi - a.lo))
  BY <1>1, <1>2, MustMergeIff
<1>4. CASE o.hi <= a.hi
  BY <1>1, <1>4, MustMergeIff
<1>5. CASE b.hi <= o.hi
  <2>1. o.lo <= b.lo /\ o.dir = b.dir
    BY <1>1, <1>3
  <2> QED
    BY <1>5, <2>1, MustMergeIff
<1>6. CASE a.hi < o.hi /\ o.hi < b.hi
  <2>1. b.lo < a.hi /\ 100 * (a.hi - b.lo) > 70 * (b.hi - a.lo)
    BY <1>1, <1>3, <1>6
  <2>2. o.lo < a.hi /\ 100 * (a.hi - o.lo) > 70 * (o.hi - a.lo)
    BY <1>1, <1>6, <2>1
  <2> QED
    BY <1>1, <2>2, MustMergeIff
<1> QED
  BY <1>1, <1>4, <1>5, <1>6

\* If two zones have to be one, two neighbours have to be: of the pairs that have to
\* be, the one whose lower edges lie nearest has none between them.
LEMMA SomeNeighbours ==
  ASSUME NEW zs \in Zones, ~NoneMerges(zs)
  PROVE  Neighbours(zs) # {}
<1> DEFINE pairs == {p \in zs \X zs : p[1] # p[2] /\ p[1].lo <= p[2].lo /\ MustMerge(p[1], p[2])}
           gaps == {p[2].lo - p[1].lo : p \in pairs}
<1>1. \A z \in zs : z \in Zone /\ z.lo < z.hi /\ z.lo \in Nat
  BY DEF Zones, Zone
<1>2. pairs # {}
  <2>1. PICK a \in zs, b \in zs : a # b /\ MustMerge(a, b)
    BY DEF NoneMerges
  <2>2. CASE a.lo <= b.lo
    <3>1. <<a, b>> \in pairs
      BY <2>1, <2>2
    <3> QED
      BY <3>1
  <2>3. CASE b.lo <= a.lo
    <3>1. MustMerge(b, a)
      BY <1>1, <2>1, <2>3, MustMergeIff
    <3>2. <<b, a>> \in pairs
      BY <2>1, <2>3, <3>1
    <3> QED
      BY <3>2
  <2> QED
    BY <1>1, <2>2, <2>3
<1>3. \A p \in pairs : /\ p[1] \in zs /\ p[2] \in zs /\ p[1] # p[2] /\ p[1].lo <= p[2].lo
                       /\ MustMerge(p[1], p[2])
  OBVIOUS
<1>4. gaps \in SUBSET Nat
  <2>1. \A p \in pairs : p[2].lo - p[1].lo \in Nat
    BY <1>1, <1>3
  <2> HIDE DEF pairs
  <2> QED
    BY <2>1
<1>5. PICK p \in pairs : \A q \in pairs : p[2].lo - p[1].lo <= q[2].lo - q[1].lo
  <2> HIDE DEF pairs
  <2>1. gaps # {}
    BY <1>2
  <2>2. PICK d \in gaps : \A e \in gaps : d <= e
    <3> HIDE DEF gaps
    <3> QED
      BY <1>4, <2>1, LeastNatural, Zenon
  <2> QED
    BY <2>2
<1>6. ASSUME NEW o \in zs, o.dir = p[1].dir, p[1].lo < o.lo, o.lo < p[2].lo
      PROVE  FALSE
  <2>1. MustMerge(p[1], o) \/ MustMerge(o, p[2])
    BY <1>1, <1>3, <1>5, <1>6, BetweenMerges, Zenon
  <2>2. p[1].lo \in Nat /\ p[2].lo \in Nat /\ o.lo \in Nat
    BY <1>1, <1>3, <1>5
  <2>3. <<p[1], o>>[1] = p[1] /\ <<p[1], o>>[2] = o /\ <<o, p[2]>>[1] = o /\ <<o, p[2]>>[2] = p[2]
    OBVIOUS
  <2>4. CASE MustMerge(p[1], o)
    <3>1. p[1] # o /\ p[1].lo <= o.lo
      BY <1>6, <2>2
    <3>2. <<p[1], o>> \in pairs
      BY <1>3, <1>5, <2>4, <3>1
    <3> QED
      BY <1>5, <1>6, <2>2, <2>3, <3>2
  <2>5. CASE MustMerge(o, p[2])
    <3>1. o # p[2] /\ o.lo <= p[2].lo
      BY <1>6, <2>2
    <3>2. <<o, p[2]>> \in pairs
      BY <1>3, <1>5, <2>5, <3>1
    <3> QED
      BY <1>5, <1>6, <2>2, <2>3, <3>2
  <2> QED
    BY <2>1, <2>4, <2>5
<1>7. p \in Neighbours(zs)
  BY <1>3, <1>5, <1>6 DEF Neighbours
<1> QED
  BY <1>7

\* The zones stay zones under a merge, and get fewer as long as neighbours have to be one.
LEMMA MergeLessens ==
  ASSUME NEW zs \in Zones
  PROVE  /\ MergeFirst(zs) \in Zones
         /\ Neighbours(zs) # {} => Cardinality(MergeFirst(zs)) < Cardinality(zs)
         /\ Neighbours(zs) = {} => MergeFirst(zs) = zs
<1>1. CASE Neighbours(zs) = {}
  BY <1>1 DEF MergeFirst
<1>2. CASE Neighbours(zs) # {}
  <2>1. PICK pairs : pairs = Neighbours(zs)
    OBVIOUS
  <2>2. \A q \in pairs : q[1] \in zs /\ q[2] \in zs /\ q[1] # q[2] /\ MustMerge(q[1], q[2])
    BY <2>1 DEF Neighbours
  <2>3. \A z \in zs : z \in Zone /\ z.lo < z.hi /\ z.lo \in Nat /\ z.hi \in Nat
    BY DEF Zones, Zone
  <2>4. PICK lows : lows = {q[1].lo : q \in pairs}
    OBVIOUS
  <2>5. lows \in SUBSET Nat /\ lows # {}
    BY <1>2, <2>1, <2>2, <2>3, <2>4
  <2>6. \E q \in pairs : q[1].lo = Min(lows)
    BY <2>4, <2>5, LeastOf
  <2>7. PICK p : p = CHOOSE q \in pairs : q[1].lo = Min(lows)
    OBVIOUS
  <2>8. p \in pairs
    BY <2>6, <2>7
  <2>9. MergeFirst(zs) = (zs \ {p[1], p[2]}) \cup {Merged(p[1], p[2])}
    BY <1>2, <2>1, <2>4, <2>7, Zenon DEF MergeFirst
  <2>10. PICK a, b, m : a = p[1] /\ b = p[2] /\ m = Merged(a, b)
    OBVIOUS
  <2>11. a \in zs /\ b \in zs /\ a # b
    BY <2>2, <2>8, <2>10
  <2>12. m \in Zone /\ m.lo < m.hi
    <3>1. /\ a \in Zone /\ b \in Zone /\ a.lo < a.hi /\ b.lo < b.hi
          /\ a.lo \in Nat /\ a.hi \in Nat /\ b.lo \in Nat /\ b.hi \in Nat
      BY <2>3, <2>11
    <3>2. PICK lo, hi : lo = Min({a.lo, b.lo}) /\ hi = Max({a.hi, b.hi})
      OBVIOUS
    <3>3. lo \in {a.lo, b.lo} /\ lo <= a.lo /\ lo <= b.lo
      <4>1. a.lo \in Int /\ b.lo \in Int /\ (a.lo <= b.lo \/ b.lo <= a.lo)
        BY <3>1
      <4>2. lo \in {a.lo, b.lo} /\ (lo = a.lo \/ b.lo <= a.lo) /\ (lo = b.lo \/ a.lo <= b.lo)
        BY <3>2, <4>1, OfTwo, Zenon
      <4> QED
        BY <4>1, <4>2
    <3>4. hi \in {a.hi, b.hi} /\ a.hi <= hi /\ b.hi <= hi
      <4>1. a.hi \in Int /\ b.hi \in Int /\ (a.hi <= b.hi \/ b.hi <= a.hi)
        BY <3>1
      <4>2. hi \in {a.hi, b.hi} /\ (hi = a.hi \/ a.hi <= b.hi) /\ (hi = b.hi \/ b.hi <= a.hi)
        BY <3>2, <4>1, OfTwo, Zenon
      <4> QED
        BY <4>1, <4>2
    <3>5. lo \in Nat /\ hi \in Nat /\ lo < hi
      BY <3>1, <3>3, <3>4
    <3>6. \E base \in {a, b} : m = [base EXCEPT !.lo = lo, !.hi = hi]
      BY <2>10, <3>2, Zenon DEF Merged
    <3>7. PICK base \in {a, b} : m = [base EXCEPT !.lo = lo, !.hi = hi]
      BY <3>6
    <3>8. base \in Zone
      BY <3>1
    <3> QED
      BY <3>5, <3>7, <3>8 DEF Zone
  <2>13. IsFiniteSet(zs)
    BY DEF Zones
  <2>14. PICK rest : rest = zs \ {a, b}
    OBVIOUS
  <2>15. rest = (zs \ {a}) \ {b}
    BY <2>14
  <2>16. /\ IsFiniteSet(zs \ {a}) /\ Cardinality(zs \ {a}) = Cardinality(zs) - 1
         /\ b \in zs \ {a} /\ Cardinality(zs) \in Nat
    BY <2>11, <2>13, FS_RemoveElement, FS_CardinalityType
  <2>17. IsFiniteSet(rest) /\ Cardinality(rest) = (Cardinality(zs) - 1) - 1
    BY <2>15, <2>16, FS_RemoveElement
  <2>18. PICK merged : merged = rest \cup {m}
    OBVIOUS
  <2>19. /\ IsFiniteSet(merged)
         /\ Cardinality(merged) = IF m \in rest THEN Cardinality(rest) ELSE Cardinality(rest) + 1
    BY <2>17, <2>18, FS_AddElement
  <2>20. Cardinality(merged) < Cardinality(zs)
    BY <2>16, <2>17, <2>19
  <2>21. MergeFirst(zs) = merged
    BY <2>9, <2>10, <2>14, <2>18, Zenon
  <2>22. merged \in Zones
    BY <2>12, <2>14, <2>18, <2>19 DEF Zones
  <2> QED
    BY <1>2, <2>20, <2>21, <2>22
<1> QED
  BY <1>1, <1>2

\* h holds the zones after each of so many rounds.
RoundsTo(n, zs, h) == h = [i \in 0 .. n |-> IF i = 0 THEN zs ELSE MergeFirst(h[i - 1])]

LEMMA RoundsExist ==
  ASSUME NEW zs, NEW n \in Nat
  PROVE  \E h : RoundsTo(n, zs, h)
<1> DEFINE N == {k \in Nat : \E h : RoundsTo(k, zs, h)}
<1>1. 0 \in N
  <2>1. RoundsTo(0, zs, [i \in 0 .. 0 |-> zs])
    BY DEF RoundsTo
  <2> QED
    BY <2>1
<1>2. ASSUME NEW k \in Nat, k \in N
      PROVE  k + 1 \in N
  <2>1. PICK g : RoundsTo(k, zs, g)
    BY <1>2
  <2>2. PICK h : h = [i \in 0 .. k + 1 |-> IF i = 0 THEN zs ELSE MergeFirst(g[i - 1])]
    OBVIOUS
  <2>3. \A i \in 0 .. k + 1 : h[i] = IF i = 0 THEN zs ELSE MergeFirst(g[i - 1])
    BY <2>2
  <2>4. \A i \in 0 .. k : g[i] = IF i = 0 THEN zs ELSE MergeFirst(g[i - 1])
    BY <2>1 DEF RoundsTo
  <2>5. \A i \in 0 .. k : h[i] = g[i]
    BY <2>3, <2>4
  <2>6. ASSUME NEW i \in 0 .. k + 1
        PROVE  h[i] = IF i = 0 THEN zs ELSE MergeFirst(h[i - 1])
    <3>1. CASE i = 0
      BY <2>3, <3>1
    <3>2. CASE i # 0
      <4>1. i - 1 \in 0 .. k
        BY <3>2
      <4> QED
        BY <2>3, <2>5, <3>2, <4>1
    <3> QED
      BY <3>1, <3>2
  <2>7. h = [i \in 0 .. k + 1 |-> IF i = 0 THEN zs ELSE MergeFirst(h[i - 1])]
    BY <2>2, <2>6
  <2>8. RoundsTo(k + 1, zs, h)
    BY <2>7, Zenon DEF RoundsTo
  <2> QED
    BY <2>8
<1>3. Nat \subseteq N
  <2> HIDE DEF N
  <2> QED
    BY <1>1, <1>2, EveryNatural
<1> QED
  BY <1>3

\* After as many rounds as there are zones no two zones have to be one.
LEMMA MergingEnds ==
  ASSUME NEW zs \in Zones
  PROVE  MergeOverlaps(zs) \in Zones /\ NoneMerges(MergeOverlaps(zs))
<1>1. PICK n : n = Cardinality(zs)
  OBVIOUS
<1>2. n \in Nat
  BY <1>1, FS_CardinalityType DEF Zones
<1>3. PICK h : h = CHOOSE g : RoundsTo(n, zs, g)
  OBVIOUS
<1>4. RoundsTo(n, zs, h)
  BY <1>2, <1>3, RoundsExist
<1>5. MergeOverlaps(zs) = h[n]
  BY <1>1, <1>3, Zenon DEF MergeOverlaps, RoundsTo
<1>6. \A i \in 0 .. n : h[i] = IF i = 0 THEN zs ELSE MergeFirst(h[i - 1])
  BY <1>4 DEF RoundsTo
<1> DEFINE Fewer(i) == /\ h[i] \in Zones
                       /\ Neighbours(h[i]) = {} \/ Cardinality(h[i]) + i <= n
           N == {i \in Nat : i <= n => Fewer(i)}
<1>7. 0 \in N
  BY <1>1, <1>2, <1>6
<1>8. ASSUME NEW i \in Nat, i \in N
      PROVE  i + 1 \in N
  <2> SUFFICES ASSUME i + 1 <= n PROVE Fewer(i + 1)
    OBVIOUS
  <2>1. Fewer(i)
    BY <1>2, <1>8
  <2>2. i + 1 \in 0 .. n /\ i + 1 # 0 /\ (i + 1) - 1 = i
    BY <1>2
  <2>3. PICK before, after : before = h[i] /\ after = h[i + 1]
    OBVIOUS
  <2>4. after = MergeFirst(before)
    BY <1>6, <2>2, <2>3
  <2>5. before \in Zones
    BY <2>1, <2>3
  <2>6. /\ after \in Zones
        /\ Neighbours(before) # {} => Cardinality(after) < Cardinality(before)
        /\ Neighbours(before) = {} => after = before
    BY <2>4, <2>5, MergeLessens, Zenon
  <2>7. Cardinality(before) \in Nat /\ Cardinality(after) \in Nat
    BY <2>5, <2>6, FS_CardinalityType DEF Zones
  <2>8. Neighbours(after) = {} \/ Cardinality(after) + (i + 1) <= n
    <3>1. CASE Neighbours(before) = {}
      BY <2>6, <3>1
    <3>2. CASE Neighbours(before) # {}
      <4>1. Cardinality(before) + i <= n /\ Cardinality(after) < Cardinality(before)
        BY <2>1, <2>3, <2>6, <3>2
      <4> QED
        BY <1>2, <2>7, <4>1
    <3> QED
      BY <3>1, <3>2
  <2> QED
    BY <2>3, <2>6, <2>8
<1>9. Fewer(n)
  <2>1. Nat \subseteq N
    <3> HIDE DEF N
    <3> QED
      BY <1>7, <1>8, EveryNatural
  <2> QED
    BY <1>2, <2>1
<1>10. Neighbours(h[n]) = {}
  <2>1. CASE Cardinality(h[n]) + n <= n
    <3>1. IsFiniteSet(h[n]) /\ Cardinality(h[n]) \in Nat
      BY <1>9, FS_CardinalityType DEF Zones
    <3>2. Cardinality(h[n]) = 0
      BY <1>2, <2>1, <3>1
    <3>3. h[n] = {}
      BY <3>1, <3>2, FS_EmptySet
    <3> QED
      BY <3>3 DEF Neighbours
  <2> QED
    BY <1>9, <2>1
<1>11. NoneMerges(h[n])
  BY <1>9, <1>10, SomeNeighbours
<1> QED
  BY <1>5, <1>9, <1>11, Zenon

\* A bar finds zones with an extent, and changes neither edge of an older one.
LEMMA FoundAreZones ==
  ASSUME NEW w \in Seq(Prices)
  PROVE  Detected(w) \in Zones
<1>1. PICK n \in Nat : n = Len(w)
  OBVIOUS
<1> DEFINE Made(dir, lo, hi) ==
             [dir |-> dir, lo |-> lo, hi |-> hi, born |-> n, age |-> 0, touches |-> 0,
              depth |-> 0, fate |-> "FRESH", filled |-> FALSE]
<1>2. \A dir \in {"UP", "DOWN"}, lo \in Nat, hi \in Nat :
        Made(dir, lo, hi) \in Zone /\ Made(dir, lo, hi).lo = lo /\ Made(dir, lo, hi).hi = hi
  BY DEF Zone
<1>3. CASE n < 3
  <2>1. Detected(w) = {}
    BY <1>1, <1>3 DEF Detected
  <2> QED
    BY <2>1, FS_EmptySet DEF Zones
<1>4. CASE ~(n < 3)
  <2>1. n \in 1 .. Len(w) /\ n - 2 \in 1 .. Len(w)
    BY <1>1, <1>4
  <2>2. w[n] \in Prices /\ w[n - 2] \in Prices
    BY <2>1
  <2>3. w[n].l \in Nat /\ w[n].h \in Nat /\ w[n - 2].l \in Nat /\ w[n - 2].h \in Nat
    BY <2>2 DEF Prices
  <2>4. PICK up, down : /\ up = Made("UP", w[n - 2].h, w[n].l)
                        /\ down = Made("DOWN", w[n].h, w[n - 2].l)
    OBVIOUS
  <2>5. up \in Zone /\ down \in Zone
    BY <1>2, <2>3, <2>4, Zenon
  <2>6. \A z \in Detected(w) : z \in {up, down} /\ z.hi - z.lo >= MinWidth
    BY <1>1, <1>4, <2>4 DEF Detected
  <2>7. \A z \in Zone : z.lo \in Nat /\ z.hi \in Nat
    BY DEF Zone
  <2>8. MinWidth \in Nat /\ MinWidth > 0
    BY FvgBounds
  <2>9. \A z \in Detected(w) : z \in Zone /\ z.lo < z.hi
    BY <2>5, <2>6, <2>7, <2>8
  <2>10. IsFiniteSet({up, down})
    <3>1. IsFiniteSet({up})
      BY FS_Singleton
    <3>2. IsFiniteSet({up} \cup {down})
      BY <3>1, FS_AddElement
    <3>3. {up} \cup {down} = {up, down}
      OBVIOUS
    <3> QED
      BY <3>2, <3>3
  <2>11. Detected(w) \in SUBSET {up, down}
    BY <2>6
  <2>12. IsFiniteSet(Detected(w))
    BY <2>10, <2>11, FS_Subset
  <2> QED
    BY <2>9, <2>12 DEF Zones
<1> QED
  BY <1>3, <1>4

\* A bar changes neither edge of a zone that is there.
LEMMA WorkedAreZones ==
  ASSUME NEW zs \in Zones, NEW b \in Prices
  PROVE  {Worked(z, b) : z \in zs} \in Zones
<1>1. PICK worked : worked = {Worked(z, b) : z \in zs}
  OBVIOUS
<1>2. ASSUME NEW z \in zs
      PROVE  Worked(z, b) \in Zone /\ Worked(z, b).lo < Worked(z, b).hi
  <2>1. z \in Zone /\ z.lo < z.hi
    BY DEF Zones
  <2>2. PICK touch \in BOOLEAN : touch = (b.h >= z.lo /\ b.l <= z.hi)
    OBVIOUS
  <2>3. PICK covered : covered = Overlap(z, [lo |-> b.l, hi |-> b.h])
    OBVIOUS
  <2>4. PICK depth : depth = IF touch THEN (100 * covered) \div (z.hi - z.lo) ELSE 0
    OBVIOUS
  <2>5. PICK fate : fate = IF ~touch THEN z.fate
              ELSE IF depth = 100 THEN "FILLED"
              ELSE IF depth >= MitigatePercent /\ z.fate \in {"FRESH", "TOUCHED"} THEN "MITIGATED"
              ELSE IF z.fate = "FRESH" THEN "TOUCHED" ELSE z.fate
    OBVIOUS
  <2>6. PICK age, touches, deepest, filled, end :
          /\ age = z.age + 1 /\ touches = (IF touch THEN z.touches + 1 ELSE z.touches)
          /\ deepest = Max({z.depth, depth}) /\ filled = (touch /\ depth = 100)
          /\ end = IF z.age + 1 >= MaxAge THEN "EXPIRED" ELSE fate
    OBVIOUS
  <2>7. Worked(z, b) = [z EXCEPT !.age = age, !.touches = touches, !.depth = deepest,
                                 !.filled = filled, !.fate = end]
    BY <2>2, <2>3, <2>4, <2>5, <2>6, ZenonT(60) DEF Worked
  <2>8. /\ z.lo \in Nat /\ z.hi \in Nat /\ z.age \in Nat /\ z.touches \in Nat /\ z.depth \in Int
        /\ z.fate \in {"FRESH", "TOUCHED", "MITIGATED", "FILLED", "EXPIRED"}
        /\ b.l \in Nat /\ b.h \in Nat
    BY <2>1 DEF Zone, Prices
  <2>9. depth \in Int
    <3>1. covered \in Int
      <4>1. z.hi \in Int /\ b.h \in Int /\ z.lo \in Int /\ b.l \in Int
        BY <2>8
      <4>2. (z.hi <= b.h \/ b.h <= z.hi) /\ (z.lo <= b.l \/ b.l <= z.lo)
        BY <4>1
      <4>3. Min({z.hi, b.h}) \in Int /\ Max({z.lo, b.l}) \in Int
        BY <4>1, <4>2, OfTwo, ZenonT(60)
      <4>4. PICK d \in Int : d = Min({z.hi, b.h}) - Max({z.lo, b.l})
        BY <4>3
      <4>5. 0 \in Int /\ (0 <= d \/ d <= 0)
        OBVIOUS
      <4>6. Max({0, d}) \in Int
        BY <4>5, OfTwo, Zenon
      <4>7. covered = Max({0, d})
        BY <2>3, <4>4 DEF Overlap
      <4> QED
        BY <4>6, <4>7
    <3>2. z.hi - z.lo \in Nat /\ z.hi - z.lo > 0
      BY <2>1, <2>8
    <3> QED
      BY <2>4, <3>1, <3>2
  <2>10. deepest \in Int
    <3>1. z.depth <= depth \/ depth <= z.depth
      BY <2>8, <2>9
    <3> QED
      BY <2>6, <2>8, <2>9, <3>1, OfTwo, Zenon
  <2>11. age \in Nat /\ touches \in Nat /\ filled \in BOOLEAN
    BY <2>6, <2>8
  <2>12. end \in {"FRESH", "TOUCHED", "MITIGATED", "FILLED", "EXPIRED"}
    BY <2>5, <2>6, <2>8
  <2> QED
    BY <2>1, <2>7, <2>10, <2>11, <2>12 DEF Zone
<1>3. IsFiniteSet(worked)
  <2>1. [z \in zs |-> Worked(z, b)] \in Surjection(zs, worked)
    BY <1>1 DEF Surjection
  <2> QED
    BY <2>1, FS_Surjection DEF Zones
<1>4. \A z \in worked : z \in Zone /\ z.lo < z.hi
  BY <1>1, <1>2
<1> QED
  BY <1>1, <1>3, <1>4 DEF Zones

LEMMA FvgStarts == FvgInit => FvgInv
BY FS_EmptySet DEF FvgInit, FvgInv, Zones, NoneMerges

LEMMA FvgGoesOn == FvgInv /\ [FvgNext]_fvgVars => FvgInv'
<1> SUFFICES ASSUME FvgInv, [FvgNext]_fvgVars
             PROVE  FvgInv'
  OBVIOUS
<1>1. CASE FvgNext
  <2>1. PICK n \in 1 .. Len(FvgTape) : \E b \in FvgTape[n] : ProcessBar(b)
    BY Zenon, <1>1 DEF FvgNext
  <2> PICK b \in FvgTape[n] : ProcessBar(b)
    BY <2>1
  <2>2. b \in Prices
    BY <2>1, FvgBounds DEF Prices
  <2>3. PICK w, worked : w = Append(fvgBars, b) /\ worked = {Worked(z, b) : z \in zones}
    OBVIOUS
  <2>4. PICK gone : gone = {z \in worked : z.filled \/ z.fate \in {"FILLED", "EXPIRED"}}
    OBVIOUS
  <2>5. fvgBars' = w /\ zones' = MergeOverlaps((worked \ gone) \cup Detected(w))
    BY <2>1, <2>3, <2>4, Zenon DEF ProcessBar
  <2>6. w \in Seq(Prices)
    BY <2>2, <2>3 DEF FvgInv
  <2>7. Detected(w) \in Zones
    BY <2>6, FoundAreZones
  <2>8. worked \in Zones
    BY <2>2, <2>3, WorkedAreZones DEF FvgInv
  <2>9. PICK left : left = (worked \ gone) \cup Detected(w)
    OBVIOUS
  <2>10. left \in Zones
    <3>1. IsFiniteSet(worked \ gone)
      BY <2>8, FS_Difference DEF Zones
    <3>2. IsFiniteSet(left)
      BY <2>7, <2>9, <3>1, FS_Union DEF Zones
    <3> QED
      BY <2>7, <2>8, <2>9, <3>2 DEF Zones
  <2>11. zones' \in Zones /\ NoneMerges(zones')
    BY <2>5, <2>9, <2>10, MergingEnds
  <2> QED
    BY <2>5, <2>6, <2>11 DEF FvgInv
<1>2. CASE UNCHANGED fvgVars
  BY <1>2 DEF FvgInv, fvgVars
<1> QED
  BY <1>1, <1>2

\* After every bar no two active zones of one direction overlap by more than the
\* threshold or contain each other, however many merges that took and whatever the
\* tape was (_merge_overlaps compares neighbours only, engine.py 625-665).
THEOREM ActiveZonesAreApart == FvgSpec => []ZonesAreApart
<1>1. FvgInv => ZonesAreApart
  BY DEF FvgInv, NoneMerges, ZonesAreApart
<1> QED
  BY <1>1, FvgStarts, FvgGoesOn, PTL DEF FvgSpec

-----------------------------------------------------------------------------
(* E08.  A climax or a sign of strength that is latched is a signal since  *)
(* which no range ended or began: when a range ends everything latched is  *)
(* released, and a range is only looked for while nothing is latched.      *)

WyckoffSpec == WyckoffInit /\ [][WyckoffNext]_wyckoffVars

RangeEnds == {"OVER", "RANGE"}
SignalCodes == {"SC", "AR", "ST", "SPRING", "UTAD", "LPSY", "SOS", "LPS"} \cup RangeEnds
SignalRow == [code : SignalCodes, at : Nat, dir : Int]

\* A signal of this code and bar, with no end of the range since.
StandsAt(s, code, at) ==
  \E j \in 1 .. Len(s) : /\ s[j].code = code /\ s[j].at = at
                         /\ \A k \in j .. Len(s) : s[k].code \notin RangeEnds

RestsOn(s, i, first, bars) ==
  \E j \in 1 .. i - 1 : /\ s[j].code = first /\ s[i].at - s[j].at <= bars
                        /\ \A k \in j .. i : s[k].code \notin RangeEnds

OneRange(s, n) ==
  \A i \in 1 .. Len(s) : /\ s[i].code = "AR" => RestsOn(s, i, "SC", RallyBars)
                         /\ s[i].code = "ST" => RestsOn(s, i, "SC", n)
                         /\ s[i].code = "LPS" => RestsOn(s, i, "SOS", n)

Backed(s, l) ==
  /\ Latched(l.sc) => StandsAt(s, "SC", l.sc.bar)
  /\ Latched(l.sos) => StandsAt(s, "SOS", l.sos.bar)

WyckoffInv ==
  /\ wyckoffBars \in Seq(UNION {WyckoffTape[i] : i \in DOMAIN WyckoffTape})
  /\ signals \in Seq(SignalRow) /\ OneRange(signals, Len(wyckoffBars))
  /\ "since" \in DOMAIN range /\ range.since \in Nat
  /\ latches.sc.bar \in Nat /\ latches.sos.bar \in Nat
  /\ Backed(signals, latches)
  /\ range.since = 0 => latches = NoLatches

\* What stands in s stands in c.
StandOn(s, c) ==
  \A code \in SignalCodes, at \in Nat : StandsAt(s, code, at) => StandsAt(c, code, at)

\* What may be said next: a rally, a test or a last point of support only on what
\* still stands.
MaySay(s, r, n) ==
  /\ r.code = "AR" => \E at \in Nat : StandsAt(s, "SC", at) /\ r.at - at <= RallyBars
  /\ r.code = "ST" => \E at \in Nat : StandsAt(s, "SC", at) /\ r.at - at <= n
  /\ r.code = "LPS" => \E at \in Nat : StandsAt(s, "SOS", at) /\ r.at - at <= n

LEMMA OneSignalMore ==
  ASSUME NEW s \in Seq(SignalRow), NEW r \in SignalRow, NEW n \in Nat,
         OneRange(s, n), MaySay(s, r, n)
  PROVE  /\ Append(s, r) \in Seq(SignalRow) /\ OneRange(Append(s, r), n)
         /\ r.code \notin RangeEnds =>
              /\ StandsAt(Append(s, r), r.code, r.at)
              /\ StandOn(s, Append(s, r))
<1>1. PICK c, m : c = Append(s, r) /\ m = Len(s)
  OBVIOUS
<1>2. /\ m \in Nat /\ c \in Seq(SignalRow) /\ Len(c) = m + 1 /\ c[m + 1] = r
      /\ \A i \in 1 .. m : c[i] = s[i]
  BY <1>1
<1>3. ASSUME NEW first \in {"SC", "SOS"}, NEW bars, NEW at \in Nat, StandsAt(s, first, at),
             r.at - at <= bars, r.code \notin RangeEnds
      PROVE  RestsOn(c, m + 1, first, bars)
  <2>1. PICK j \in 1 .. m : /\ s[j].code = first /\ s[j].at = at
                            /\ \A k \in j .. m : s[k].code \notin RangeEnds
    BY <1>1, <1>3 DEF StandsAt
  <2>2. j \in 1 .. (m + 1) - 1
    BY <1>2
  <2>3. c[j].code = first /\ c[m + 1].at - c[j].at <= bars
    BY <1>2, <1>3, <2>1
  <2>4. ASSUME NEW k \in j .. m + 1
        PROVE  c[k].code \notin RangeEnds
    <3>1. CASE k = m + 1
      BY <1>2, <1>3, <3>1
    <3>2. CASE k # m + 1
      <4>1. k \in j .. m /\ k \in 1 .. m
        BY <1>2, <3>2
      <4> QED
        BY <1>2, <2>1, <4>1
    <3> QED
      BY <3>1, <3>2
  <2> QED
    BY <2>2, <2>3, <2>4 DEF RestsOn
<1>4. ASSUME NEW i \in 1 .. m, NEW first, NEW bars, RestsOn(s, i, first, bars)
      PROVE  RestsOn(c, i, first, bars)
  <2>1. PICK j \in 1 .. i - 1 : /\ s[j].code = first /\ s[i].at - s[j].at <= bars
                                /\ \A k \in j .. i : s[k].code \notin RangeEnds
    BY <1>4 DEF RestsOn
  <2>2. c[j] = s[j] /\ c[i] = s[i] /\ \A k \in j .. i : c[k] = s[k]
    BY <1>2
  <2> QED
    BY <2>1, <2>2 DEF RestsOn
<1>5. OneRange(c, n)
  <2> SUFFICES ASSUME NEW i \in 1 .. m + 1
               PROVE  /\ c[i].code = "AR" => RestsOn(c, i, "SC", RallyBars)
                      /\ c[i].code = "ST" => RestsOn(c, i, "SC", n)
                      /\ c[i].code = "LPS" => RestsOn(c, i, "SOS", n)
    BY <1>2 DEF OneRange
  <2>1. CASE i = m + 1
    BY <1>2, <1>3, <2>1 DEF MaySay, RangeEnds
  <2>2. CASE i # m + 1
    <3>1. i \in 1 .. m /\ c[i] = s[i]
      BY <1>2, <2>2
    <3> QED
      BY <1>1, <1>4, <3>1 DEF OneRange
  <2> QED
    BY <2>1, <2>2
<1>6. ASSUME r.code \notin RangeEnds
      PROVE  StandsAt(c, r.code, r.at)
  <2>1. m + 1 \in 1 .. m + 1 /\ \A k \in m + 1 .. m + 1 : k = m + 1
    BY <1>2
  <2> QED
    BY <1>2, <1>6, <2>1 DEF StandsAt
<1>7. ASSUME r.code \notin RangeEnds, NEW code \in SignalCodes, NEW at \in Nat, StandsAt(s, code, at)
      PROVE  StandsAt(c, code, at)
  <2>1. PICK j \in 1 .. m : /\ s[j].code = code /\ s[j].at = at
                            /\ \A k \in j .. m : s[k].code \notin RangeEnds
    BY <1>1, <1>7 DEF StandsAt
  <2>2. j \in 1 .. m + 1 /\ c[j].code = code /\ c[j].at = at
    BY <1>2, <2>1
  <2>3. ASSUME NEW k \in j .. m + 1
        PROVE  c[k].code \notin RangeEnds
    <3>1. CASE k = m + 1
      BY <1>2, <1>7, <3>1
    <3>2. CASE k # m + 1
      <4>1. k \in j .. m /\ k \in 1 .. m
        BY <1>2, <3>2
      <4> QED
        BY <1>2, <2>1, <4>1
    <3> QED
      BY <3>1, <3>2
  <2> QED
    BY <1>2, <2>2, <2>3 DEF StandsAt
<1> QED
  BY <1>1, <1>2, <1>5, <1>6, <1>7, Zenon DEF StandOn, SignalCodes

\* Concatenation under a name of its own.
Then(s, t) == s \o t

LEMMA ThenIsASequence ==
  ASSUME NEW x \in Seq(SignalRow), NEW y \in Seq(SignalRow)
  PROVE  Then(x, y) \in Seq(SignalRow)
BY ConcatProperties, SMT DEF Then

LEMMA ThenAssociates ==
  ASSUME NEW x \in Seq(SignalRow), NEW y \in Seq(SignalRow), NEW z \in Seq(SignalRow)
  PROVE  Then(x, Then(y, z)) = Then(Then(x, y), z)
BY ConcatAssociative, SMT DEF Then

LEMMA ThenOneMore ==
  ASSUME NEW s \in Seq(SignalRow), NEW r \in SignalRow
  PROVE  <<r>> \in Seq(SignalRow) /\ Then(s, <<r>>) = Append(s, r)
BY AppendIsConcat, SMT DEF Then

LEMMA ThenNothing ==
  ASSUME NEW s \in Seq(SignalRow)
  PROVE  <<>> \in Seq(SignalRow) /\ Then(s, <<>>) = s
BY ConcatEmptySeq, SMT DEF Then

LEMMA SignalSaid ==
  ASSUME NEW s \in Seq(SignalRow), NEW on \in BOOLEAN, NEW name \in SignalCodes, NEW n \in Nat
  PROVE  /\ Signal(on, name, n) \in Seq(SignalRow)
         /\ on => Then(s, Signal(on, name, n)) =
                    Append(s, [code |-> name, at |-> n, dir |-> DirectionOfSignal(name)])
         /\ ~on => Then(s, Signal(on, name, n)) = s
<1>1. PICK row : row = [code |-> name, at |-> n, dir |-> DirectionOfSignal(name)]
  OBVIOUS
<1>2. row \in SignalRow
  BY <1>1 DEF SignalRow, DirectionOfSignal
<1>3. CASE on
  <2>1. Signal(on, name, n) = <<row>>
    BY <1>1, <1>3 DEF Signal
  <2>2. <<row>> \in Seq(SignalRow) /\ Then(s, <<row>>) = Append(s, row)
    BY <1>2, ThenOneMore, Zenon
  <2> QED
    BY <1>1, <1>3, <2>1, <2>2, Zenon
<1>4. CASE ~on
  <2>1. Signal(on, name, n) = <<>>
    BY <1>4 DEF Signal
  <2>2. <<>> \in Seq(SignalRow) /\ Then(s, <<>>) = s
    BY ThenNothing, Zenon
  <2> QED
    BY <1>4, <2>1, <2>2, Zenon
<1> QED
  BY <1>3, <1>4

\* A signal that may be said, said or not, leaves what stands standing.
LEMMA SignalInRange ==
  ASSUME NEW s \in Seq(SignalRow), NEW on \in BOOLEAN, NEW name \in SignalCodes \ RangeEnds,
         NEW n \in Nat, OneRange(s, n),
         on /\ name = "AR" => \E at \in Nat : StandsAt(s, "SC", at) /\ n - at <= RallyBars,
         on /\ name = "ST" => \E at \in Nat : StandsAt(s, "SC", at) /\ n - at <= n,
         on /\ name = "LPS" => \E at \in Nat : StandsAt(s, "SOS", at) /\ n - at <= n,
         NEW c, c = Then(s, Signal(on, name, n))
  PROVE  /\ c \in Seq(SignalRow) /\ OneRange(c, n)
         /\ on => StandsAt(c, name, n)
         /\ StandOn(s, c)
<1>0. name \in SignalCodes
  OBVIOUS
<1>1. CASE on
  <2>1. PICK r : r = [code |-> name, at |-> n, dir |-> DirectionOfSignal(name)]
    OBVIOUS
  <2>2. r \in SignalRow /\ r.code = name /\ r.at = n
    BY <2>1 DEF SignalRow, DirectionOfSignal
  <2>3. c = Append(s, r)
    <3>1. Then(s, Signal(on, name, n)) =
            Append(s, [code |-> name, at |-> n, dir |-> DirectionOfSignal(name)])
      BY <1>0, <1>1, SignalSaid, ZenonT(60)
    <3> QED
      BY <2>1, <3>1, Zenon
  <2>4. MaySay(s, r, n)
    BY <1>1, <2>2 DEF MaySay
  <2>5. r.code \notin RangeEnds
    BY <2>2
  <2> QED
    BY <2>2, <2>3, <2>4, <2>5, OneSignalMore, Zenon
<1>2. CASE ~on
  <2>1. c = s
    BY <1>0, <1>2, SignalSaid, Zenon
  <2>2. StandOn(s, s)
    BY DEF StandOn, SignalCodes
  <2> QED
    BY <1>2, <2>1, <2>2, Zenon
<1> QED
  BY <1>1, <1>2

\* The events of one bar inside a range.
LEMMA ActsInRange ==
  ASSUME NEW s \in Seq(SignalRow), NEW n \in Nat, OneRange(s, n), NEW l,
         l.sc.bar \in Nat, l.sos.bar \in Nat, Backed(s, l), NEW b, NEW w, NEW r
  PROVE  LET looked == ActsOf(b, w, r, l, n)
             c == Then(s, looked.events)
         IN  /\ c \in Seq(SignalRow) /\ OneRange(c, n)
             /\ looked.latches.sc.bar \in Nat /\ looked.latches.sos.bar \in Nat
             /\ Backed(c, looked.latches)
<1>1. PICK climax, sc : climax = IsClimax(b, w)
                        /\ sc = IF climax THEN [bar |-> n, price |-> b.l] ELSE l.sc
  OBVIOUS
<1>2. PICK rally, test : /\ rally = (~climax /\ Latched(sc) /\ IsRally(b, sc, n))
                         /\ test = (Latched(sc) /\ IsTest(b, sc))
  OBVIOUS
<1>3. PICK st : st = IF test THEN [bar |-> n, price |-> b.l] ELSE l.st
  OBVIOUS
<1>4. PICK spring, strength, support :
        /\ spring = IsSpring(b, r, st, n) /\ strength = IsStrength(b, r, n)
        /\ support = (~strength /\ Latched(l.sos) /\ IsSupport(b, r, l.sos))
  OBVIOUS
<1>5. PICK up, supply : up = IsUpthrust(b, r) /\ supply = IsLastSupply(b, r)
  OBVIOUS
<1>6. PICK looked : looked = ActsOf(b, w, r, l, n)
  OBVIOUS
<1>7. PICK sos : sos = IF strength THEN [bar |-> n, price |-> b.h] ELSE l.sos
  OBVIOUS
<1>b. /\ climax \in BOOLEAN /\ rally \in BOOLEAN /\ test \in BOOLEAN /\ spring \in BOOLEAN
      /\ strength \in BOOLEAN /\ support \in BOOLEAN /\ up \in BOOLEAN /\ supply \in BOOLEAN
  <2>1. climax \in BOOLEAN
    BY <1>1 DEF IsClimax
  <2>2. strength \in BOOLEAN
    BY <1>4 DEF IsStrength
  <2>3. spring \in BOOLEAN
    BY <1>4 DEF IsSpring
  <2>4. up \in BOOLEAN /\ supply \in BOOLEAN
    BY <1>5 DEF IsUpthrust, IsLastSupply
  <2>5. rally \in BOOLEAN /\ test \in BOOLEAN
    BY <1>2
  <2>6. support \in BOOLEAN
    BY <1>4
  <2> QED
    BY <2>1, <2>2, <2>3, <2>4, <2>5, <2>6
<1>r. \A name \in {"SC", "AR", "ST", "SPRING", "UTAD", "LPSY", "SOS", "LPS"} :
        name \in SignalCodes \ RangeEnds
  BY Zenon DEF RangeEnds, SignalCodes
<1>8. /\ looked.latches.sc = sc /\ looked.latches.sos = sos
      /\ looked.events =
           Then(Then(Then(Then(Then(Then(Then(Signal(climax, "SC", n), Signal(rally, "AR", n)),
             Signal(test, "ST", n)), Signal(spring, "SPRING", n)), Signal(up, "UTAD", n)),
             Signal(supply, "LPSY", n)), Signal(strength, "SOS", n)), Signal(support, "LPS", n))
  <2>1. \A x, y, z : [latches |-> x, reached |-> y, events |-> z].latches = x
                     /\ [latches |-> x, reached |-> y, events |-> z].events = z
    OBVIOUS
  <2>2. \A x, y, z : [sc |-> x, st |-> y, sos |-> z].sc = x /\ [sc |-> x, st |-> y, sos |-> z].sos = z
    OBVIOUS
  <2> QED
    BY <1>1, <1>2, <1>3, <1>4, <1>5, <1>6, <1>7, <2>1, <2>2, Zenon DEF ActsOf, Then
<1>9. PICK s1, s2, s3, s4 :
        /\ s1 = Then(s, Signal(climax, "SC", n)) /\ s2 = Then(s1, Signal(rally, "AR", n))
        /\ s3 = Then(s2, Signal(test, "ST", n)) /\ s4 = Then(s3, Signal(spring, "SPRING", n))
  OBVIOUS
<1>10. PICK s5, s6, s7, s8 :
        /\ s5 = Then(s4, Signal(up, "UTAD", n)) /\ s6 = Then(s5, Signal(supply, "LPSY", n))
        /\ s7 = Then(s6, Signal(strength, "SOS", n)) /\ s8 = Then(s7, Signal(support, "LPS", n))
  OBVIOUS
<1>11. Then(s, looked.events) = s8
  <2>1. /\ Signal(climax, "SC", n) \in Seq(SignalRow) /\ Signal(rally, "AR", n) \in Seq(SignalRow)
        /\ Signal(test, "ST", n) \in Seq(SignalRow) /\ Signal(spring, "SPRING", n) \in Seq(SignalRow)
        /\ Signal(up, "UTAD", n) \in Seq(SignalRow) /\ Signal(supply, "LPSY", n) \in Seq(SignalRow)
        /\ Signal(strength, "SOS", n) \in Seq(SignalRow) /\ Signal(support, "LPS", n) \in Seq(SignalRow)
    <3>1. \A on \in BOOLEAN, name \in SignalCodes : Signal(on, name, n) \in Seq(SignalRow)
      BY SignalSaid, Zenon
    <3>2. /\ "SC" \in SignalCodes /\ "AR" \in SignalCodes /\ "ST" \in SignalCodes /\ "SPRING" \in SignalCodes
          /\ "UTAD" \in SignalCodes /\ "LPSY" \in SignalCodes /\ "SOS" \in SignalCodes /\ "LPS" \in SignalCodes
      BY DEF SignalCodes
    <3> QED
      BY <1>b, <3>1, <3>2, Zenon
  <2>2. PICK e2, e3, e4, e :
          /\ e2 = Then(Signal(climax, "SC", n), Signal(rally, "AR", n))
          /\ e3 = Then(e2, Signal(test, "ST", n)) /\ e4 = Then(e3, Signal(spring, "SPRING", n))
          /\ e = Then(e4, Signal(up, "UTAD", n))
    OBVIOUS
  <2>e2. e2 \in Seq(SignalRow) /\ Then(s, e2) = s2
    BY <1>9, <2>1, <2>2, ThenIsASequence, ThenAssociates
  <2>e3. e3 \in Seq(SignalRow) /\ Then(s, e3) = s3
    BY <1>9, <2>1, <2>2, <2>e2, ThenIsASequence, ThenAssociates
  <2>e4. e4 \in Seq(SignalRow) /\ Then(s, e4) = s4
    BY <1>9, <2>1, <2>2, <2>e3, ThenIsASequence, ThenAssociates
  <2>3. e \in Seq(SignalRow) /\ Then(s, e) = s5
    BY <1>10, <2>1, <2>2, <2>e4, ThenIsASequence, ThenAssociates
  <2>4. PICK e7 : e7 = Then(Then(e, Signal(supply, "LPSY", n)), Signal(strength, "SOS", n))
    OBVIOUS
  <2>5. Then(e, Signal(supply, "LPSY", n)) \in Seq(SignalRow)
        /\ Then(s, Then(e, Signal(supply, "LPSY", n))) = s6
    BY <1>10, <2>1, <2>3, ThenIsASequence, ThenAssociates
  <2>6. e7 \in Seq(SignalRow) /\ Then(s, e7) = s7
    BY <1>10, <2>1, <2>4, <2>5, ThenIsASequence, ThenAssociates
  <2>7. Then(s, Then(e7, Signal(support, "LPS", n))) = s8
    BY <1>10, <2>1, <2>6, ThenAssociates
  <2> QED
    BY <1>8, <2>2, <2>4, <2>7, Zenon
<1>12. Latched(l.sc) => StandsAt(s, "SC", l.sc.bar)
  BY DEF Backed
<1>13. Latched(l.sos) => StandsAt(s, "SOS", l.sos.bar)
  BY DEF Backed
<1>14. s1 \in Seq(SignalRow) /\ OneRange(s1, n) /\ (climax => StandsAt(s1, "SC", n)) /\ StandOn(s, s1)
  BY <1>9, <1>b, <1>r, SignalInRange, Zenon
<1>15. sc.bar \in Nat /\ (Latched(sc) => StandsAt(s1, "SC", sc.bar))
  <2>1. CASE climax
    BY <1>1, <1>14, <2>1
  <2>2. CASE ~climax
    BY <1>1, <1>12, <1>14, <2>2 DEF StandOn, SignalCodes
  <2> QED
    BY <2>1, <2>2
<1>16. s2 \in Seq(SignalRow) /\ OneRange(s2, n) /\ StandOn(s1, s2)
  <2>1. rally => StandsAt(s1, "SC", sc.bar) /\ n - sc.bar <= RallyBars
    <3>1. rally => Latched(sc) /\ IsRally(b, sc, n)
      BY <1>2
    <3>2. IsRally(b, sc, n) => n - sc.bar <= RallyBars
      BY <1>15, WyckoffBounds DEF IsRally
    <3> QED
      BY <1>15, <3>1, <3>2
  <2> QED
    BY <1>9, <1>14, <1>15, <2>1, <1>b, <1>r, SignalInRange, Zenon
<1>17. StandsAt(s2, "SC", sc.bar) \/ ~Latched(sc)
  BY <1>15, <1>16 DEF StandOn, SignalCodes
<1>18. s3 \in Seq(SignalRow) /\ OneRange(s3, n) /\ StandOn(s2, s3)
  <2>1. n - sc.bar <= n
    BY <1>15
  <2>2. test => StandsAt(s2, "SC", sc.bar)
    BY <1>2, <1>17
  <2> QED
    BY <1>9, <1>15, <1>16, <2>1, <2>2, <1>b, <1>r, SignalInRange, Zenon
<1>19. s4 \in Seq(SignalRow) /\ OneRange(s4, n) /\ StandOn(s3, s4)
  BY <1>9, <1>18, <1>b, <1>r, SignalInRange, Zenon
<1>20. s5 \in Seq(SignalRow) /\ OneRange(s5, n) /\ StandOn(s4, s5)
  BY <1>10, <1>19, <1>b, <1>r, SignalInRange, Zenon
<1>21. s6 \in Seq(SignalRow) /\ OneRange(s6, n) /\ StandOn(s5, s6)
  BY <1>10, <1>20, <1>b, <1>r, SignalInRange, Zenon
<1>22. s7 \in Seq(SignalRow) /\ OneRange(s7, n) /\ StandOn(s6, s7) /\ (strength => StandsAt(s7, "SOS", n))
  BY <1>10, <1>21, <1>b, <1>r, SignalInRange, Zenon
<1>23. StandOn(s, s7) /\ StandOn(s2, s7)
  BY <1>14, <1>16, <1>18, <1>19, <1>20, <1>21, <1>22, Zenon DEF StandOn, SignalCodes
<1>24. s8 \in Seq(SignalRow) /\ OneRange(s8, n) /\ StandOn(s7, s8)
  <2>1. n - l.sos.bar <= n
    OBVIOUS
  <2>2. support => StandsAt(s7, "SOS", l.sos.bar)
    BY <1>4, <1>13, <1>23 DEF StandOn, SignalCodes
  <2> QED
    BY <1>10, <1>22, <2>1, <2>2, <1>b, <1>r, SignalInRange, Zenon
<1>25. sos.bar \in Nat /\ (Latched(sos) => StandsAt(s8, "SOS", sos.bar))
  <2>1. CASE strength
    BY <1>7, <1>22, <1>24, <2>1 DEF StandOn, SignalCodes
  <2>2. CASE ~strength
    BY <1>7, <1>13, <1>23, <1>24, <2>2 DEF StandOn, SignalCodes
  <2> QED
    BY <2>1, <2>2
<1>26. Latched(sc) => StandsAt(s8, "SC", sc.bar)
  BY <1>15, <1>17, <1>23, <1>24 DEF StandOn, SignalCodes
<1>27. Backed(s8, looked.latches)
  BY <1>8, <1>25, <1>26 DEF Backed
<1> QED
  BY <1>6, <1>8, <1>11, <1>15, <1>24, <1>25, <1>27

\* What was in one range stays so as bars go by.
LEMMA OneRangeLater ==
  ASSUME NEW s \in Seq(SignalRow), NEW m \in Nat, NEW n \in Nat, m <= n, OneRange(s, m)
  PROVE  OneRange(s, n)
<1>1. ASSUME NEW i \in 1 .. Len(s), NEW first, RestsOn(s, i, first, m)
      PROVE  RestsOn(s, i, first, n)
  <2>1. PICK j \in 1 .. i - 1 : /\ s[j].code = first /\ s[i].at - s[j].at <= m
                                /\ \A k \in j .. i : s[k].code \notin RangeEnds
    BY <1>1 DEF RestsOn
  <2>2. s[i].at \in Nat /\ s[j].at \in Nat
    <3>1. j \in 1 .. Len(s)
      BY <2>1
    <3>2. s[i] \in SignalRow /\ s[j] \in SignalRow
      BY <3>1
    <3> QED
      BY <3>2 DEF SignalRow
  <2>3. s[i].at - s[j].at <= n
    BY <2>1, <2>2
  <2> QED
    BY <2>1, <2>3 DEF RestsOn
<1> QED
  BY <1>1 DEF OneRange

\* The end of a range said, or its beginning, rests on nothing.
LEMMA EndSaid ==
  ASSUME NEW s \in Seq(SignalRow), NEW on \in BOOLEAN, NEW name \in RangeEnds, NEW n \in Nat,
         OneRange(s, n), NEW c, c = Then(s, Signal(on, name, n))
  PROVE  c \in Seq(SignalRow) /\ OneRange(c, n) /\ (~on => c = s)
<1>1. name \in SignalCodes
  BY DEF SignalCodes
<1>2. CASE on
  <2>1. PICK r : r = [code |-> name, at |-> n, dir |-> DirectionOfSignal(name)]
    OBVIOUS
  <2>2. r \in SignalRow /\ r.code = name /\ r.at = n
    BY <1>1, <2>1 DEF SignalRow, DirectionOfSignal
  <2>3. c = Append(s, r)
    <3>1. Then(s, Signal(on, name, n)) =
            Append(s, [code |-> name, at |-> n, dir |-> DirectionOfSignal(name)])
      BY <1>1, <1>2, SignalSaid, ZenonT(60)
    <3> QED
      BY <2>1, <3>1, Zenon
  <2>4. MaySay(s, r, n)
    BY <2>2 DEF MaySay, RangeEnds
  <2> QED
    BY <1>2, <2>2, <2>3, <2>4, OneSignalMore, Zenon
<1>3. CASE ~on
  BY <1>1, <1>3, SignalSaid, Zenon
<1> QED
  BY <1>2, <1>3

LEMMA NothingIsLatched ==
  /\ NoLatches.sc.bar \in Nat /\ NoLatches.sos.bar \in Nat
  /\ \A s : Backed(s, NoLatches)
BY DEF NoLatches, NotYet, Backed, Latched

LEMMA WyckoffStarts == WyckoffInit => WyckoffInv
<1> SUFFICES ASSUME WyckoffInit
             PROVE  WyckoffInv
  OBVIOUS
<1>1. wyckoffBars = <<>> /\ range = NoRange /\ latches = NoLatches /\ signals = <<>>
  BY DEF WyckoffInit
<1>2. OneRange(signals, Len(wyckoffBars)) /\ signals \in Seq(SignalRow)
  BY <1>1 DEF OneRange
<1>3. "since" \in DOMAIN range /\ range.since \in Nat
  BY <1>1 DEF NoRange
<1> QED
  BY <1>1, <1>2, <1>3, NothingIsLatched DEF WyckoffInv

LEMMA WyckoffBarKeeps ==
  ASSUME NEW b, WyckoffInv, WyckoffBarCloses(b),
         wyckoffBars' \in Seq(UNION {WyckoffTape[i] : i \in DOMAIN WyckoffTape}),
         Len(wyckoffBars') = Len(wyckoffBars) + 1
  PROVE  WyckoffInv'
<1>1. PICK n : n = Len(wyckoffBars) + 1
  OBVIOUS
<1>2. n \in Nat /\ Len(wyckoffBars) \in Nat /\ n > 0 /\ Len(wyckoffBars) <= n
  BY <1>1 DEF WyckoffInv
<1>3. OneRange(signals, n)
  BY <1>2, OneRangeLater DEF WyckoffInv
<1>4. CASE ~Usable(b)
  <2>1. UNCHANGED <<range, latches, signals>>
    BY <1>4, Zenon DEF WyckoffBarCloses
  <2> QED
    BY <1>1, <1>3, <2>1 DEF WyckoffInv, Backed, StandsAt
<1>5. CASE Usable(b)
  <2>1. PICK w, open, found :
          /\ w = UsableBars(Append(wyckoffBars, b)) /\ open = (range.since > 0)
          /\ found = IF open THEN {} ELSE RangeOf(w)
    OBVIOUS
  <2>2. PICK r0 : r0 = IF open THEN [range EXCEPT !.age = @ + 1]
                       ELSE IF found # {} THEN [(CHOOSE r \in found : TRUE) EXCEPT !.since = n]
                       ELSE NoRange
    OBVIOUS
  <2>3. PICK under, old :
          /\ under = (Latched(latches.sc) /\ b.c < latches.sc.price - 5)
          /\ old = (r0.age > MaxRangeAge)
    OBVIOUS
  <2>4. PICK r1, l1 : /\ r1 = IF under \/ old THEN NoRange ELSE r0
                      /\ l1 = IF under \/ old THEN Released(latches) ELSE latches
    OBVIOUS
  <2>5. PICK looked : looked = IF r1.since > 0 THEN ActsOf(b, w, r1, l1, n)
                           ELSE [latches |-> l1, reached |-> {}, events |-> <<>>]
    OBVIOUS
  <2>6. PICK c1, c2, c3 : /\ c1 = Then(signals, Signal(found # {}, "RANGE", n))
                          /\ c2 = Then(c1, Signal(under, "OVER", n))
                          /\ c3 = Then(c2, Signal(old, "OVER", n))
    OBVIOUS
  <2>7. range' = r1 /\ latches' = looked.latches /\ signals' = Then(c3, looked.events)
    BY <1>1, <1>5, <2>1, <2>2, <2>3, <2>4, <2>5, <2>6, Zenon DEF WyckoffBarCloses, Then
  <2>8. (found # {}) \in BOOLEAN /\ under \in BOOLEAN /\ old \in BOOLEAN
    <3>1. (found # {}) \in BOOLEAN
      OBVIOUS
    <3>2. under \in BOOLEAN
      BY <2>3
    <3>3. old \in BOOLEAN
      BY <2>3
    <3> QED
      BY <3>1, <3>2, <3>3
  <2>9. c1 \in Seq(SignalRow) /\ OneRange(c1, n) /\ (found = {} => c1 = signals)
    <3>1. "RANGE" \in RangeEnds /\ signals \in Seq(SignalRow)
      BY DEF RangeEnds, WyckoffInv
    <3> QED
      <4>1. PICK on \in BOOLEAN : on = (found # {})
        OBVIOUS
      <4>2. c1 = Then(signals, Signal(on, "RANGE", n))
        BY <2>6, <4>1, Zenon
      <4>3. c1 \in Seq(SignalRow) /\ OneRange(c1, n) /\ (~on => c1 = signals)
        BY <1>2, <1>3, <3>1, <4>2, EndSaid
      <4> QED
        BY <4>1, <4>3
  <2>10. "OVER" \in RangeEnds
    BY DEF RangeEnds
  <2>11. c2 \in Seq(SignalRow) /\ OneRange(c2, n) /\ (~under => c2 = c1)
    BY <1>2, <2>6, <2>8, <2>9, <2>10, EndSaid
  <2>12. c3 \in Seq(SignalRow) /\ OneRange(c3, n) /\ (~old => c3 = c2)
    BY <1>2, <2>6, <2>8, <2>10, <2>11, EndSaid
  <2>13. under \/ old \/ ~open => l1 = NoLatches
    <3>1. ~open => latches = NoLatches
      <4>1. open <=> range.since > 0
        BY <2>1, Zenon
      <4>2. range.since \in Nat /\ (range.since = 0 => latches = NoLatches)
        BY DEF WyckoffInv
      <4> QED
        BY <4>1, <4>2
    <3> QED
      BY <2>4, <3>1 DEF Released
  <2>14. l1.sc.bar \in Nat /\ l1.sos.bar \in Nat /\ Backed(c3, l1)
    <3>1. CASE under \/ old \/ ~open
      BY <2>13, <3>1, NothingIsLatched
    <3>2. CASE ~(under \/ old \/ ~open)
      <4>1. found = {}
        BY <2>1, <3>2
      <4>2. c3 = signals /\ l1 = latches
        BY <2>4, <2>9, <2>11, <2>12, <3>2, <4>1
      <4> QED
        BY <4>2 DEF WyckoffInv
    <3> QED
      BY <3>1, <3>2
  <2>15. "since" \in DOMAIN r0 /\ r0.since \in Nat
    <3>1. CASE open
      BY <2>2, <3>1 DEF WyckoffInv
    <3>2. CASE ~open /\ found # {}
      <4>1. PICK r : r = CHOOSE x \in found : TRUE
        OBVIOUS
      <4>2. r \in RangeOf(w)
        BY <2>1, <3>2, <4>1
      <4>3. "since" \in DOMAIN r
        BY <4>2 DEF RangeOf
      <4>4. r0 = [r EXCEPT !.since = n]
        BY <2>2, <3>2, <4>1
      <4> QED
        BY <1>2, <4>3, <4>4
    <3>3. CASE ~open /\ found = {}
      BY <2>2, <3>3 DEF NoRange
    <3> QED
      BY <3>1, <3>2, <3>3
  <2>16. "since" \in DOMAIN r1 /\ r1.since \in Nat
    BY <2>4, <2>15 DEF NoRange
  <2>17. r1.since = 0 => l1 = NoLatches
    <3> SUFFICES ASSUME r1.since = 0, ~(under \/ old \/ ~open)
                 PROVE  FALSE
      BY <2>13
    <3>1. r0 = [range EXCEPT !.age = @ + 1] /\ r1 = r0
      BY <2>2, <2>4
    <3>2. r0.since = range.since
      BY <3>1 DEF WyckoffInv
    <3>3. range.since > 0
      BY <2>1, Zenon
    <3> QED
      BY <3>1, <3>2, <3>3
  <2>18. /\ signals' \in Seq(SignalRow) /\ OneRange(signals', n)
         /\ latches'.sc.bar \in Nat /\ latches'.sos.bar \in Nat /\ Backed(signals', latches')
         /\ range'.since = 0 => latches' = NoLatches
    <3>1. CASE r1.since > 0
      <4>1. looked = ActsOf(b, w, r1, l1, n)
        BY <2>5, <3>1
      <4>2. /\ signals' \in Seq(SignalRow) /\ OneRange(signals', n)
            /\ latches'.sc.bar \in Nat /\ latches'.sos.bar \in Nat /\ Backed(signals', latches')
        BY <1>2, <2>7, <2>12, <2>14, <4>1, ActsInRange, Zenon
      <4>3. range'.since # 0
        BY <2>7, <2>16, <3>1
      <4> QED
        BY <4>2, <4>3, Zenon
    <3>2. CASE r1.since = 0
      <4>1. looked.latches = l1 /\ looked.events = <<>>
        BY <2>5, <3>2
      <4>2. signals' = c3
        BY <2>7, <2>12, <4>1, ThenNothing, Zenon
      <4>3. latches' = l1
        BY <2>7, <4>1, Zenon
      <4> QED
        BY <2>12, <2>14, <2>17, <3>2, <4>2, <4>3, Zenon
    <3> QED
      BY <2>16, <3>1, <3>2
  <2> QED
    BY <1>1, <2>7, <2>16, <2>18, Zenon DEF WyckoffInv
<1> QED
  BY <1>4, <1>5

LEMMA WyckoffGoesOn == WyckoffInv /\ [WyckoffNext]_wyckoffVars => WyckoffInv'
<1> SUFFICES ASSUME WyckoffInv, [WyckoffNext]_wyckoffVars
             PROVE  WyckoffInv'
  OBVIOUS
<1>1. CASE WyckoffNext
  <2>1. PICK i \in DOMAIN WyckoffTape : \E b \in WyckoffTape[i] : WyckoffBarCloses(b)
    BY Zenon, <1>1 DEF WyckoffNext
  <2> PICK b \in WyckoffTape[i] : WyckoffBarCloses(b)
    BY <2>1
  <2>2. wyckoffBars' = Append(wyckoffBars, b)
    BY Zenon DEF WyckoffBarCloses
  <2>3. PICK Closed : Closed = UNION {WyckoffTape[x] : x \in DOMAIN WyckoffTape}
    OBVIOUS
  <2>4. wyckoffBars \in Seq(Closed) /\ b \in Closed
    BY <2>1, <2>3 DEF WyckoffInv
  <2>5. wyckoffBars' \in Seq(Closed) /\ Len(wyckoffBars') = Len(wyckoffBars) + 1
    BY <2>2, <2>4
  <2> QED
    BY <2>3, <2>5, WyckoffBarKeeps
<1>2. CASE UNCHANGED wyckoffVars
  BY <1>2 DEF WyckoffInv, wyckoffVars, Backed, StandsAt
<1> QED
  BY <1>1, <1>2

\* Whatever the bars, a rally, a test or a last point of support never rests on a
\* climax or a strength seen before the range it stands in: what an invalidated or
\* expired hypothesis latched is gone with it (engine.py 1024-1034).
THEOREM ActsRestOnTheirRange == WyckoffSpec => []ActsBelongToOneRange
<1>1. WyckoffInv => ActsBelongToOneRange
  <2> SUFFICES ASSUME WyckoffInv
               PROVE  ActsBelongToOneRange
    OBVIOUS
  <2>1. DOMAIN signals = 1 .. Len(signals) /\ OneRange(signals, Len(wyckoffBars))
    BY DEF WyckoffInv
  <2> QED
    BY <2>1, Zenon DEF ActsBelongToOneRange, OneRange, RestsOn, RangeEnds
<1> QED
  BY <1>1, WyckoffStarts, WyckoffGoesOn, PTL DEF WyckoffSpec

-----------------------------------------------------------------------------
(* E03.  The running balance is kept as it grows, and is what a pass over  *)
(* all the bars kept would give; each bar of evidence remembers how many   *)
(* bars were kept before it.                                               *)

VolumeSpec == VolumeInit /\ [][VolumeNext]_volumeVars

\* A sequence, of whatever.
IsSeq(s) == \E S : s \in Seq(S)

\* f is the balance of the bars w.
Balances(f, w) ==
  f = [i \in 1 .. Len(w) |-> IF i = 1 THEN w[1].v ELSE ObvStep(f[i - 1], w[i - 1].c, w[i])]

\* What a bar of evidence says, measured against the bars w with the balance f.
MeasuredIn(e, w, f) ==
  /\ e.past \in Nat /\ e.past < Len(w) /\ w[e.past + 1] = e.bar
  /\ e.vr = VolumeRatio(SubSeq(w, 1, e.past), e.bar.v)
  /\ e.obv = f[e.past + 1]

StampedBars(w) == {i \in DOMAIN w : w[i].oi # NoOi /\ w[i].oiAt # NoOi}

VolumeInv ==
  /\ fedBars \in Nat
  /\ IsSeq(keptBars) /\ IsSeq(obvOf) /\ IsSeq(oiSeen) /\ IsSeq(participation)
  /\ Len(obvOf) = Len(keptBars) /\ Balances(obvOf, keptBars)
  /\ Len(oiSeen) = Cardinality(StampedBars(keptBars))
  /\ \A i \in DOMAIN participation :
       /\ MeasuredIn(participation[i], keptBars, obvOf)
       /\ participation[i].fed \in Nat /\ participation[i].fed <= fedBars
       /\ \A j \in 1 .. (i - 1) : /\ participation[j].past < participation[i].past
                                  /\ participation[j].fed < participation[i].fed

\* t is s and then x.
Grows(s, x, t) ==
  /\ IsSeq(t) /\ Len(s) \in Nat /\ Len(t) = Len(s) + 1
  /\ DOMAIN s = 1 .. Len(s) /\ DOMAIN t = 1 .. Len(t)
  /\ \A i \in 1 .. Len(s) : t[i] = s[i]
  /\ t[Len(s) + 1] = x

LEMMA OneMoreOf ==
  ASSUME NEW s, IsSeq(s), NEW x
  PROVE  Grows(s, x, Append(s, x))
<1> DEFINE t == Append(s, x)
<1>1. PICK S : s \in Seq(S)
  BY DEF IsSeq
<1>2. PICK T : T = S \cup {x}
  OBVIOUS
<1>3. S \subseteq T /\ x \in T
  BY <1>2
<1>4. s \in Seq(T)
  <2>1. \A i \in 1 .. Len(s) : s[i] \in T
    BY <1>1, <1>3
  <2>2. s = [i \in 1 .. Len(s) |-> s[i]] /\ Len(s) \in Nat
    BY <1>1
  <2> QED
    BY <2>1, <2>2
<1>5. t \in Seq(T)
  BY <1>3, <1>4
<1>6. IsSeq(t)
  BY <1>5, Zenon DEF IsSeq
<1> QED
  BY <1>1, <1>6 DEF Grows

\* There is one balance.
LEMMA OneBalance ==
  ASSUME NEW w, IsSeq(w), NEW f, Balances(f, w)
  PROVE  ObvSeries(w) = f
<1>1. PICK S : w \in Seq(S)
  BY DEF IsSeq
<1>2. PICK n \in Nat : n = Len(w)
  BY <1>1
<1>3. PICK g : g = CHOOSE h : Balances(h, w)
  OBVIOUS
<1>4. Balances(g, w)
  BY <1>3
<1>5. \A i \in 1 .. n : /\ f[i] = IF i = 1 THEN w[1].v ELSE ObvStep(f[i - 1], w[i - 1].c, w[i])
                        /\ g[i] = IF i = 1 THEN w[1].v ELSE ObvStep(g[i - 1], w[i - 1].c, w[i])
  BY <1>2, <1>4 DEF Balances
<1>6. ASSUME NEW i \in 1 .. n, f[i] # g[i] PROVE FALSE
  <2> DEFINE D == {k \in Nat : k \in 1 .. n /\ f[k] # g[k]}
  <2>1. i \in D
    BY <1>6
  <2>2. PICK k \in D : \A y \in D : k <= y
    <3> HIDE DEF D
    <3>1. D \subseteq Nat
      BY DEF D
    <3> QED
      BY <2>1, <3>1, LeastNatural
  <2>3. k # 1
    BY <1>5, <2>2
  <2>4. k - 1 \in 1 .. n /\ k - 1 \in Nat /\ ~(k <= k - 1)
    BY <2>2, <2>3
  <2>5. f[k - 1] = g[k - 1]
    BY <2>2, <2>4
  <2>6. f[k] = ObvStep(f[k - 1], w[k - 1].c, w[k]) /\ g[k] = ObvStep(g[k - 1], w[k - 1].c, w[k])
    BY <1>5, <2>2, <2>3
  <2> QED
    BY <2>2, <2>5, <2>6
<1>7. f = g
  <2>1. f = [i \in 1 .. n |-> f[i]] /\ g = [i \in 1 .. n |-> g[i]]
    BY <1>2, <1>4 DEF Balances
  <2> QED
    BY <1>6, <2>1
<1>8. ObvSeries(w) = [i \in 1 .. n |-> g[i]]
  BY <1>2, <1>3, Zenon DEF ObvSeries, Balances
<1>9. g = [i \in 1 .. n |-> g[i]]
  BY <1>2, <1>4 DEF Balances
<1> QED
  BY <1>7, <1>8, <1>9, Zenon

\* The balance of the first bars is the first part of the balance.
LEMMA BalanceOfFirst ==
  ASSUME NEW w, IsSeq(w), NEW f, Balances(f, w), NEW n \in Nat, n >= 1, n <= Len(w)
  PROVE  ObvSeries(SubSeq(w, 1, n))[n] = f[n]
<1>1. PICK S : w \in Seq(S)
  BY DEF IsSeq
<1>2. PICK v : v = SubSeq(w, 1, n)
  OBVIOUS
<1>3. v \in Seq(S) /\ Len(v) = n /\ \A i \in 1 .. n : v[i] = w[i]
  BY <1>1, <1>2
<1>4. PICK g : g = [i \in 1 .. n |-> f[i]]
  OBVIOUS
<1>5. \A i \in 1 .. n : f[i] = IF i = 1 THEN w[1].v ELSE ObvStep(f[i - 1], w[i - 1].c, w[i])
  <2>1. Len(w) \in Nat
    BY <1>1
  <2>2. \A i \in 1 .. n : i \in 1 .. Len(w)
    BY <2>1
  <2> QED
    BY <2>2 DEF Balances
<1>6. \A i \in 1 .. n : g[i] = IF i = 1 THEN v[1].v ELSE ObvStep(g[i - 1], v[i - 1].c, v[i])
  <2> TAKE i \in 1 .. n
  <2>1. CASE i = 1
    BY <1>3, <1>4, <1>5, <2>1
  <2>2. CASE i # 1
    <3>1. i - 1 \in 1 .. n
      BY <2>2
    <3>2. g[i] = f[i] /\ g[i - 1] = f[i - 1] /\ v[i] = w[i] /\ v[i - 1] = w[i - 1]
      BY <1>3, <1>4, <3>1
    <3> QED
      BY <1>5, <2>2, <3>2
  <2> QED
    BY <2>1, <2>2
<1>7. Balances(g, v)
  BY <1>3, <1>4, <1>6 DEF Balances
<1>8. ObvSeries(v) = g
  <2>1. IsSeq(v)
    BY <1>3, Zenon DEF IsSeq
  <2> QED
    BY <1>7, <2>1, OneBalance
<1>9. g[n] = f[n]
  BY <1>4
<1> QED
  BY <1>2, <1>8, <1>9, Zenon

\* A bar that is kept leaves what was measured as it was.
LEMMA MeasuredLater ==
  ASSUME NEW w, IsSeq(w), NEW b, NEW v, v = Append(w, b),
         NEW f, IsSeq(f), Len(f) = Len(w), NEW x, NEW g, g = Append(f, x),
         NEW e, MeasuredIn(e, w, f)
  PROVE  MeasuredIn(e, v, g)
<1>1. Len(w) \in Nat /\ Len(v) = Len(w) + 1 /\ \A i \in 1 .. Len(w) : v[i] = w[i] /\ g[i] = f[i]
  <2>1. Grows(w, b, v) /\ Grows(f, x, g)
    BY OneMoreOf, Zenon
  <2> QED
    BY <2>1, Zenon DEF Grows
<1>2. e.past \in Nat /\ e.past < Len(w)
  BY DEF MeasuredIn
<1>3. e.past + 1 \in 1 .. Len(w)
  BY <1>1, <1>2
<1>4. SubSeq(v, 1, e.past) = SubSeq(w, 1, e.past)
  <2>1. PICK m \in Nat : m = e.past
    BY <1>2
  <2>2. \A i \in 1 .. m : v[i] = w[i]
    BY <1>1, <1>2, <2>1
  <2>3. PICK S : w \in Seq(S)
    BY DEF IsSeq
  <2>4. PICK T : v \in Seq(T)
    BY OneMoreOf, Zenon DEF Grows, IsSeq
  <2>5. m <= Len(w) /\ m <= Len(v)
    BY <1>1, <1>2, <2>1
  <2>6. SubSeq(v, 1, m) = [i \in 1 .. m |-> v[i]] /\ SubSeq(w, 1, m) = [i \in 1 .. m |-> w[i]]
    BY <2>3, <2>4, <2>5
  <2> QED
    BY <2>1, <2>2, <2>6
<1>5. e.past < Len(v)
  BY <1>1, <1>2
<1>6. v[e.past + 1] = w[e.past + 1] /\ g[e.past + 1] = f[e.past + 1]
  BY <1>1, <1>3
<1> QED
  BY <1>2, <1>4, <1>5, <1>6, Zenon DEF MeasuredIn

\* The balance goes on with the bar that is kept.
LEMMA BalanceGoesOn ==
  ASSUME NEW w, IsSeq(w), NEW f, IsSeq(f), Len(f) = Len(w), Balances(f, w),
         NEW b, NEW v, v = Append(w, b), NEW x, NEW g, g = Append(f, x),
         x = IF w = <<>> THEN b.v ELSE ObvStep(f[Len(f)], w[Len(w)].c, b)
  PROVE  Balances(g, v)
<1>1. /\ IsSeq(v) /\ IsSeq(g)
      /\ Len(w) \in Nat /\ Len(v) = Len(w) + 1 /\ Len(g) = Len(w) + 1 /\ DOMAIN g = 1 .. Len(g)
      /\ \A i \in 1 .. Len(w) : v[i] = w[i] /\ g[i] = f[i]
      /\ v[Len(w) + 1] = b /\ g[Len(w) + 1] = x
  <2>1. Grows(w, b, v) /\ Grows(f, x, g)
    BY OneMoreOf, Zenon
  <2> QED
    BY <2>1, Zenon DEF Grows
<1>2. PICK n \in Nat : n = Len(w)
  BY <1>1
<1>3. PICK S : w \in Seq(S)
  BY DEF IsSeq
<1>4. \A i \in 1 .. n : f[i] = IF i = 1 THEN w[1].v ELSE ObvStep(f[i - 1], w[i - 1].c, w[i])
  BY <1>2 DEF Balances
<1>5. \A i \in 1 .. n + 1 : g[i] = IF i = 1 THEN v[1].v ELSE ObvStep(g[i - 1], v[i - 1].c, v[i])
  <2> TAKE i \in 1 .. n + 1
  <2>1. CASE i \in 1 .. n /\ i = 1
    BY <1>1, <1>2, <1>4, <2>1
  <2>2. CASE i \in 1 .. n /\ i # 1
    <3>1. i - 1 \in 1 .. n
      BY <2>2
    <3>2. g[i] = f[i] /\ g[i - 1] = f[i - 1] /\ v[i] = w[i] /\ v[i - 1] = w[i - 1]
      BY <1>1, <1>2, <2>2, <3>1
    <3> QED
      BY <1>4, <2>2, <3>2
  <2>3. CASE i = n + 1 /\ n = 0
    <3>1. w = <<>>
      BY <1>2, <1>3, <2>3, EmptySeq
    <3> QED
      BY <1>1, <1>2, <2>3, <3>1
  <2>4. CASE i = n + 1 /\ n # 0
    <3>1. w # <<>> /\ n \in 1 .. n /\ i - 1 = n /\ i # 1
      BY <1>2, <1>3, <2>4
    <3>2. x = ObvStep(f[n], w[n].c, b)
      BY <1>2, <3>1, Zenon
    <3>3. g[i] = x /\ v[i] = b /\ g[i - 1] = f[n] /\ v[i - 1] = w[n]
      BY <1>1, <1>2, <2>4, <3>1
    <3> QED
      BY <3>1, <3>2, <3>3
  <2>5. i \in 1 .. n \/ i = n + 1
    OBVIOUS
  <2> QED
    BY <2>1, <2>2, <2>3, <2>4, <2>5, Zenon
<1>6. PICK T : g \in Seq(T)
  BY <1>1 DEF IsSeq
<1>7. g = [i \in 1 .. n + 1 |-> g[i]] /\ Len(v) = n + 1
  BY <1>1, <1>2, <1>6
<1> QED
  BY <1>5, <1>7 DEF Balances

LEMMA StampedMore ==
  ASSUME NEW w, IsSeq(w), NEW b, NEW v, v = Append(w, b)
  PROVE  /\ Cardinality(StampedBars(w)) \in Nat
         /\ Cardinality(StampedBars(v)) = IF b.oi # NoOi /\ b.oiAt # NoOi
                                      THEN Cardinality(StampedBars(w)) + 1 ELSE Cardinality(StampedBars(w))
<1>1. /\ Len(w) \in Nat /\ Len(v) = Len(w) + 1 /\ DOMAIN w = 1 .. Len(w) /\ DOMAIN v = 1 .. Len(v)
      /\ \A i \in 1 .. Len(w) : v[i] = w[i]
      /\ v[Len(w) + 1] = b
  <2>1. Grows(w, b, v)
    BY OneMoreOf, Zenon
  <2> QED
    BY <2>1, Zenon DEF Grows
<1>2. IsFiniteSet(StampedBars(w)) /\ Cardinality(StampedBars(w)) \in Nat
  <2>1. IsFiniteSet(1 .. Len(w))
    BY <1>1, FS_Interval
  <2>2. StampedBars(w) \subseteq 1 .. Len(w)
    BY <1>1 DEF StampedBars
  <2> QED
    BY <2>1, <2>2, FS_Subset, FS_CardinalityType
<1>3. Len(w) + 1 \notin StampedBars(w)
  BY <1>1 DEF StampedBars
<1>4. CASE b.oi # NoOi /\ b.oiAt # NoOi
  <2>1. StampedBars(v) = StampedBars(w) \cup {Len(w) + 1}
    BY <1>1, <1>4 DEF StampedBars
  <2>2. Cardinality(StampedBars(w) \cup {Len(w) + 1}) = Cardinality(StampedBars(w)) + 1
    BY <1>2, <1>3, FS_AddElement
  <2> QED
    BY <1>2, <1>4, <2>1, <2>2, Zenon
<1>5. CASE ~(b.oi # NoOi /\ b.oiAt # NoOi)
  <2>1. StampedBars(v) = StampedBars(w)
    BY <1>1, <1>5 DEF StampedBars
  <2> QED
    BY <1>2, <1>5, <2>1, Zenon
<1> QED
  BY <1>4, <1>5

\* The three histories take a bar together.
LEMMA KeptTogether ==
  ASSUME VolumeInv, NEW b, Keeps(b, ObvNow(b))
  PROVE  /\ IsSeq(keptBars') /\ IsSeq(obvOf') /\ IsSeq(oiSeen')
         /\ Len(obvOf') = Len(keptBars') /\ Balances(obvOf', keptBars')
         /\ Len(oiSeen') = Cardinality(StampedBars(keptBars'))
         /\ Len(keptBars) \in Nat /\ Len(keptBars') = Len(keptBars) + 1
         /\ \A e : MeasuredIn(e, keptBars, obvOf) => MeasuredIn(e, keptBars', obvOf')
         /\ SubSeq(keptBars', 1, Len(keptBars)) = keptBars
         /\ keptBars'[Len(keptBars) + 1] = b /\ obvOf'[Len(keptBars) + 1] = ObvNow(b)
<1>1. PICK v, g, x : v = keptBars' /\ g = obvOf' /\ x = ObvNow(b)
  OBVIOUS
<1>2. v = Append(keptBars, b) /\ g = Append(obvOf, x)
  BY <1>1 DEF Keeps
<1>3. /\ IsSeq(keptBars) /\ IsSeq(obvOf) /\ IsSeq(oiSeen) /\ Len(obvOf) = Len(keptBars)
      /\ Balances(obvOf, keptBars) /\ Len(oiSeen) = Cardinality(StampedBars(keptBars))
  BY DEF VolumeInv
<1>4. /\ IsSeq(v) /\ IsSeq(g)
      /\ Len(keptBars) \in Nat /\ Len(v) = Len(keptBars) + 1 /\ Len(g) = Len(keptBars) + 1
      /\ v[Len(keptBars) + 1] = b /\ g[Len(keptBars) + 1] = x
      /\ \A i \in 1 .. Len(keptBars) : v[i] = keptBars[i]
  <2>1. Grows(keptBars, b, v) /\ Grows(obvOf, x, g)
    BY <1>2, <1>3, OneMoreOf, Zenon
  <2> QED
    BY <1>3, <2>1, Zenon DEF Grows
<1>5. Balances(g, v)
  <2>1. x = IF keptBars = <<>> THEN b.v ELSE ObvStep(obvOf[Len(obvOf)], keptBars[Len(keptBars)].c, b)
    BY <1>1, Zenon DEF ObvNow, Last
  <2> QED
    BY <1>2, <1>3, <2>1, BalanceGoesOn
<1>6. \A e : MeasuredIn(e, keptBars, obvOf) => MeasuredIn(e, v, g)
  BY <1>2, <1>3, MeasuredLater
<1>7. IsSeq(oiSeen') /\ Len(oiSeen') = Cardinality(StampedBars(v))
  <2>1. PICK o : o = [oi |-> b.oi, at |-> b.oiAt]
    OBVIOUS
  <2>2. /\ Cardinality(StampedBars(keptBars)) \in Nat
        /\ Cardinality(StampedBars(v)) = IF b.oi # NoOi /\ b.oiAt # NoOi
                                     THEN Cardinality(StampedBars(keptBars)) + 1
                                     ELSE Cardinality(StampedBars(keptBars))
    BY <1>2, <1>3, StampedMore
  <2>3. CASE b.oi # NoOi /\ b.oiAt # NoOi
    <3>1. oiSeen' = Append(oiSeen, o)
      BY <2>1, <2>3, Zenon DEF Keeps
    <3>2. IsSeq(oiSeen') /\ Len(oiSeen') = Len(oiSeen) + 1
      <4>1. Grows(oiSeen, o, oiSeen')
        BY <1>3, <3>1, OneMoreOf, Zenon
      <4> QED
        BY <4>1, Zenon DEF Grows
    <3> QED
      BY <1>3, <2>2, <2>3, <3>2, Zenon
  <2>4. CASE ~(b.oi # NoOi /\ b.oiAt # NoOi)
    <3>1. oiSeen' = oiSeen
      BY <2>4, Zenon DEF Keeps
    <3> QED
      BY <1>3, <2>2, <2>4, <3>1, Zenon
  <2> QED
    BY <2>3, <2>4
<1>8. SubSeq(v, 1, Len(keptBars)) = keptBars
  <2>1. PICK S : keptBars \in Seq(S)
    BY <1>3 DEF IsSeq
  <2>2. PICK T : v \in Seq(T)
    BY <1>4 DEF IsSeq
  <2>3. PICK n \in Nat : n = Len(keptBars)
    BY <1>4
  <2>4. SubSeq(v, 1, n) = [i \in 1 .. n |-> v[i]] /\ keptBars = [i \in 1 .. n |-> keptBars[i]]
    BY <1>4, <2>1, <2>2, <2>3
  <2> QED
    BY <1>4, <2>3, <2>4
<1> QED
  BY <1>1, <1>3, <1>4, <1>5, <1>6, <1>7, <1>8, Zenon

LEMMA VolumeStarts == VolumeInit => VolumeInv
<1> SUFFICES ASSUME VolumeInit PROVE VolumeInv
  OBVIOUS
<1>1. /\ fedBars = 0 /\ keptBars = <<>> /\ obvOf = <<>> /\ oiSeen = <<>> /\ participation = <<>>
  BY DEF VolumeInit
<1>2. IsSeq(<<>>) /\ Len(<<>>) = 0 /\ DOMAIN <<>> = {}
  BY DEF IsSeq
<1>3. StampedBars(keptBars) = {} /\ DOMAIN participation = {}
  BY <1>1 DEF StampedBars
<1>4. Cardinality({}) = 0
  BY FS_EmptySet
<1>5. Balances(obvOf, keptBars)
  <2>1. obvOf = [i \in 1 .. 0 |-> IF i = 1 THEN keptBars[1].v ELSE ObvStep(obvOf[i - 1], keptBars[i - 1].c, keptBars[i])]
    BY <1>1
  <2>2. Len(keptBars) = 0
    BY <1>1
  <2> QED
    BY <2>1, <2>2, Zenon DEF Balances
<1>6. fedBars \in Nat
  BY <1>1
<1> QED
  BY <1>1, <1>2, <1>3, <1>4, <1>5, <1>6, Zenon DEF VolumeInv

\* A bar that leaves no trace.
LEMMA KeptNothing ==
  ASSUME VolumeInv, fedBars' = fedBars + 1, NEW b, KeepsNothing(b), UNCHANGED participation
  PROVE  VolumeInv'
<1>1. fedBars \in Nat /\ fedBars' \in Nat /\ fedBars <= fedBars'
  BY DEF VolumeInv
<1>2. UNCHANGED <<keptBars, obvOf, oiSeen, participation>>
  BY DEF KeepsNothing
<1>3. \A i \in DOMAIN participation : participation[i].fed \in Nat /\ participation[i].fed <= fedBars'
  <2> TAKE i \in DOMAIN participation
  <2>1. PICK k : k = participation[i].fed
    OBVIOUS
  <2>2. k \in Nat /\ k <= fedBars
    BY <2>1 DEF VolumeInv
  <2> QED
    BY <1>1, <2>1, <2>2
<1> QED
  BY <1>1, <1>2, <1>3, Zenon DEF VolumeInv

\* A bar that is kept while the engine warms up.
LEMMA KeptOnly ==
  ASSUME VolumeInv, fedBars' = fedBars + 1, NEW b, Keeps(b, ObvNow(b)), UNCHANGED participation
  PROVE  VolumeInv'
<1>1. fedBars \in Nat /\ fedBars' \in Nat /\ fedBars <= fedBars'
  BY DEF VolumeInv
<1>2. \A i \in DOMAIN participation : participation[i].fed \in Nat /\ participation[i].fed <= fedBars'
  <2> TAKE i \in DOMAIN participation
  <2>1. PICK k : k = participation[i].fed
    OBVIOUS
  <2>2. k \in Nat /\ k <= fedBars
    BY <2>1 DEF VolumeInv
  <2> QED
    BY <1>1, <2>1, <2>2
<1>3. /\ IsSeq(keptBars') /\ IsSeq(obvOf') /\ IsSeq(oiSeen')
      /\ Len(obvOf') = Len(keptBars') /\ Balances(obvOf', keptBars')
      /\ Len(oiSeen') = Cardinality(StampedBars(keptBars'))
      /\ \A e : MeasuredIn(e, keptBars, obvOf) => MeasuredIn(e, keptBars', obvOf')
  BY KeptTogether, Zenon
<1> QED
  BY <1>1, <1>2, <1>3, Zenon DEF VolumeInv

\* A bar that is measured against the bars before it, and kept.
LEMMA KeptMeasured ==
  ASSUME VolumeInv, fedBars' = fedBars + 1, NEW b, MeasuredBar(b)
  PROVE  VolumeInv'
<1>1. fedBars \in Nat /\ fedBars' \in Nat /\ fedBars < fedBars'
  BY DEF VolumeInv
<1>2. /\ IsSeq(keptBars') /\ IsSeq(obvOf') /\ IsSeq(oiSeen')
      /\ Len(obvOf') = Len(keptBars') /\ Balances(obvOf', keptBars')
      /\ Len(oiSeen') = Cardinality(StampedBars(keptBars'))
      /\ Len(keptBars) \in Nat /\ Len(keptBars') = Len(keptBars) + 1
      /\ \A e : MeasuredIn(e, keptBars, obvOf) => MeasuredIn(e, keptBars', obvOf')
      /\ SubSeq(keptBars', 1, Len(keptBars)) = keptBars
      /\ keptBars'[Len(keptBars) + 1] = b /\ obvOf'[Len(keptBars) + 1] = ObvNow(b)
  <2>1. Keeps(b, ObvNow(b))
    BY Zenon DEF MeasuredBar
  <2> QED
    BY <2>1, KeptTogether, Zenon
<1> DEFINE vr == VolumeRatio(keptBars, b.v)
           oi == OiState(b)
           events == VolumeEvents(b, vr)
           obv == ObvNow(b)
<1>3. PICK e : e = [fed |-> fedBars + 1, past |-> Len(keptBars), bar |-> b, vr |-> vr, obv |-> obv,
                    oi |-> oi, events |-> events]
  OBVIOUS
<1>4. participation' = Append(participation, e)
  BY <1>3, Zenon DEF MeasuredBar
<1>5. /\ e.fed = fedBars' /\ e.past = Len(keptBars) /\ e.bar = b
      /\ e.vr = VolumeRatio(keptBars, b.v) /\ e.obv = ObvNow(b)
  <2>1. /\ e.fed = fedBars + 1 /\ e.past = Len(keptBars) /\ e.bar = b
        /\ e.vr = vr /\ e.obv = obv
    <3> HIDE DEF vr, oi, events, obv
    <3> QED
      BY <1>3
  <2> QED
    BY <2>1, Zenon
<1>6. MeasuredIn(e, keptBars', obvOf')
  <2>1. e.past \in Nat /\ e.past < Len(keptBars')
    BY <1>2, <1>5
  <2>2. keptBars'[e.past + 1] = e.bar /\ e.obv = obvOf'[e.past + 1]
    BY <1>2, <1>5, Zenon
  <2>3. e.vr = VolumeRatio(SubSeq(keptBars', 1, e.past), e.bar.v)
    BY <1>2, <1>5, Zenon
  <2> QED
    BY <2>1, <2>2, <2>3, Zenon DEF MeasuredIn
<1>7. Grows(participation, e, participation')
  <2>1. IsSeq(participation)
    BY SMTT(40) DEF VolumeInv
  <2> QED
    BY <1>4, <2>1, OneMoreOf, Zenon
<1>8. PICK n \in Nat : n = Len(participation)
  BY <1>7 DEF Grows
<1>9. /\ DOMAIN participation = 1 .. n /\ DOMAIN participation' = 1 .. n + 1
      /\ \A i \in 1 .. n : participation'[i] = participation[i]
      /\ participation'[n + 1] = e
  BY <1>7, <1>8 DEF Grows
<1>10. \A i \in 1 .. n :
         /\ MeasuredIn(participation[i], keptBars, obvOf)
         /\ participation[i].fed \in Nat /\ participation[i].fed < fedBars'
         /\ participation[i].past \in Nat /\ participation[i].past < Len(keptBars)
         /\ \A j \in 1 .. (i - 1) : /\ participation[j].past < participation[i].past
                                    /\ participation[j].fed < participation[i].fed
  <2> TAKE i \in 1 .. n
  <2>1. PICK p : p = participation[i]
    OBVIOUS
  <2>2. /\ MeasuredIn(p, keptBars, obvOf) /\ p.fed \in Nat /\ p.fed <= fedBars
        /\ \A j \in 1 .. (i - 1) : participation[j].past < p.past /\ participation[j].fed < p.fed
    BY <1>9, <2>1, Zenon DEF VolumeInv
  <2>3. p.past \in Nat /\ p.past < Len(keptBars)
    BY <2>2, Zenon DEF MeasuredIn
  <2>4. p.fed < fedBars'
    BY <1>1, <2>2
  <2> QED
    BY <2>1, <2>2, <2>3, <2>4, Zenon
<1>11. ASSUME NEW i \in 1 .. n + 1
       PROVE /\ MeasuredIn(participation'[i], keptBars', obvOf')
             /\ participation'[i].fed \in Nat /\ participation'[i].fed <= fedBars'
             /\ \A j \in 1 .. (i - 1) : /\ participation'[j].past < participation'[i].past
                                        /\ participation'[j].fed < participation'[i].fed
  <2>1. CASE i \in 1 .. n
    <3>1. participation'[i] = participation[i]
      BY <1>9, <2>1
    <3>2. \A j \in 1 .. (i - 1) : participation'[j] = participation[j]
      <4>1. \A j \in 1 .. (i - 1) : j \in 1 .. n
        BY <2>1
      <4> QED
        BY <1>9, <4>1, Zenon
    <3>3. PICK k : k = participation[i].fed
      OBVIOUS
    <3>4. k \in Nat /\ k <= fedBars'
      <4>1. k \in Nat /\ k < fedBars'
        BY <1>10, <2>1, <3>3, Zenon
      <4> QED
        BY <1>1, <4>1
    <3> QED
      BY <1>2, <1>10, <2>1, <3>1, <3>2, <3>3, <3>4, Zenon
  <2>2. CASE i = n + 1
    <3>1. \A j \in 1 .. (i - 1) : j \in 1 .. n
      BY <2>2
    <3>2. \A j \in 1 .. (i - 1) : participation'[j].past < e.past /\ participation'[j].fed < e.fed
      BY <1>5, <1>9, <1>10, <3>1, Zenon
    <3>3. e.fed \in Nat /\ e.fed <= fedBars'
      BY <1>1, <1>5
    <3> QED
      BY <1>6, <1>9, <2>2, <3>2, <3>3, Zenon
  <2> QED
    BY <2>1, <2>2
<1>12. IsSeq(participation')
  BY <1>7, Zenon DEF Grows
<1> QED
  BY <1>1, <1>2, <1>9, <1>11, <1>12, Zenon DEF VolumeInv

LEMMA VolumeGoesOn == VolumeInv /\ [VolumeNext]_volumeVars => VolumeInv'
<1> SUFFICES ASSUME VolumeInv, [VolumeNext]_volumeVars PROVE VolumeInv'
  OBVIOUS
<1>1. CASE UNCHANGED volumeVars
  BY <1>1 DEF VolumeInv, volumeVars, StampedBars
<1>2. ASSUME VolumeNext PROVE VolumeInv'
  <2>1. PICK b : BadBar(b) \/ SkippedBar(b) \/ WarmUpBar(b) \/ RefusedBar(b) \/ MeasuredBar(b)
    BY <1>2, Zenon DEF VolumeNext
  <2>2. fedBars' = fedBars + 1
    BY <1>2, Zenon DEF VolumeNext
  <2>3. CASE BadBar(b) \/ SkippedBar(b) \/ RefusedBar(b)
    <3>1. KeepsNothing(b) /\ UNCHANGED participation
      BY <2>3 DEF BadBar, SkippedBar, RefusedBar
    <3> QED
      BY <2>2, <3>1, KeptNothing
  <2>4. CASE WarmUpBar(b)
    <3>1. Keeps(b, ObvNow(b)) /\ UNCHANGED participation
      BY <2>4 DEF WarmUpBar
    <3> QED
      BY <2>2, <3>1, KeptOnly
  <2>5. CASE MeasuredBar(b)
    BY <2>2, <2>5, KeptMeasured
  <2> QED
    BY <2>1, <2>3, <2>4, <2>5
<1> QED
  BY <1>1, <1>2

\* What is measured against the past is measured against the accepted bars before it,
\* with the balance a pass over them gives (ingest_bar).
THEOREM PastIsAccepted == VolumeSpec => []MeasuredAgainstItsPast
<1>1. VolumeInv => MeasuredAgainstItsPast
  <2> SUFFICES ASSUME VolumeInv PROVE MeasuredAgainstItsPast
    OBVIOUS
  <2>1. IsSeq(keptBars) /\ Balances(obvOf, keptBars)
    BY DEF VolumeInv
  <2>2. obvOf = ObvSeries(keptBars)
    BY <2>1, OneBalance
  <2>3. Len(oiSeen) = Cardinality({i \in DOMAIN keptBars : keptBars[i].oi # NoOi /\ keptBars[i].oiAt # NoOi})
    BY Zenon DEF VolumeInv, StampedBars
  <2>4. ASSUME NEW i \in DOMAIN participation, NEW e, e = participation[i]
        PROVE  /\ keptBars[e.past + 1] = e.bar
               /\ e.vr = VolumeRatio(SubSeq(keptBars, 1, e.past), e.bar.v)
               /\ e.obv = ObvSeries(SubSeq(keptBars, 1, e.past + 1))[e.past + 1]
               /\ \A j \in 1..(i-1) : participation[j].past < e.past /\ participation[j].fed < e.fed
    <3>1. /\ MeasuredIn(e, keptBars, obvOf)
          /\ \A j \in 1..(i-1) : participation[j].past < e.past /\ participation[j].fed < e.fed
      BY <2>4, Zenon DEF VolumeInv
    <3>2. PICK n : n = e.past + 1
      OBVIOUS
    <3>3. n \in Nat /\ n >= 1 /\ n <= Len(keptBars)
      <4>1. e.past \in Nat /\ e.past < Len(keptBars)
        BY <3>1, Zenon DEF MeasuredIn
      <4>2. Len(keptBars) \in Nat
        BY <2>1 DEF IsSeq
      <4> QED
        BY <3>2, <4>1, <4>2
    <3>4. ObvSeries(SubSeq(keptBars, 1, n))[n] = obvOf[n]
      BY <2>1, <3>3, BalanceOfFirst
    <3> QED
      BY <3>1, <3>2, <3>4, Zenon DEF MeasuredIn
  <2> QED
    BY <2>2, <2>3, <2>4, Zenon DEF MeasuredAgainstItsPast
<1> QED
  BY <1>1, VolumeStarts, VolumeGoesOn, PTL DEF VolumeSpec

-----------------------------------------------------------------------------
(* E10.  A pivot is recorded on the candle that closes its window, from    *)
(* the last 2 k + 1 values of its series, so what it says of them is true; *)
(* and it stays true, since the series only grow.                          *)

MomentumSpec == MomentumInit /\ [][MomentumNext]_momentumVars

\* The candles there are.
MomentumCandles == UNION {MomentumTape[n] : n \in DOMAIN MomentumTape}

Sighting == [index : Int, confirmed : Int, value : Int]

Highs(w) == [i \in DOMAIN w |-> w[i].h]
Lows(w) == [i \in DOMAIN w |-> w[i].l]
SeriesIn(list, w, aux) ==
  CASE list = "highPrice" -> Highs(w) [] list = "lowPrice" -> Lows(w) [] OTHER -> aux

\* The pivot p of the list names a value of the series s of n candles.
TrueOf(p, s, n, list) ==
  /\ p.index - PivotBars >= 1
  /\ p.confirmed = p.index + PivotBars /\ p.confirmed <= n
  /\ p.value = s[p.index] /\ p.value # NoReading
  /\ \A i \in p.index - PivotBars .. p.confirmed :
       IF list \in {"highPrice", "highMomentum"} THEN s[i] <= p.value ELSE s[i] >= p.value

\* What a state says of a divergence it can name, at most n candles late.
Honest(st, n) ==
  /\ "divergence" \notin st.flags
  /\ st.kind # "NONE" /\ (st.disagree \/ st.method # "OLS") => Len(st.pairs) = 2
  /\ st.disagree => st.q \notin {"Q3", "Q4"}
  /\ st.method # "half"
  /\ \A i \in DOMAIN st.pairs : \A p \in ToSet(st.pairs[i]) : p \in Sighting /\ p.confirmed <= n

MomentumInv ==
  /\ fed \in Nat
  /\ Len(auxByBar) = Len(candlesKept)
  /\ candlesKept \in Seq(MomentumCandles)
  /\ auxByBar \in Seq(Int) /\ rsiHist \in Seq(Int)
  /\ pivots \in [PivotLists -> Seq(Sighting)]
  /\ \A list \in PivotLists : \A p \in ToSet(pivots[list]) :
       TrueOf(p, SeriesIn(list, candlesKept, auxByBar), Len(candlesKept), list)
  /\ Honest(lastState, Len(candlesKept)) /\ Honest(momentumState, Len(candlesKept))
  /\ lastState.disagree \in BOOLEAN /\ momentumState.disagree \in BOOLEAN

\* A stretch of a sequence, element by element.
LEMMA StretchIs ==
  ASSUME NEW s \in Seq(Int), NEW a \in Nat, a >= 1, NEW n \in Nat, a <= n, n <= Len(s)
  PROVE  /\ SubSeq(s, a, n) \in Seq(Int) /\ Len(SubSeq(s, a, n)) = n - a + 1
         /\ \A j \in 1 .. (n - a + 1) : SubSeq(s, a, n)[j] = s[a + j - 1]
  OBVIOUS

LEMMA WindowSees ==
  ASSUME NEW s \in Seq(Int), NEW n \in Nat, n = Len(s), n >= 2 * PivotBars + 1,
         NEW w, w = SubSeq(s, n - 2 * PivotBars, n)
  PROVE  /\ w[PivotBars + 1] = s[n - PivotBars] /\ s[n - PivotBars] \in Int
         /\ Fractal(w) = "HIGH" => /\ s[n - PivotBars] # NoReading
                                   /\ \A i \in n - 2 * PivotBars .. n : s[i] <= s[n - PivotBars]
         /\ Fractal(w) = "LOW" => /\ s[n - PivotBars] # NoReading
                                  /\ \A i \in n - 2 * PivotBars .. n : s[i] >= s[n - PivotBars]
<1>1. PivotBars \in Nat /\ PivotBars >= 1
  BY MomentumBounds
<1>2. PICK d \in Nat : d = n - 2 * PivotBars - 1
  <2>1. n - 2 * PivotBars - 1 \in Nat
    BY <1>1
  <2> QED
    BY <2>1, Zenon
<1>3. w \in Seq(Int) /\ Len(w) = 2 * PivotBars + 1 /\ \A j \in 1 .. 2 * PivotBars + 1 : w[j] = s[d + j]
  <2>1. PICK a \in Nat : a = n - 2 * PivotBars
    <3>1. n - 2 * PivotBars \in Nat
      BY <1>1
    <3> QED
      BY <3>1, Zenon
  <2>2. a >= 1 /\ a <= n /\ n <= Len(s) /\ n - a + 1 = 2 * PivotBars + 1
    BY <1>1, <2>1
  <2>3. w = SubSeq(s, a, n)
    BY <2>1, Zenon
  <2>4. /\ SubSeq(s, a, n) \in Seq(Int) /\ Len(SubSeq(s, a, n)) = n - a + 1
        /\ \A j \in 1 .. (n - a + 1) : SubSeq(s, a, n)[j] = s[a + j - 1]
    BY <2>2, StretchIs
  <2>5. w \in Seq(Int) /\ Len(w) = 2 * PivotBars + 1
        /\ \A j \in 1 .. (2 * PivotBars + 1) : w[j] = s[a + j - 1]
    BY <2>2, <2>3, <2>4, Zenon
  <2>6. \A j \in 1 .. (2 * PivotBars + 1) : a + j - 1 = d + j
    BY <1>1, <1>2, <2>1
  <2> QED
    BY <2>5, <2>6, Zenon
<1>4. DOMAIN w = 1 .. 2 * PivotBars + 1
  BY <1>3
<1>5. w[PivotBars + 1] = s[n - PivotBars] /\ s[n - PivotBars] \in Int
  <2>1. d + (PivotBars + 1) = n - PivotBars /\ PivotBars + 1 \in 1 .. 2 * PivotBars + 1
        /\ n - PivotBars \in 1 .. n
    BY <1>1, <1>2
  <2> QED
    BY <2>1, <1>3, SMTT(40)
<1>6. \A i \in n - 2 * PivotBars .. n : s[i] \in ToSet(w) /\ s[i] \in Int
  <2> SUFFICES ASSUME NEW i \in n - 2 * PivotBars .. n PROVE s[i] \in ToSet(w) /\ s[i] \in Int
    OBVIOUS
  <2>1. i - d \in 1 .. 2 * PivotBars + 1 /\ d + (i - d) = i /\ i \in 1 .. n
    BY <1>1, <1>2
  <2>2. w[i - d] = s[i] /\ s[i] \in Int
    BY <2>1, <1>3, SMTT(40)
  <2> QED
    BY <2>1, <2>2, <1>4 DEF ToSet
<1>7. n - PivotBars \in n - 2 * PivotBars .. n
  BY <1>1
<1>8. s[n - PivotBars] \in ToSet(w)
  BY <1>6, <1>7
<1>9. ASSUME Fractal(w) = "HIGH"
      PROVE  NoReading \notin ToSet(w) /\ \A v \in ToSet(w) : w[PivotBars + 1] >= v
  <2>1. NoReading \notin ToSet(w)
    BY <1>9, "HIGH" # "NONE", Zenon DEF Fractal
  <2>2. ~(\A v \in ToSet(w) : w[PivotBars + 1] >= v) => Fractal(w) \in {"LOW", "NONE"}
    BY <2>1, Zenon DEF Fractal
  <2> QED
    BY <2>1, <2>2, <1>9
<1>10. ASSUME Fractal(w) = "LOW"
      PROVE  NoReading \notin ToSet(w) /\ \A v \in ToSet(w) : w[PivotBars + 1] <= v
  <2>1. NoReading \notin ToSet(w)
    BY <1>10, "LOW" # "NONE", Zenon DEF Fractal
  <2>2. (\A v \in ToSet(w) : w[PivotBars + 1] >= v) => Fractal(w) = "HIGH"
    BY <2>1, Zenon DEF Fractal
  <2>3. ~(\A v \in ToSet(w) : w[PivotBars + 1] >= v)
        /\ ~(\A v \in ToSet(w) : w[PivotBars + 1] <= v) => Fractal(w) = "NONE"
    BY <2>1, Zenon DEF Fractal
  <2> QED
    BY <2>1, <2>2, <2>3, <1>10
<1>11. ASSUME Fractal(w) = "HIGH"
       PROVE /\ s[n - PivotBars] # NoReading
             /\ \A i \in n - 2 * PivotBars .. n : s[i] <= s[n - PivotBars]
  BY <1>5, <1>6, <1>8, <1>9, <1>11
<1>12. ASSUME Fractal(w) = "LOW"
       PROVE /\ s[n - PivotBars] # NoReading
             /\ \A i \in n - 2 * PivotBars .. n : s[i] >= s[n - PivotBars]
  BY <1>5, <1>6, <1>8, <1>10, <1>12
<1> QED
  BY <1>5, <1>11, <1>12, Zenon

\* A pivot stays what it was when the series grows.
LEMMA TrueLater ==
  ASSUME NEW s, NEW t, NEW n \in Nat, NEW m \in Nat, n <= m,
         \A i \in 1 .. n : t[i] = s[i],
         NEW p \in Sighting, NEW list, TrueOf(p, s, n, list)
  PROVE  TrueOf(p, t, m, list)
<1>1. PivotBars \in Nat /\ PivotBars >= 1
  BY MomentumBounds
<1>2. p.index \in Int /\ p.confirmed \in Int
  BY DEF Sighting
<1>3. /\ p.index - PivotBars >= 1 /\ p.confirmed = p.index + PivotBars /\ p.confirmed <= n
      /\ p.value = s[p.index] /\ p.value # NoReading
  BY DEF TrueOf
<1>4. p.index \in 1 .. n /\ \A i \in p.index - PivotBars .. p.confirmed : i \in 1 .. n
  BY <1>1, <1>2, <1>3
<1>5. p.confirmed <= m
  BY <1>2, <1>3
<1>6. \A i \in p.index - PivotBars .. p.confirmed :
        IF list \in {"highPrice", "highMomentum"} THEN t[i] <= p.value ELSE t[i] >= p.value
  <2> TAKE i \in p.index - PivotBars .. p.confirmed
  <2>1. t[i] = s[i]
    BY <1>4
  <2>2. IF list \in {"highPrice", "highMomentum"} THEN s[i] <= p.value ELSE s[i] >= p.value
    BY DEF TrueOf
  <2> QED
    BY <2>1, <2>2, Zenon
<1>7. p.value = t[p.index]
  BY <1>3, <1>4
<1> QED
  BY <1>3, <1>5, <1>6, <1>7, Zenon DEF TrueOf

\* The pivot the newest window shows is one.
LEMMA TrueNow ==
  ASSUME NEW s \in Seq(Int), NEW n \in Nat, n = Len(s), n >= 2 * PivotBars + 1,
         NEW w, w = SubSeq(s, n - 2 * PivotBars, n), NEW list,
         \/ list \in {"highPrice", "highMomentum"} /\ Fractal(w) = "HIGH"
         \/ list \in {"lowPrice", "lowMomentum"} /\ Fractal(w) = "LOW",
         NEW p, p.index = n - PivotBars, p.confirmed = n, p.value = w[PivotBars + 1]
  PROVE  p.value \in Int /\ TrueOf(p, s, n, list)
<1>1. PivotBars \in Nat /\ PivotBars >= 1
  BY MomentumBounds
<1>2. PICK v \in Int : v = w[PivotBars + 1] /\ v = s[n - PivotBars]
  BY WindowSees
<1>3. p.index = n - PivotBars /\ p.confirmed = n /\ p.value = v
  BY <1>2
<1>7. /\ Fractal(w) = "HIGH" => v # NoReading /\ \A i \in n - 2 * PivotBars .. n : s[i] <= v
      /\ Fractal(w) = "LOW" => v # NoReading /\ \A i \in n - 2 * PivotBars .. n : s[i] >= v
  BY <1>2, WindowSees
<1>4. p.index - PivotBars >= 1 /\ p.confirmed = p.index + PivotBars /\ p.confirmed <= n
      /\ p.index - PivotBars = n - 2 * PivotBars
  BY <1>1, <1>3
<1>5. CASE list \in {"highPrice", "highMomentum"} /\ Fractal(w) = "HIGH"
  <2>1. p.value # NoReading /\ \A i \in n - 2 * PivotBars .. n : s[i] <= p.value
    BY <1>3, <1>5, <1>7, Zenon
  <2> QED
    <3>1. p.value = s[p.index]
      BY <1>2, <1>3, Zenon
    <3>2. \A i \in p.index - PivotBars .. p.confirmed : s[i] <= p.value
      BY <1>3, <1>4, <2>1, Zenon
    <3> QED
      BY <1>3, <1>4, <1>5, <2>1, <3>1, <3>2, Zenon DEF TrueOf
<1>6. CASE list \in {"lowPrice", "lowMomentum"} /\ Fractal(w) = "LOW"
  <2>1. p.value # NoReading /\ \A i \in n - 2 * PivotBars .. n : s[i] >= p.value
    BY <1>3, <1>6, <1>7, Zenon
  <2>2. list \notin {"highPrice", "highMomentum"}
    BY <1>6
  <2> QED
    <3>1. p.value = s[p.index]
      BY <1>2, <1>3, Zenon
    <3>2. \A i \in p.index - PivotBars .. p.confirmed : s[i] >= p.value
      BY <1>3, <1>4, <2>1, Zenon
    <3> QED
      BY <1>3, <1>4, <2>2, <2>1, <3>1, <3>2, Zenon DEF TrueOf
<1> QED
  BY <1>2, <1>3, <1>5, <1>6

LEMMA PivotAdded ==
  ASSUME NEW S, NEW list \in Seq(S), NEW pivot \in S
  PROVE  /\ WithPivot(list, pivot) \in Seq(S)
         /\ \A p \in ToSet(WithPivot(list, pivot)) : p \in ToSet(list) \/ p = pivot
<1>1. CASE \E p \in ToSet(list) : p.index = pivot.index
  <2>1. WithPivot(list, pivot) = list
    BY <1>1, Zenon DEF WithPivot
  <2> QED
    BY <2>1
<1>2. CASE ~\E p \in ToSet(list) : p.index = pivot.index
  <2>1. WithPivot(list, pivot) = Append(list, pivot)
    BY <1>2, Zenon DEF WithPivot
  <2>2. PICK more : more = Append(list, pivot)
    OBVIOUS
  <2>3. more \in Seq(S) /\ Len(more) = Len(list) + 1 /\ \A i \in 1 .. Len(list) + 1 :
          more[i] = IF i <= Len(list) THEN list[i] ELSE pivot
    BY <2>2
  <2>4. \A i \in DOMAIN more : more[i] \in ToSet(list) \/ more[i] = pivot
    BY <2>3 DEF ToSet
  <2>5. \A p \in ToSet(more) : p \in ToSet(list) \/ p = pivot
    BY <2>4 DEF ToSet
  <2> QED
    BY <2>1, <2>2, <2>3, <2>5
<1> QED
  BY <1>1, <1>2

\* One candle more: what was true stays so, and what is recorded is true.
LEMMA PivotsStayTrue ==
  ASSUME NEW kept, NEW aux \in Seq(Int), NEW n \in Nat, Len(kept) = n, Len(aux) = n,
         Highs(kept) \in Seq(Int), Lows(kept) \in Seq(Int),
         Len(Highs(kept)) = n, Len(Lows(kept)) = n,
         pivots \in [PivotLists -> Seq(Sighting)],
         \A list \in PivotLists : \A p \in ToSet(pivots[list]) :
            TrueOf(p, SeriesIn(list, kept, aux), n, list),
         NEW lists, lists = UpdatedPivots(kept, aux)
  PROVE  /\ lists \in [PivotLists -> Seq(Sighting)]
         /\ \A list \in PivotLists : \A p \in ToSet(lists[list]) :
              TrueOf(p, SeriesIn(list, kept, aux), n, list)
<1>1. PivotBars \in Nat /\ PivotBars >= 1
  BY MomentumBounds
<1>2. CASE Len(kept) < 2 * PivotBars + 1
  <2>1. lists = pivots
    BY <1>2, Zenon DEF UpdatedPivots
  <2> QED
    BY <2>1, Zenon
<1>3. CASE ~(Len(kept) < 2 * PivotBars + 1)
  <2> DEFINE tail(s) == SubSeq(s, Len(s) - 2 * PivotBars, Len(s))
             hs == tail(Highs(kept))
             ls == tail(Lows(kept))
             xs == tail(aux)
             onPrice == IF Fractal(hs) = "HIGH" THEN "highPrice"
                        ELSE IF Fractal(ls) = "LOW" THEN "lowPrice" ELSE "NONE"
             onMomentum == CASE Fractal(xs) = "HIGH" -> "highMomentum"
                             [] Fractal(xs) = "LOW" -> "lowMomentum"
                             [] OTHER -> "NONE"
             mid(s) == s[PivotBars + 1]
             looked == [highPrice |-> mid(hs), lowPrice |-> mid(ls),
                      highMomentum |-> mid(xs), lowMomentum |-> mid(xs)]
  <2>1. lists = [list \in PivotLists |->
             IF list \in {onPrice, onMomentum}
             THEN WithPivot(pivots[list], Candidate(kept, looked[list])) ELSE pivots[list]]
    BY <1>3, Zenon DEF UpdatedPivots, Highs, Lows
  <2>2. n >= 2 * PivotBars + 1
    BY <1>1, <1>3
  <2> SUFFICES ASSUME NEW list \in PivotLists
               PROVE  /\ lists[list] \in Seq(Sighting)
                      /\ \A p \in ToSet(lists[list]) : TrueOf(p, SeriesIn(list, kept, aux), n, list)
    BY <2>1
  <2>3. CASE list \notin {onPrice, onMomentum}
    <3>1. lists[list] = pivots[list]
      BY <2>1, <2>3, Zenon
    <3> QED
      BY <3>1
  <2>4. CASE list \in {onPrice, onMomentum}
    <3>1. lists[list] = WithPivot(pivots[list], Candidate(kept, looked[list]))
      BY <2>1, <2>4, Zenon
    <3>2. PICK s, w : /\ s \in Seq(Int) /\ n = Len(s) /\ w = SubSeq(s, n - 2 * PivotBars, n)
                      /\ s = SeriesIn(list, kept, aux)
                      /\ \/ list \in {"highPrice", "highMomentum"} /\ Fractal(w) = "HIGH"
                         \/ list \in {"lowPrice", "lowMomentum"} /\ Fractal(w) = "LOW"
                      /\ looked[list] = w[PivotBars + 1]
      <4>1. CASE list = "highPrice"
        <5>1. Fractal(hs) = "HIGH"
          BY <4>1, <2>4
        <5>2. SeriesIn(list, kept, aux) = Highs(kept)
          BY <4>1 DEF SeriesIn
        <5>3. looked[list] = hs[PivotBars + 1]
          BY <4>1
        <5> QED
          BY <4>1, <5>1, <5>2, <5>3, Zenon
      <4>2. CASE list = "lowPrice"
        <5>1. Fractal(ls) = "LOW"
          BY <4>2, <2>4
        <5>2. SeriesIn(list, kept, aux) = Lows(kept)
          BY <4>2 DEF SeriesIn
        <5>3. looked[list] = ls[PivotBars + 1]
          BY <4>2
        <5> QED
          BY <4>2, <5>1, <5>2, <5>3, Zenon
      <4>3. CASE list = "highMomentum"
        <5>1. Fractal(xs) = "HIGH"
          BY <4>3, <2>4
        <5>2. SeriesIn(list, kept, aux) = aux
          BY <4>3 DEF SeriesIn
        <5>3. looked[list] = xs[PivotBars + 1]
          BY <4>3
        <5> QED
          BY <4>3, <5>1, <5>2, <5>3, Zenon
      <4>4. CASE list = "lowMomentum"
        <5>1. Fractal(xs) = "LOW"
          BY <4>4, <2>4
        <5>2. SeriesIn(list, kept, aux) = aux
          BY <4>4 DEF SeriesIn
        <5>3. looked[list] = xs[PivotBars + 1]
          BY <4>4
        <5> QED
          BY <4>4, <5>1, <5>2, <5>3, Zenon
      <4> QED
        BY <4>1, <4>2, <4>3, <4>4 DEF PivotLists
    <3> HIDE DEF looked, onPrice, onMomentum, hs, ls, xs, tail
    <3>3. PICK pivot : pivot = Candidate(kept, looked[list])
      OBVIOUS
    <3>4. pivot.index = n - PivotBars /\ pivot.confirmed = n /\ pivot.value = w[PivotBars + 1]
      BY <3>2, <3>3 DEF Candidate
    <3>5. pivot.value \in Int /\ TrueOf(pivot, s, n, list)
      BY <2>2, <3>2, <3>4, TrueNow
    <3>6. pivot \in Sighting
      <4>1. pivot = [index |-> n - PivotBars, confirmed |-> n, value |-> looked[list]]
        BY <3>3, Zenon DEF Candidate
      <4>2. looked[list] \in Int /\ n - PivotBars \in Int /\ n \in Int
        BY <3>2, <3>4, <3>5, <1>1
      <4> QED
        BY <4>1, <4>2, Zenon DEF Sighting
    <3>7. pivots[list] \in Seq(Sighting)
      OBVIOUS
    <3>8. /\ WithPivot(pivots[list], pivot) \in Seq(Sighting)
          /\ \A p \in ToSet(WithPivot(pivots[list], pivot)) : p \in ToSet(pivots[list]) \/ p = pivot
      BY <3>6, <3>7, PivotAdded
    <3> QED
      BY <3>1, <3>2, <3>3, <3>5, <3>8, Zenon
  <2> QED
    BY <2>3, <2>4
<1> QED
  BY <1>2, <1>3

\* A divergence of the pivots names two of the prices and two of the momentum.
LEMMA DivergenceSees ==
  ASSUME NEW n, NEW lists \in [PivotLists -> Seq(Sighting)],
         \A list \in PivotLists : \A p \in ToSet(lists[list]) : p.confirmed <= n,
         NEW d, d = DivergenceByPivots(lists)
  PROVE  /\ d.kind # "NONE" => Len(d.pairs) = 2
         /\ \A i \in DOMAIN d.pairs : \A p \in ToSet(d.pairs[i]) : p \in Sighting /\ p.confirmed <= n
<1>1. \A list \in PivotLists : Len(lists[list]) >= 2 =>
        \A p \in ToSet(LastTwo(lists[list])) : p \in Sighting /\ p.confirmed <= n
  <2> SUFFICES ASSUME NEW list \in PivotLists, Len(lists[list]) >= 2
               PROVE  \A p \in ToSet(LastTwo(lists[list])) : p \in Sighting /\ p.confirmed <= n
    OBVIOUS
  <2>1. PICK s \in Seq(Sighting) : s = lists[list]
    OBVIOUS
  <2>2. PICK two : two = SubSeq(s, Len(s) - 1, Len(s))
    OBVIOUS
  <2>3. Len(s) \in Nat /\ Len(s) >= 2
    BY <2>1
  <2>4. DOMAIN two = 1 .. 2 /\ two[1] = s[Len(s) - 1] /\ two[2] = s[Len(s)]
    BY <2>2, <2>3
  <2>5. Len(s) - 1 \in DOMAIN s /\ Len(s) \in DOMAIN s
    BY <2>3
  <2>6. \A i \in DOMAIN two : two[i] \in Sighting /\ two[i] \in ToSet(s)
    BY <2>4, <2>5 DEF ToSet
  <2>7. \A p \in ToSet(two) : p \in Sighting /\ p \in ToSet(lists[list])
    BY <2>1, <2>6 DEF ToSet
  <2> QED
    BY <2>1, <2>2, <2>7, Zenon DEF LastTwo
<1>2. ASSUME NEW side, NEW one \in PivotLists, NEW other \in PivotLists,
             NEW e, e = PivotDivergence(side, lists[one], lists[other]), e.kind # "NONE"
      PROVE  /\ Len(e.pairs) = 2
             /\ \A i \in DOMAIN e.pairs : \A p \in ToSet(e.pairs[i]) : p \in Sighting /\ p.confirmed <= n
  <2> DEFINE p == LastTwo(lists[one])
             m == LastTwo(lists[other])
             k == PairKind(p[1].value, p[2].value, m[1].value, m[2].value, side)
  <2>1. ~(Len(lists[one]) < 2 \/ Len(lists[other]) < 2)
    <3>1. SUFFICES ASSUME Len(lists[one]) < 2 \/ Len(lists[other]) < 2 PROVE FALSE
      OBVIOUS
    <3>2. e = [kind |-> "NONE", pairs |-> <<>>]
      BY <1>2, <3>1, Zenon DEF PivotDivergence
    <3> QED
      BY <1>2, <3>2
  <2>2. e = [kind |-> k, pairs |-> <<p, m>>]
    BY <1>2, <2>1, Zenon DEF PivotDivergence
  <2>3. e.pairs = <<p, m>>
    <3> HIDE DEF p, m, k
    <3> QED
      BY <2>2
  <2>4. Len(lists[one]) >= 2 /\ Len(lists[other]) >= 2
    <3>1. Len(lists[one]) \in Nat /\ Len(lists[other]) \in Nat
      OBVIOUS
    <3> QED
      BY <3>1, <2>1
  <2>5. /\ \A x \in ToSet(p) : x \in Sighting /\ x.confirmed <= n
        /\ \A x \in ToSet(m) : x \in Sighting /\ x.confirmed <= n
    BY <1>1, <2>4, Zenon
  <2> HIDE DEF p, m, k
  <2>6. DOMAIN e.pairs = {1, 2} /\ Len(e.pairs) = 2 /\ e.pairs[1] = p /\ e.pairs[2] = m
    BY <2>3
  <2> QED
    BY <2>5, <2>6
<1> DEFINE high == PivotDivergence("HIGH", lists["highPrice"], lists["highMomentum"])
           low == PivotDivergence("LOW", lists["lowPrice"], lists["lowMomentum"])
<1>3. /\ "highPrice" \in PivotLists /\ "highMomentum" \in PivotLists
      /\ "lowPrice" \in PivotLists /\ "lowMomentum" \in PivotLists
  BY DEF PivotLists
<1>4. CASE high.kind # "NONE"
  <2>1. d = high
    BY <1>4, Zenon DEF DivergenceByPivots
  <2> QED
    <3>1. d = PivotDivergence("HIGH", lists["highPrice"], lists["highMomentum"]) /\ d.kind # "NONE"
      BY <1>4, <2>1
    <3> HIDE DEF high, low
    <3>2. /\ Len(d.pairs) = 2
          /\ \A i \in DOMAIN d.pairs : \A p \in ToSet(d.pairs[i]) : p \in Sighting /\ p.confirmed <= n
      BY <1>2, <1>3, <3>1, ZenonT(60)
    <3> QED
      BY <3>2
<1>5. CASE high.kind = "NONE" /\ low.kind # "NONE"
  <2>1. d = low
    BY <1>5, Zenon DEF DivergenceByPivots
  <2> QED
    <3>1. d = PivotDivergence("LOW", lists["lowPrice"], lists["lowMomentum"]) /\ d.kind # "NONE"
      BY <1>5, <2>1
    <3> HIDE DEF high, low
    <3>2. /\ Len(d.pairs) = 2
          /\ \A i \in DOMAIN d.pairs : \A p \in ToSet(d.pairs[i]) : p \in Sighting /\ p.confirmed <= n
      BY <1>2, <1>3, <3>1, ZenonT(60)
    <3> QED
      BY <3>2
<1>6. CASE high.kind = "NONE" /\ low.kind = "NONE"
  <2>1. d = [kind |-> "NONE", pairs |-> <<>>]
    BY <1>6, Zenon DEF DivergenceByPivots
  <2>2. d.kind = "NONE" /\ d.pairs = <<>>
    <3> HIDE DEF high, low
    <3> QED
      BY <2>1
  <2> QED
    BY <2>2
<1> QED
  BY <1>4, <1>5, <1>6, Zenon

\* What a built state says of a divergence is what it saw.
LEMMA BuiltHonestly ==
  ASSUME NEW c, NEW kept, NEW vels, NEW n, NEW lists \in [PivotLists -> Seq(Sighting)],
         \A list \in PivotLists : \A p \in ToSet(lists[list]) : p.confirmed <= n,
         NEW st, st = BuiltState(c, kept, vels, lists)
  PROVE  Honest(st, n) /\ st.disagree \in BOOLEAN
<1>1. PICK by : by = DivergenceByPivots(lists)
  OBVIOUS
<1>2. PICK div : div = Divergence(c.ols, by)
  OBVIOUS
<1>3. /\ by.kind # "NONE" => Len(by.pairs) = 2
      /\ \A i \in DOMAIN by.pairs : \A p \in ToSet(by.pairs[i]) : p \in Sighting /\ p.confirmed <= n
  BY <1>1, DivergenceSees
<1>4. /\ div.disagree \in BOOLEAN /\ div.method # "half"
      /\ div.kind # "NONE" /\ (div.disagree \/ div.method # "OLS") => Len(div.pairs) = 2
      /\ \A i \in DOMAIN div.pairs : \A p \in ToSet(div.pairs[i]) : p \in Sighting /\ p.confirmed <= n
  <2>1. CASE by.kind # "NONE"
    <3> DEFINE m == IF c.ols = by.kind THEN "BOTH" ELSE "PIVOT"
               g == c.ols \notin {"NONE", "CONVERGENCE"} /\ c.ols # by.kind
    <3>1. div = [kind |-> by.kind, pairs |-> by.pairs, method |-> m, disagree |-> g]
      BY <1>2, <2>1, Zenon DEF Divergence
    <3>2. g \in BOOLEAN
      OBVIOUS
    <3> HIDE DEF m, g
    <3>3. div.kind = by.kind /\ div.pairs = by.pairs /\ div.disagree = g /\ div.method = m
      BY <3>1
    <3>4. m # "half"
      BY DEF m
    <3> QED
      BY <1>3, <2>1, <3>2, <3>3, <3>4, Zenon
  <2>2. CASE by.kind = "NONE" /\ c.ols # "NONE"
    <3>1. div = [kind |-> c.ols, pairs |-> <<>>, method |-> "OLS", disagree |-> FALSE]
      BY <1>2, <2>2, Zenon DEF Divergence
    <3>2. DOMAIN div.pairs = {} /\ div.method = "OLS" /\ div.disagree = FALSE
          /\ div.method # "half"
      BY <3>1
    <3> QED
      BY <3>2, Zenon
  <2>3. CASE by.kind = "NONE" /\ c.ols = "NONE"
    <3>1. div = [kind |-> "NONE", pairs |-> <<>>, method |-> "NONE", disagree |-> FALSE]
      BY <1>2, <2>3, Zenon DEF Divergence
    <3>2. DOMAIN div.pairs = {} /\ div.kind = "NONE" /\ div.disagree = FALSE
          /\ div.method # "half"
      BY <3>1
    <3> QED
      BY <3>2, Zenon
  <2> QED
    BY <2>1, <2>2, <2>3
<1> DEFINE fs == IF vels < 2 THEN {} ELSE ImpulseFlags(c, lastVolume)
           q == MomentumQuality(c, Len(kept), vels, div)
<1>5. st = [q |-> q, flags |-> fs, kind |-> div.kind, method |-> div.method,
            pairs |-> div.pairs, disagree |-> div.disagree]
  BY <1>1, <1>2, Zenon DEF BuiltState
<1>6. "divergence" \notin fs
  BY DEF ImpulseFlags
<1>7. div.disagree => q \notin {"Q3", "Q4"}
  <2> SUFFICES ASSUME div.disagree PROVE q \notin {"Q3", "Q4"}
    OBVIOUS
  <2>1. div.disagree = TRUE
    BY <1>4
  <2> HIDE DEF fs
  <2> QED
    BY <2>1 DEF MomentumQuality
<1> HIDE DEF fs, q
<1>8. /\ st.q = q /\ st.flags = fs /\ st.kind = div.kind /\ st.method = div.method
      /\ st.pairs = div.pairs /\ st.disagree = div.disagree
  BY <1>5
<1>9. st.disagree \in BOOLEAN /\ (st.disagree <=> div.disagree)
  BY <1>4, <1>8, Zenon
<1>10. "divergence" \notin st.flags
  BY <1>6, <1>8, Zenon
<1>11. st.kind # "NONE" /\ (st.disagree \/ st.method # "OLS") => Len(st.pairs) = 2
  BY <1>4, <1>8, <1>9, Zenon
<1>12. st.disagree => st.q \notin {"Q3", "Q4"}
  BY <1>7, <1>8, <1>9, Zenon
<1>13. \A i \in DOMAIN st.pairs : \A p \in ToSet(st.pairs[i]) : p \in Sighting /\ p.confirmed <= n
  BY <1>4, <1>8, Zenon
<1> QED
  BY <1>4, <1>8, <1>9, <1>10, <1>11, <1>12, <1>13, Zenon DEF Honest

LEMMA MomentumStarts == MomentumInit => MomentumInv
<1> SUFFICES ASSUME MomentumInit PROVE MomentumInv
  OBVIOUS
<1>1. candlesKept = <<>> /\ auxByBar = <<>> /\ rsiHist = <<>> /\ fed \in Nat
  BY DEF MomentumInit
<1>2. pivots = [list \in PivotLists |-> <<>>]
  BY Zenon DEF MomentumInit
<1>3. ASSUME NEW st, st = MomentumRefusal("QX") PROVE Honest(st, 0) /\ st.disagree \in BOOLEAN
  <2>1. /\ st.flags = {} /\ st.kind = "NONE" /\ DOMAIN st.pairs = {} /\ st.disagree = FALSE
        /\ st.method # "half"
    BY <1>3 DEF MomentumRefusal
  <2> QED
    BY <2>1, Zenon DEF Honest
<1>4. lastState = MomentumRefusal("QX") /\ momentumState = MomentumRefusal("QX")
  BY DEF MomentumInit
<1>5. Len(candlesKept) = 0 /\ Len(auxByBar) = 0
  BY <1>1
<1>6. /\ Honest(lastState, 0) /\ Honest(momentumState, 0)
      /\ lastState.disagree \in BOOLEAN /\ momentumState.disagree \in BOOLEAN
  BY <1>3, <1>4
<1>7. \A list \in PivotLists : \A p \in ToSet(pivots[list]) : FALSE
  BY <1>2 DEF ToSet
<1>8. pivots \in [PivotLists -> Seq(Sighting)]
  BY <1>2
<1> QED
  BY <1>1, <1>5, <1>6, <1>7, <1>8 DEF MomentumInv

LEMMA HonestLater ==
  ASSUME NEW st, NEW n \in Int, NEW m \in Int, n <= m, Honest(st, n)
  PROVE  Honest(st, m)
<1>1. \A i \in DOMAIN st.pairs : \A p \in ToSet(st.pairs[i]) : p \in Sighting /\ p.confirmed <= m
  <2> TAKE i \in DOMAIN st.pairs
  <2> TAKE p \in ToSet(st.pairs[i])
  <2>1. p \in Sighting /\ p.confirmed <= n
    BY DEF Honest
  <2>2. p.confirmed \in Int
    BY <2>1 DEF Sighting
  <2> QED
    BY <2>1, <2>2
<1> QED
  BY <1>1, Zenon DEF Honest

LEMMA MomentumTaken ==
  ASSUME MomentumInv, NEW c \in MomentumCandles, Accepted(c), fed' \in Nat
  PROVE  MomentumInv'
<1> DEFINE kept == Append(candlesKept, c)
           readings == rsiHist'
           aux == auxByBar'
           lists == pivots'
           n == Len(kept)
<1>1. /\ candlesKept \in Seq(MomentumCandles) /\ auxByBar \in Seq(Int) /\ rsiHist \in Seq(Int)
      /\ Len(auxByBar) = Len(candlesKept)
  BY DEF MomentumInv
<1>2. c.h \in Int /\ c.l \in Int /\ c.rsi \in Int
  BY MomentumBounds DEF MomentumCandles
<1>3. candlesKept' = kept
  BY Zenon DEF Accepted
<1>4. rsiHist' \in Seq(Int)
  <2>1. rsiHist' = Append(rsiHist, c.rsi) \/ rsiHist' = rsiHist
    BY Zenon DEF Accepted
  <2>2. Append(rsiHist, c.rsi) \in Seq(Int)
    BY <1>1, <1>2
  <2> QED
    BY <1>1, <2>1, <2>2, Zenon
<1>5. PICK x \in Int : auxByBar' = Append(auxByBar, x)
  <2>1. AuxValue(rsiHist') \in Int
    <3>1. PICK r \in Seq(Int) : r = rsiHist'
      BY <1>4
    <3>2. CASE r = <<>>
      <4>1. AuxValue(r) = NoReading
        BY <3>2, Zenon DEF AuxValue
      <4> QED
        BY <3>1, <4>1 DEF NoReading
    <3>3. CASE r # <<>>
      <4>1. AuxValue(r) = r[Len(r)]
        BY <3>3, Zenon DEF AuxValue, Last
      <4>2. r[Len(r)] \in Int
        BY <3>3
      <4> QED
        BY <3>1, <4>1, <4>2
    <3> QED
      BY <3>2, <3>3
  <2>2. auxByBar' = Append(auxByBar, AuxValue(rsiHist'))
    BY Zenon DEF Accepted
  <2> QED
    BY <2>1, <2>2
<1>6. pivots' = UpdatedPivots(kept, auxByBar')
  BY Zenon DEF Accepted
<1>7. /\ kept \in Seq(MomentumCandles) /\ n = Len(candlesKept) + 1 /\ n \in Nat
      /\ \A i \in 1 .. Len(candlesKept) : kept[i] = candlesKept[i]
  BY <1>1
<1>8. /\ aux \in Seq(Int) /\ Len(aux) = n
      /\ \A i \in 1 .. Len(candlesKept) : aux[i] = auxByBar[i]
  BY <1>1, <1>5, <1>7
<1>9. \A w \in Seq(MomentumCandles) :
         /\ Highs(w) \in Seq(Int) /\ Lows(w) \in Seq(Int)
         /\ Len(Highs(w)) = Len(w) /\ Len(Lows(w)) = Len(w)
         /\ \A i \in 1 .. Len(w) : Highs(w)[i] = w[i].h /\ Lows(w)[i] = w[i].l
  <2> TAKE w \in Seq(MomentumCandles)
  <2>1. \A i \in 1 .. Len(w) : w[i].h \in Int /\ w[i].l \in Int
    <3>1. \A i \in 1 .. Len(w) : w[i] \in MomentumCandles
      OBVIOUS
    <3>2. \A b \in MomentumCandles : b.h \in Int /\ b.l \in Int
      <4> TAKE b \in MomentumCandles
      <4>1. PICK k \in DOMAIN MomentumTape : b \in MomentumTape[k]
        BY Zenon DEF MomentumCandles
      <4> QED
        BY <4>1, MomentumBounds, SMTT(40)
    <3> QED
      BY <3>1, <3>2
  <2>2. DOMAIN w = 1 .. Len(w) /\ Len(w) \in Nat
    OBVIOUS
  <2>3. /\ Highs(w) = [i \in 1 .. Len(w) |-> w[i].h]
        /\ Lows(w) = [i \in 1 .. Len(w) |-> w[i].l]
    BY <2>2, Zenon DEF Highs, Lows
  <2> QED
    BY <2>1, <2>2, <2>3
<1>10. \A list \in PivotLists : \A p \in ToSet(pivots[list]) : TrueOf(p, SeriesIn(list, kept, aux), n, list)
  <2> TAKE list \in PivotLists
  <2> TAKE p \in ToSet(pivots[list])
  <2>1. p \in Sighting
    <3>1. pivots[list] \in Seq(Sighting)
      BY DEF MomentumInv
    <3> QED
      BY <3>1 DEF ToSet
  <2>2. TrueOf(p, SeriesIn(list, candlesKept, auxByBar), Len(candlesKept), list)
    BY DEF MomentumInv
  <2>3. \A i \in 1 .. Len(candlesKept) :
           SeriesIn(list, kept, aux)[i] = SeriesIn(list, candlesKept, auxByBar)[i]
    <3> TAKE i \in 1 .. Len(candlesKept)
    <3>1. /\ Highs(kept)[i] = Highs(candlesKept)[i] /\ Lows(kept)[i] = Lows(candlesKept)[i]
          /\ aux[i] = auxByBar[i]
      <4>1. i \in 1 .. Len(kept) /\ kept[i] = candlesKept[i]
        BY <1>1, <1>7
      <4> QED
        BY <1>1, <1>7, <1>8, <1>9, <4>1, ZenonT(60)
    <3> QED
      BY <3>1, Zenon DEF SeriesIn
  <2> HIDE DEF kept, aux, n
  <2>4. Len(candlesKept) \in Nat /\ Len(candlesKept) <= n
    BY <1>1, <1>7
  <2>5. n \in Nat
    BY <1>7
  <2>6. PICK m : m = Len(candlesKept)
    OBVIOUS
  <2>7. PICK s : s = SeriesIn(list, candlesKept, auxByBar)
    OBVIOUS
  <2>8. PICK t : t = SeriesIn(list, kept, aux)
    OBVIOUS
  <2>9. m \in Nat /\ m <= n /\ TrueOf(p, s, m, list) /\ \A i \in 1 .. m : t[i] = s[i]
    BY <2>2, <2>3, <2>4, <2>6, <2>7, <2>8, Zenon
  <2>10. TrueOf(p, t, n, list)
    BY <2>1, <2>5, <2>9, TrueLater, Zenon
  <2> QED
    BY <2>8, <2>10, Zenon
<1>11. /\ lists \in [PivotLists -> Seq(Sighting)]
       /\ \A list \in PivotLists : \A p \in ToSet(lists[list]) :
            TrueOf(p, SeriesIn(list, kept, aux), n, list)
  <2>1. pivots \in [PivotLists -> Seq(Sighting)]
    BY DEF MomentumInv
  <2> HIDE DEF kept, aux, n, lists
  <2>2. lists = UpdatedPivots(kept, aux)
    BY <1>6 DEF kept, aux, lists
  <2>3. n = Len(kept)
    BY DEF n
  <2> QED
    BY <1>7, <1>8, <1>9, <1>10, <2>1, <2>2, <2>3, PivotsStayTrue
<1>12. /\ Honest(lastState', n) /\ lastState'.disagree \in BOOLEAN
       /\ Honest(momentumState', n) /\ momentumState'.disagree \in BOOLEAN
  <2>1. /\ Honest(lastState, n) /\ lastState.disagree \in BOOLEAN
        /\ Honest(momentumState, n) /\ momentumState.disagree \in BOOLEAN
    <3>1. /\ Honest(lastState, Len(candlesKept)) /\ Honest(momentumState, Len(candlesKept))
          /\ lastState.disagree \in BOOLEAN /\ momentumState.disagree \in BOOLEAN
      BY DEF MomentumInv
    <3>2. Len(candlesKept) \in Int /\ n \in Int /\ Len(candlesKept) <= n
      BY <1>1, <1>7
    <3> HIDE DEF n
    <3> QED
      BY <3>1, <3>2, HonestLater
  <2>2. \A list \in PivotLists : \A p \in ToSet(lists[list]) : p.confirmed <= n
    BY <1>11 DEF TrueOf
  <2>3. PICK vels : lastState' \in {lastState, BuiltState(c, kept, vels, lists)}
                    /\ momentumState' \in {lastState', momentumState}
    <3>1. \/ lastState' = BuiltState(c, kept, IF Seeded(sinceReset') THEN velocities + 1 ELSE velocities,
                                     lists)
             /\ momentumState' = lastState'
          \/ lastState' = lastState /\ momentumState' = momentumState
      BY <1>3, <1>6, Zenon DEF Accepted
    <3> QED
      BY <3>1
  <2> HIDE DEF kept, n, lists
  <2>4. ASSUME NEW st, st = BuiltState(c, kept, vels, lists) PROVE Honest(st, n) /\ st.disagree \in BOOLEAN
    BY <1>11, <2>2, <2>4, BuiltHonestly
  <2> QED
    BY <2>1, <2>3, <2>4
<1> HIDE DEF kept, aux, lists, n
<1>13. candlesKept' = kept /\ n = Len(candlesKept')
  BY <1>3 DEF n
<1> QED
  BY <1>4, <1>7, <1>8, <1>11, <1>12, <1>13, Zenon DEF MomentumInv, aux, lists

LEMMA MomentumGoesOn == MomentumInv /\ [MomentumNext]_momentumVars => MomentumInv'
<1> SUFFICES ASSUME MomentumInv, [MomentumNext]_momentumVars PROVE MomentumInv'
  OBVIOUS
<1>1. CASE UNCHANGED momentumVars
  BY <1>1 DEF MomentumInv, momentumVars
<1>2. ASSUME MomentumNext PROVE MomentumInv'
  <2>1. PICK c \in MomentumTape[fed + 1] : Repeated(c) \/ Discarded(c) \/ Accepted(c)
    BY <1>2 DEF MomentumNext, MomentumCandle
  <2>2. c \in MomentumCandles
    <3>1. fed \in Nat /\ fed < Len(MomentumTape)
      BY <1>2 DEF MomentumNext, MomentumCandle, MomentumInv
    <3>2. fed + 1 \in DOMAIN MomentumTape
      BY <3>1, MomentumBounds
    <3> QED
      BY <2>1, <3>2 DEF MomentumCandles
  <2>3. CASE Repeated(c)
    <3>1. momentumState' \in {momentumState, lastState}
      BY <2>3 DEF Repeated
    <3>2. fed' \in Nat
      BY <1>2 DEF MomentumNext, MomentumCandle, MomentumInv
    <3> QED
      BY <2>3, <3>1, <3>2 DEF MomentumInv, Repeated
  <2>4. CASE Discarded(c)
    <3>1. momentumState' = MomentumRefusal("Q0")
      BY <2>4, Zenon DEF Discarded
    <3>2. Honest(momentumState', Len(candlesKept)) /\ momentumState'.disagree \in BOOLEAN
      <4>1. PICK st : st = momentumState'
        OBVIOUS
      <4>2. /\ st.flags = {} /\ st.kind = "NONE" /\ DOMAIN st.pairs = {} /\ st.disagree = FALSE
            /\ st.method # "half"
        BY <3>1, <4>1 DEF MomentumRefusal
      <4> QED
        BY <4>1, <4>2, Zenon DEF Honest
    <3>3. fed' \in Nat
      BY <1>2 DEF MomentumNext, MomentumCandle, MomentumInv
    <3> QED
      BY <2>4, <3>2, <3>3 DEF MomentumInv, Discarded
  <2>5. CASE Accepted(c)
    <3>1. fed' \in Nat
      BY <1>2 DEF MomentumNext, MomentumCandle, MomentumInv
    <3> QED
      BY <2>2, <2>5, <3>1, MomentumTaken
  <2> QED
    BY <2>1, <2>3, <2>4, <2>5
<1> QED
  BY <1>1, <1>2

\* Every recorded pivot is the extreme of its own window and known when that closes,
\* and a divergence names pivots known by then (_update_pivots, catalog_events).
THEOREM PivotsAreReal == MomentumSpec => []PivotsAreWhereTheyAre
<1>1. MomentumInv => PivotsAreWhereTheyAre
  <2> SUFFICES ASSUME MomentumInv PROVE PivotsAreWhereTheyAre
    OBVIOUS
  <2>1. \A list \in PivotLists : SeriesOf(list) = SeriesIn(list, candlesKept, auxByBar)
    BY Zenon DEF SeriesOf, SeriesIn, Highs, Lows
  <2>2. \A list \in PivotLists : \A p \in ToSet(pivots[list]) :
          TrueOf(p, SeriesOf(list), Len(candlesKept), list)
    BY <2>1 DEF MomentumInv
  <2>3. /\ Honest(lastState, Len(candlesKept)) /\ Honest(momentumState, Len(candlesKept))
        /\ momentumState.disagree \in BOOLEAN
    BY DEF MomentumInv
  <2>4. \A list \in PivotLists : \A p \in ToSet(pivots[list]) :
       /\ p.confirmed = p.index + PivotBars /\ p.confirmed <= Len(candlesKept)
       /\ p.value = SeriesOf(list)[p.index] /\ p.value # NoReading
       /\ \A i \in p.index - PivotBars .. p.confirmed :
            IF list \in {"highPrice", "highMomentum"}
            THEN SeriesOf(list)[i] <= p.value ELSE SeriesOf(list)[i] >= p.value
    BY <2>2, Zenon DEF TrueOf
  <2>5. \A i \in DOMAIN lastState.pairs : \A p \in ToSet(lastState.pairs[i]) : p.confirmed <= Len(candlesKept)
    BY <2>3, Zenon DEF Honest
  <2>6. ASSUME NEW row \in MomentumRows(momentumState), row.code = "divergence"
        PROVE  /\ row.conf # "OLS" => Len(momentumState.pairs) = 2
               /\ row.conf = "half" => row.fate = "CANDIDATE"
    <3> DEFINE codes == IF momentumState.q \in {"QX", "Q0"} THEN {}
                        ELSE momentumState.flags \cup {x \in {"divergence"} : momentumState.kind # "NONE"}
               fate == IF momentumState.q \in {"Q3", "Q4"} THEN "ACTIVE" ELSE "CANDIDATE"
               conf(code) == IF code # "divergence" THEN momentumState.q
                             ELSE IF momentumState.disagree THEN "half" ELSE momentumState.method
    <3>1. PICK code \in codes : row = [code |-> code, fate |-> fate, conf |-> conf(code)]
      BY Zenon DEF MomentumRows
    <3>2. code = "divergence" /\ row.fate = fate /\ row.conf = conf(code)
      <4> HIDE DEF fate, conf
      <4> QED
        BY <2>6, <3>1
    <3>3. momentumState.kind # "NONE"
      BY <2>3, <3>2 DEF Honest
    <3>4. CASE momentumState.disagree
      <4>1. fate = "CANDIDATE"
        BY <2>3, <3>4, Zenon DEF Honest
      <4>2. Len(momentumState.pairs) = 2
        BY <2>3, <3>3, <3>4, Zenon DEF Honest
      <4> QED
        BY <3>2, <4>1, <4>2, Zenon
    <3>5. CASE ~momentumState.disagree
      <4>1. row.conf = momentumState.method
        BY <3>2, <3>5, Zenon
      <4>2. momentumState.method # "OLS" => Len(momentumState.pairs) = 2
        BY <2>3, <3>3, Zenon DEF Honest
      <4>3. momentumState.method # "half"
        BY <2>3, Zenon DEF Honest
      <4> QED
        BY <4>1, <4>2, <4>3, Zenon
    <3> QED
      BY <3>4, <3>5
  <2> QED
    BY <2>4, <2>5, <2>6, Zenon DEF PivotsAreWhereTheyAre
<1> QED
  BY <1>1, MomentumStarts, MomentumGoesOn, PTL DEF MomentumSpec

-----------------------------------------------------------------------------
\* Whatever each engine is fed, what it keeps from bar to bar stays whole.
THEOREM BooksStayWhole ==
  FvgSpec /\ WyckoffSpec /\ LiquiditySpec /\ MomentumSpec /\ VolumeSpec => []BooksAreWhole
<1>1. /\ ZonesAreApart /\ ActsBelongToOneRange /\ ExtremesAreOfThisWindow
      /\ PivotsAreWhereTheyAre /\ MeasuredAgainstItsPast
      => BooksAreWhole
  BY DEF BooksAreWhole
<1> QED
  BY <1>1, ActiveZonesAreApart, ActsRestOnTheirRange, ExtremesAreItsOwn, PivotsAreReal,
     PastIsAccepted, PTL
=============================================================================
