------------------------------- MODULE FvgEngine -------------------------------
(***************************************************************************)
(* E05, fair value gaps (engines/e05_fvg/engine.py): a gap between the     *)
(* first and the third of three bars is a zone; later bars touch, mitigate *)
(* and fill it, age expires it, and overlapping zones of one direction     *)
(* merge.  process_bar is one step.                                        *)
(*                                                                         *)
(* Prices are integers and the minimum width is one constant; salience,    *)
(* freshness and the kind of gap carry no control and are left out (the    *)
(* freshness bound lies beyond the age bound).                             *)
(***************************************************************************)
EXTENDS Integers, Sequences, FiniteSets, FiniteSetsExt

CONSTANTS
  FvgTape,     \* sets of bars that may close as n-th: records h, l, c
  MinWidth,    \* larger of min_width_atr * ATR and min_abs_ticks * tick_size
  MaxAge       \* max_age_bars

ASSUME FvgBounds ==
  /\ {MinWidth, MaxAge} \subseteq Nat \ {0}
  /\ FvgTape \in Seq(SUBSET [l : Nat, h : Nat, c : Nat])

MergePercent == 70    \* iou_merge_thr
MitigatePercent == 50 \* mit_activate

VARIABLES
  fvgBars,   \* the bars processed
  zones,     \* active_fvgs
  pastZones  \* history: zones taken out of active_fvgs, as they were then

fvgVars == <<fvgBars, zones, pastZones>>

-----------------------------------------------------------------------------
\* detect_fvg_at: the zone [H of the first, L of the third] or its mirror.
Detected(w) ==
  LET n == Len(w)
      Zone(dir, lo, hi) == [ dir |-> dir, lo |-> lo, hi |-> hi, born |-> n, age |-> 0,
                             touches |-> 0, depth |-> 0, fate |-> "FRESH", filled |-> FALSE ]
      gaps == IF n < 3 THEN {}
              ELSE (IF w[n - 2].h < w[n].l THEN {Zone("UP", w[n - 2].h, w[n].l)} ELSE {})
                   \cup (IF w[n - 2].l > w[n].h THEN {Zone("DOWN", w[n].h, w[n - 2].l)} ELSE {})
  IN {z \in gaps : z.hi - z.lo >= MinWidth}

Overlap(a, b) == Max({0, Min({a.hi, b.hi}) - Max({a.lo, b.lo})})
Inside(a, b) == b.lo <= a.lo /\ a.hi <= b.hi

\* process_bar step 2 of a zone born before this bar: mitigation, then expiry,
\* which is decided whatever the mitigation has made of the zone.
Worked(z, bar) ==
  LET touch == bar.h >= z.lo /\ bar.l <= z.hi
      covered == Overlap(z, [lo |-> bar.l, hi |-> bar.h])
      depth == IF touch THEN (100 * covered) \div (z.hi - z.lo) ELSE 0
      fate == IF ~touch THEN z.fate
              ELSE IF depth = 100 THEN "FILLED"
              ELSE IF depth >= MitigatePercent /\ z.fate \in {"FRESH", "TOUCHED"} THEN "MITIGATED"
              ELSE IF z.fate = "FRESH" THEN "TOUCHED" ELSE z.fate
  IN [ z EXCEPT !.age = @ + 1, !.touches = IF touch THEN @ + 1 ELSE @,
         !.depth = Max({@, depth}), !.filled = touch /\ depth = 100,
         !.fate = IF z.age + 1 >= MaxAge THEN "EXPIRED" ELSE fate ]

\* iou_of above the threshold, or one zone within the other.
MustMerge(a, b) ==
  /\ a.dir = b.dir
  /\ \/ Inside(a, b) \/ Inside(b, a)
     \/ 100 * Overlap(a, b) > MergePercent * (Max({a.hi, b.hi}) - Min({a.lo, b.lo}))

\* The older zone takes the hull and keeps its own life; the other one is gone.
Merged(a, b) ==
  LET base == IF a.born <= b.born THEN a ELSE b
  IN [base EXCEPT !.lo = Min({a.lo, b.lo}), !.hi = Max({a.hi, b.hi})]

\* Mutant of MergeOverlaps: one pass, which does not look again at the hull.
MergedInOnePass(zs) ==
  LET pairs == {p \in zs \X zs : p[1] # p[2] /\ MustMerge(p[1], p[2])}
  IN IF pairs = {} THEN zs
     ELSE LET p == CHOOSE p \in pairs : TRUE IN (zs \ {p[1], p[2]}) \cup {Merged(p[1], p[2])}

\* _merge_overlaps: of one direction, by lower edge, neighbours that have to be one.
Neighbours(zs) ==
  {p \in zs \X zs : /\ p[1] # p[2] /\ p[1].lo <= p[2].lo /\ MustMerge(p[1], p[2])
                    /\ ~\E o \in zs \ {p[1], p[2]} :
                          o.dir = p[1].dir /\ p[1].lo < o.lo /\ o.lo < p[2].lo}

\* The first pair from below is merged.
MergeFirst(zs) ==
  LET pairs == Neighbours(zs)
      first == Min({p[1].lo : p \in pairs})
      p == CHOOSE p \in pairs : p[1].lo = first
  IN IF pairs = {} THEN zs ELSE (zs \ {p[1], p[2]}) \cup {Merged(p[1], p[2])}

\* From the start again after every merge, until no two neighbours have to be one.
MergeOverlaps(zs) ==
  LET round[n \in 0..Cardinality(zs)] == IF n = 0 THEN zs ELSE MergeFirst(round[n - 1])
  IN round[Cardinality(zs)]

-----------------------------------------------------------------------------
FvgInit == fvgBars = <<>> /\ zones = {} /\ pastZones = {}

\* process_bar: detect, work the older zones, take out the ended, merge.
ProcessBar(b) ==
  LET w == Append(fvgBars, b)
      worked == {Worked(z, b) : z \in zones}
      ended == {z \in worked : z.filled \/ z.fate \in {"FILLED", "EXPIRED"}}
  IN /\ fvgBars' = w
     /\ zones' = MergeOverlaps((worked \ ended) \cup Detected(w))
     /\ pastZones' = pastZones \cup ended

FvgNext ==
  \E n \in {n \in 1..Len(FvgTape) : n = Len(fvgBars) + 1} : \E b \in FvgTape[n] : ProcessBar(b)

-----------------------------------------------------------------------------
\* After a bar no two active zones of one direction overlap by more than the
\* threshold or contain each other, however many merges that took.
ZonesAreApart ==
  \A a, b \in zones : a # b => ~MustMerge(a, b)

\* A zone some bar has filled ends as FILLED.
FilledZonesEndFilled ==
  \A z \in pastZones : z.filled => z.fate = "FILLED"
=============================================================================
