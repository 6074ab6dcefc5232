---------------------------- MODULE OrderBlockEngine ----------------------------
(***************************************************************************)
(* E06, order blocks (engines/e06_orderblock/engine.py): a block is found  *)
(* at the bar a displacement leaves from, confirmed some bars later, and   *)
(* then retested, mitigated, invalidated, expired, merged into a stronger  *)
(* one, or converted (breaker, mitigation block).  run_full goes over the  *)
(* window bar by bar and stops DispMaxK + 1 bars before its end; adding a  *)
(* bar to the window therefore works the bar that many places back.        *)
(*                                                                         *)
(* Prices are integers in which the average true range is BlockAtr.  The   *)
(* evidence of other engines is part of a bar: volume, a structure event   *)
(* and a fair value gap near it.                                           *)
(***************************************************************************)
EXTENDS Integers, Sequences, FiniteSets, SequencesExt, FiniteSetsExt

CONSTANTS
  BlockTape,   \* sets of bars that may close as n-th: o, h, l, c, loud, bos, gap
  BlockAtr,
  DispMaxK,    \* disp_max_k
  MaxBlockAge  \* max_age_bars

ASSUME BlockBounds ==
  /\ {BlockAtr, DispMaxK, MaxBlockAge} \subseteq Nat \ {0}
  /\ \A n \in 1..Len(BlockTape) : \A b \in BlockTape[n] : {b.o, b.h, b.l, b.c} \subseteq Int

ZoneTol == (3 * BlockAtr) \div 20
InvTol == BlockAtr \div 5
MergeBars == 20
HistoryLooked == 20

VARIABLES
  blockBars,    \* the window
  active,       \* active_obs, strongest first
  ended,        \* history
  made          \* names of the blocks ever created

blockVars == <<blockBars, active, ended, made>>

-----------------------------------------------------------------------------
Width(b) == b.hi - b.lo
Common(a, b) == Max({0, Min({a.hi, b.hi}) - Max({a.lo, b.lo})})
Iou70(a, b) == 100 * Common(a, b) > 70 * (Width(a) + Width(b) - Common(a, b))

\* The first structure event of the displacement's direction the caller hands
\* over (bars origin .. origin + 2), as the number of bars after the origin.
StructureAfter(w, i, dir) ==
  {k \in 1..Min({DispMaxK, 2}) : i + k <= Len(w) /\ w[i + k].bos = dir}

\* The displacement is summed up to the structure event, or over DispMaxK bars
\* when there is none.
Displacement(w, i, struct) ==
  LET last == IF struct = {} THEN Min({DispMaxK, Len(w) - i}) ELSE Min(struct)
      travel == [k \in 1..last |-> w[i + k].h - w[i + k].l]
  IN MapThenSumSet(LAMBDA k : travel[k], 1..last)

Salience(disp, struct, loud) ==
  35 * Min({disp, 3 * BlockAtr}) + (IF struct = {} THEN 8 ELSE 25) * BlockAtr
  + (IF loud THEN 25 ELSE 10) * BlockAtr

\* asymmetric_zone, widened.
ZoneOf(o, dir) ==
  IF dir = "UP" THEN [lo |-> o.l - ZoneTol, hi |-> Min({o.o, o.c}) + ZoneTol]
  ELSE [lo |-> Max({o.o, o.c}) - ZoneTol, hi |-> o.h + ZoneTol]

\* detect_at: is there a block at the bar before a displacement, and which;
\* without a structure event it is confirmed after one bar.
IsBlockAt(w, i, dir, disp) ==
  LET o == w[i]
      zone == ZoneOf(o, dir)
  IN /\ 100 * (IF o.c > o.o THEN o.c - o.o ELSE o.o - o.c) >= 55 * (o.h - o.l)
     /\ (dir = "UP") = (o.c < o.o)
     /\ 2 * disp >= 3 * BlockAtr
     /\ 20 * (zone.hi - zone.lo) >= 3 * BlockAtr /\ zone.lo < zone.hi
     /\ ~\E x \in ToSet(active) : x.dir = dir /\ x.origin - i \in (-1)..1
BlockAt(w, i, dir, struct, disp) ==
  LET zone == ZoneOf(w[i], dir)
      context == w[i + 1].loud /\ (w[i].gap = dir \/ 10 * disp >= 18 * BlockAtr)
  IN [ name |-> <<i, dir>>, dir |-> dir, lo |-> zone.lo, hi |-> zone.hi, origin |-> i,
       confirmed |-> i + (IF struct = {} THEN 1 ELSE Min(struct)),
       kind |-> "ENTRY", age |-> 0, touches |-> 0, depth |-> 0,
       fate |-> IF context /\ struct # {} THEN "ACTIVE" ELSE "CANDIDATE",
       salience |-> Salience(disp, struct, w[i + 1].loud) ]
DirectionAt(w, i) == IF w[i + 1].c > w[i + 1].o THEN "UP" ELSE "DOWN"
DetectedAt(w, i) ==
  LET dir == DirectionAt(w, i)
      struct == StructureAfter(w, i, dir)
      disp == Displacement(w, i, struct)
  IN IF IsBlockAt(w, i, dir, disp) THEN <<BlockAt(w, i, dir, struct, disp)>> ELSE <<>>

ClosedThrough(b, bar) ==
  IF b.dir = "UP" THEN bar.c < b.lo - InvTol ELSE bar.c > b.hi + InvTol

\* update_with_bar of one block that was confirmed before the bar.
WorkedBlock(b, w, i) ==
  LET bar == w[i]
      prev == w[i - 1].c
      touch == bar.l <= b.hi /\ bar.h >= b.lo
      side == b.touches > 0 \/ (IF b.dir = "UP" THEN prev > b.hi ELSE prev < b.lo)
      depth == (100 * Common(b, [lo |-> bar.l, hi |-> bar.h])) \div Width(b)
      fate == IF ~(touch /\ side) THEN b.fate
              ELSE IF depth >= 50 THEN "MITIGATED"
              ELSE IF b.touches = 0 THEN "RETESTED" ELSE b.fate
  IN IF i <= b.confirmed THEN b
     ELSE IF ClosedThrough(b, bar) THEN [b EXCEPT !.age = @ + 1, !.fate = "INVALIDATED"]
     ELSE [ b EXCEPT !.age = @ + 1, !.touches = IF touch /\ side THEN @ + 1 ELSE @,
              !.depth = IF touch /\ side THEN depth ELSE @,
              !.fate = IF b.age + 1 >= MaxBlockAge THEN "EXPIRED" ELSE fate ]

Dead(b) == b.fate \in {"INVALIDATED", "EXPIRED"}
Reborn(b, kind, dir, i, percent) ==
  [ b EXCEPT !.name = Append(@, kind), !.dir = dir, !.kind = kind, !.origin = i, !.confirmed = i,
      !.age = 0, !.touches = 0, !.depth = 0, !.fate = "ACTIVE", !.salience = (percent * @) \div 100 ]

\* _detect_breaker_conversion: an invalidated block reclaimed by the bar.
Reclaimed(b, bar) ==
  /\ b.fate = "INVALIDATED" /\ b.kind # "BREAKER"
  /\ IF b.dir = "UP" THEN bar.c > b.hi + InvTol /\ bar.l <= b.hi
     ELSE bar.c < b.lo - InvTol /\ bar.h >= b.lo
Breaker(b, i) == Reborn(b, "BREAKER", IF b.dir = "UP" THEN "DOWN" ELSE "UP", i, 90)

\* _detect_mitigation_block: a mitigated block price has left.
Left(b, bar) == b.fate = "MITIGATED" /\ (bar.c > b.hi + InvTol \/ bar.c < b.lo - InvTol)

\* What stands at some places of a list, ordered by the rank of the places.
Arranged(list, rank) ==
  [n \in 1..Cardinality(DOMAIN rank) |-> list[CHOOSE i \in DOMAIN rank : rank[i] = n]]

\* What stands at some places, as it stood.
Picked(list, places) == Arranged(list, [i \in places |-> Cardinality({j \in places : j <= i})])

\* The strongest first, the equally strong as they stood.
Stronger(list, i, j) ==
  \/ list[i].salience > list[j].salience
  \/ list[i].salience = list[j].salience /\ i <= j
Sorted(blocks) ==
  Arranged(blocks, [i \in DOMAIN blocks |-> Cardinality({j \in DOMAIN blocks : Stronger(blocks, j, i)})])

\* _merge_overlapping: a block goes when a stronger one that stays overlaps it.
Staying(sorted) ==
  LET stays[n \in 1..Len(sorted)] ==
        ~\E m \in 1..(n - 1) :
           /\ stays[m] /\ sorted[m].dir = sorted[n].dir /\ Iou70(sorted[m], sorted[n])
           /\ sorted[m].origin - sorted[n].origin \in (-MergeBars)..MergeBars
  IN {n \in 1..Len(sorted) : stays[n]}
Kept(sorted) == Picked(sorted, Staying(sorted))
MergedAway(sorted) == Picked(sorted, (DOMAIN sorted) \ Staying(sorted))

DeadIn(blocks) == {n \in DOMAIN blocks : Dead(blocks[n])}

\* Mutant of Removed: the ended blocks go to history whether or not the merge
\* has already put them there.
RemovedTwice(blocks, kept) == Picked(blocks, DeadIn(blocks))

\* The blocks that ended at this bar and are still in active_obs.
Removed(blocks, kept) == Picked(kept, DeadIn(kept))

NamesOf(blocks) == {blocks[n].name : n \in DOMAIN blocks}

-----------------------------------------------------------------------------
BlockInit == blockBars = <<>> /\ active = <<>> /\ ended = <<>> /\ made = {}

Fated(b, fate) == [b EXCEPT !.fate = fate]
AllFated(blocks, fate) == [n \in 1..Len(blocks) |-> Fated(blocks[n], fate)]

WorkedBlocks(blocks, w, i) == [n \in 1..Len(blocks) |-> WorkedBlock(blocks[n], w, i)]

\* The last ended blocks the bar reclaims, and the breakers made of them.
ClaimedBy(bar) ==
  {n \in (Max({0, Len(ended) - HistoryLooked}) + 1)..Len(ended) : Reclaimed(ended[n], bar)}
Breakers(taken, i) == [n \in 1..Len(taken) |-> Breaker(taken[n], i)]
Consumed(claimed) ==
  [n \in 1..Len(ended) |-> IF n \in claimed THEN Fated(ended[n], "MERGED") ELSE ended[n]]

\* The mitigated blocks price leaves at the bar, and what they become.
LeavingAt(worked, bar) == {n \in DOMAIN worked : Left(worked[n], bar)}
MitigationBlocks(left, i) ==
  [n \in 1..Len(left) |-> Reborn(left[n], "MITIGATION", left[n].dir, i, 80)]

\* run_full at bar i: detect, then update_with_bar in the code's order.
WorkBar(w, i) ==
  LET found == DetectedAt(w, i)
      blocks == active \o found
      worked == WorkedBlocks(blocks, w, i)
      claimed == ClaimedBy(w[i])
      breakers == Breakers(Picked(ended, claimed), i)
      leaving == LeavingAt(worked, w[i])
      left == Picked(worked, leaving)
      reborn == MitigationBlocks(left, i)
      sorted == Sorted(Picked(worked, (DOMAIN worked) \ leaving) \o breakers \o reborn)
      kept == Kept(sorted)
  IN IF i = 1 THEN active' = blocks /\ UNCHANGED ended /\ made' = made \cup NamesOf(found)
     ELSE /\ active' = Picked(kept, (DOMAIN kept) \ DeadIn(kept))
          /\ ended' = Consumed(claimed) \o AllFated(left, "MERGED")
                      \o AllFated(MergedAway(sorted), "MERGED") \o Removed(worked, kept)
          /\ made' = made \cup NamesOf(found) \cup NamesOf(breakers) \cup NamesOf(reborn)

BlockBarCloses(b) ==
  /\ blockBars' = Append(blockBars, b)
  /\ LET i == Len(blockBars') - DispMaxK - 1 IN
     IF i < 1 THEN UNCHANGED <<active, ended, made>> ELSE WorkBar(blockBars', i)

BlockNext ==
  \E n \in {n \in 1..Len(BlockTape) : n = Len(blockBars) + 1} : \E b \in BlockTape[n] : BlockBarCloses(b)

-----------------------------------------------------------------------------
\* Every block ever created is in exactly one place exactly once: active or
\* ended, through merges, conversions and ends on one and the same bar.
BlocksAreConserved ==
  LET all == active \o ended IN
    /\ NamesOf(all) = made
    /\ Len(all) = Cardinality(made)

\* A block is taken out by a stronger one only if that one is still standing.
MergedIntoLiving ==
  [][\A n \in (Len(ended) + 1)..Len(ended') :
       (ended'[n].fate = "MERGED" /\ ended'[n].kind = "ENTRY" /\ ended'[n].depth < 50) =>
         \E a \in ToSet(active') : a.dir = ended'[n].dir /\ Iou70(a, ended'[n])]_blockVars
=============================================================================
