----------------------------- MODULE TemporalEngine ----------------------------
(***************************************************************************)
(* E12, the temporal context (engines/e12_temporal/engine.py): which       *)
(* activity window of the UTC day a candle falls in, its phase, the kind   *)
(* of day, and a journal of the changes.  run_engine streams the candles   *)
(* of a window through on_candle; a candle of a known time and             *)
(* availability is answered with the state it already has, a bad one with  *)
(* a refusal, and every other one supersedes the state before it.          *)
(*                                                                         *)
(* Time counts half hours, DayLength of them to a day.                     *)
(***************************************************************************)
EXTENDS Integers, Sequences, FiniteSets, FiniteSetsExt, SequencesExt

CONSTANTS
  TemporalTape,   \* sets of candles that may come as n-th: ts, asOf, known, sane, v, gap
  RedDays,        \* days of the calendar, or {NoCalendar}
  NoCalendar,
  Profiles,       \* profiles that may be attached before the candles: days,
                  \*   flat, groups ("none", "same", "different"), stable, narrow
  HistoryCap      \* behavior_window * n_bins

ASSUME TemporalBounds == HistoryCap \in Nat \ {0}

DayLength == 48
WindowNames == <<"UTC_W0", "UTC_W1", "UTC_W2", "UTC_W3">>
FirstWeekday == 3      \* the weekday of day 0, Monday being 0
EnoughDays == 30       \* days of history of a profile

VARIABLES
  temporalFed,    \* candles given to run_engine
  temporalBuffer, \* the accepted candles kept, with their windows
  temporalState,  \* the last state on_candle built
  temporalAnswer, \* what run_engine would answer now: last_state
  journal,        \* the events
  profile         \* the attached profile, a sequence of at most one

temporalVars ==
  <<temporalFed, temporalBuffer, temporalState, temporalAnswer, journal, profile>>

NoState == [quality |-> "none", ts |-> -1, asOf |-> -1, fate |-> "none"]

TemporalInit ==
  /\ temporalFed = 0 /\ temporalBuffer = <<>>
  /\ temporalState = NoState /\ temporalAnswer = NoState
  /\ profile \in {<<>>} \cup {<<p>> : p \in Profiles}
  /\ journal = [n \in 1 .. Cardinality({x \in {RedDays} : NoCalendar \in x}) |->
                  [code |-> "EV_TMP_008", from |-> "none", to |-> "none"]]
               \o [n \in DOMAIN profile |-> [code |-> "EV_TMP_006", from |-> "none", to |-> "none"]]

-----------------------------------------------------------------------------
HourOf(ts) == ts % DayLength
DayNumber(ts) == ts \div DayLength

\* utc_activity_window_of: the window, its phase and the overlap of two markets.
WindowAt(h) == CASE h < 14 -> "UTC_W0" [] h \in 14 .. 24 -> "UTC_W1"
                 [] h \in 25 .. 41 -> "UTC_W2" [] OTHER -> "UTC_W3"
PhaseAt(h) == CASE h \in {14, 15, 25} -> "EARLY" [] h \in {23, 24, 41} -> "LATE" [] OTHER -> "MID"
OverlapAt(h) == h \in 25 .. 31

\* day_type: the calendar before the weekday.
DayType(day) ==
  LET weekday == (day + FirstWeekday) % 7
  IN IF day \in RedDays THEN "HIGH_IMPACT"
     ELSE IF weekday = 4 THEN "FRIDAY"
     ELSE IF weekday >= 5 THEN "SATURDAY_SUNDAY_CONTEXT"
     ELSE "WEEKDAY"

\* compute_temporal_profile: the quality ladder of a profile.
ProfileQuality(p) ==
  IF p.days < EnoughDays \/ p.flat THEN "Q1"
  ELSE IF p.groups = "different" /\ p.stable THEN (IF p.narrow THEN "Q4" ELSE "Q3") ELSE "Q2"

\* _vol_ratio_for: is there a volume of this window to compare with?
HasVolumeRatio(c, window) ==
  c.v > 0 /\ \E b \in ToSet(temporalBuffer) : b.window = window /\ b.v > 0

\* _quality_for
TemporalQuality(c) == IF c.v = 0 \/ profile = <<>> THEN "Q1" ELSE ProfileQuality(profile[1])

\* _gap_detected needs a candle to compare with.
IsGap(c) == c.gap /\ temporalBuffer # <<>>

StateAt(c) ==
  LET h == HourOf(c.ts)
  IN [quality |-> TemporalQuality(c), ts |-> c.ts, asOf |-> c.asOf, fate |-> "ACTIVE",
      window |-> WindowAt(h), phase |-> PhaseAt(h), overlap |-> OverlapAt(h),
      day |-> DayType(DayNumber(c.ts)), gap |-> IsGap(c), ratio |-> HasVolumeRatio(c, WindowAt(h))]

Accepts(st) == st.quality \notin {"none", "Q0", "QX"}
Noted(code, old, new) == [code |-> code, from |-> old, to |-> new]

\* run_engine: what the change from one accepted state to the next is worth.
Windows(old, new) ==
  IF ~Accepts(old) THEN <<Noted("EV_TMP_001", "none", new.window)>>
  ELSE IF old.window = new.window THEN <<>>
  ELSE <<Noted("EV_TMP_002", old.window, "none"), Noted("EV_TMP_001", "none", new.window)>>
Changes(old, new) ==
  Windows(old, new)
  \o (IF new.overlap /\ ~(Accepts(old) /\ old.overlap)
      THEN <<Noted("EV_TMP_003", "none", new.window)>> ELSE <<>>)
  \o (IF Accepts(old) /\ old.phase # new.phase
      THEN <<Noted("EV_TMP_004", old.phase, new.phase)>> ELSE <<>>)
  \o (IF Accepts(old) /\ old.day # new.day
      THEN <<Noted("EV_TMP_005", old.day, new.day)>> ELSE <<>>)

KeptHistory(s) == SubSeq(s, Max({1, Len(s) - HistoryCap + 1}), Len(s))

\* Mutant: the state before is the one last answered, a refusal too.
ChangesFromAnswer(old, new) == Changes(temporalAnswer, new)

\* The changes from the last accepted candle to this one.
ChangesSince(old, new) == Changes(old, new)

\* on_candle, the refusals first: no availability time, then a bad candle.
RefusedCandle(c) ==
  /\ ~c.known \/ ~c.sane
  /\ temporalAnswer' = [NoState EXCEPT !.quality = IF c.known THEN "Q0" ELSE "QX",
                                       !.fate = IF c.known THEN "INVALIDATED" ELSE "none"]
  /\ journal' = IF c.known THEN Append(journal, Noted("EV_TMP_009", "none", "none")) ELSE journal
  /\ UNCHANGED <<temporalBuffer, temporalState>>

IsRepeat(c) == temporalState.ts = c.ts /\ temporalState.asOf = c.asOf
RepeatedCandle(c) ==
  /\ c.known /\ c.sane /\ IsRepeat(c)
  /\ temporalAnswer' = temporalState
  /\ UNCHANGED <<temporalBuffer, temporalState, journal>>

NewCandle(c) ==
  LET st == StateAt(c)
  IN /\ c.known /\ c.sane /\ ~IsRepeat(c)
     /\ temporalState' = st /\ temporalAnswer' = st
     /\ temporalBuffer' = KeptHistory(Append(temporalBuffer, [ts |-> c.ts, v |-> c.v, window |-> st.window]))
     /\ journal' = journal \o ChangesSince(temporalState, st)

TemporalCandle ==
  /\ temporalFed < Len(TemporalTape) /\ temporalFed' = temporalFed + 1
  /\ \E c \in TemporalTape[temporalFed + 1] : RefusedCandle(c) \/ RepeatedCandle(c) \/ NewCandle(c)
  /\ UNCHANGED profile

TemporalNext == TemporalCandle

\* catalog_events: what the final state fires, nothing for a refusal.
CodesFired(st) ==
  IF ~Accepts(st) THEN {} ELSE {"EV_TMP_001"} \cup {x \in {"EV_TMP_003"} : st.overlap}

\* _to_evidence: one row per code, a candidate until there is a profile.
TemporalRows(st) ==
  {[code |-> code, window |-> st.window,
    fate |-> IF st.quality = "Q1" THEN "CANDIDATE" ELSE "ACTIVE",
    validity |-> IF st.quality \in {"Q3", "Q4"} THEN "VALID" ELSE "DEGRADED"] :
      code \in CodesFired(st)}

-----------------------------------------------------------------------------
(* Properties *)

\* The entries with one of some codes, the last of them, and one that follows another.
Told(codes) == {i \in DOMAIN journal : journal[i].code \in codes}
IsLastOf(i, S) == i \in S /\ \A k \in S : k <= i
Follows(i, p, S) == p < i /\ \A k \in S : k <= p \/ i <= k

\* The journal tells where the day is: replayed, it yields the window of the
\* last accepted candle; no window is left that was not entered or entered
\* twice; and every phase or day it leaves is the one it came to before,
\* whatever refused, repeated or out-of-order candles came between.
Linked(changes, last) ==
  \A i \in changes :
    /\ \A p \in changes : Follows(i, p, changes) => journal[i].from = journal[p].to
    /\ IsLastOf(i, changes) => journal[i].to = last
JournalTellsTheDay ==
  LET moves == Told({"EV_TMP_001", "EV_TMP_002"})
      In(window) == \E i \in moves : IsLastOf(i, moves) /\ journal[i].to = window
  IN /\ \A i \in moves :
          /\ (\A k \in moves : i <= k) => journal[i].code = "EV_TMP_001"
          /\ \A p \in moves : Follows(i, p, moves) =>
               /\ journal[i].code # journal[p].code
               /\ journal[i].code = "EV_TMP_002" => journal[i].from = journal[p].to
     /\ Accepts(temporalState) =>
          /\ In(temporalState.window)
          /\ Linked(Told({"EV_TMP_004"}), temporalState.phase)
          /\ Linked(Told({"EV_TMP_005"}), temporalState.day)
     /\ \A row \in TemporalRows(temporalAnswer) : In(row.window)
=============================================================================
