----------------------------- MODULE FeatureTimeline -----------------------------
(***************************************************************************)
(* The feature timeline of one cell (ops/engine_context.py,                *)
(* EngineContextProducer.feature_timeline) and the bundle of the twelve    *)
(* engines made from its last item.  The timeline replays every closed bar *)
(* of the store; what it accumulates (the norms of E11, the ATR reference, *)
(* the EWMA of the reference state) is cached between decisions and        *)
(* continued when the bars it was built from are a prefix of the new ones. *)
(* The cache holds the lists themselves: a run that continues it appends   *)
(* to them in place.                                                       *)
(*                                                                         *)
(* What is accumulated is abstracted to the bars it came from: an entry is *)
(* the index and version of a bar and the version of the higher-timeframe  *)
(* rows its bias was read from.  The trimming to 180 days is left out.     *)
(***************************************************************************)
EXTENDS Integers, Sequences, FiniteSets, FiniteSetsExt, Functions

CONSTANTS
  BarFates,      \* BarFates[n]: what may become of the n-th bar
  WarmUpBars,    \* bars before the first frame (50)
  MaxFixes,      \* corrections of a stored bar
  MaxHtfFixes,   \* corrections of a higher-timeframe bar
  MaxEscapes     \* errors other than BridgeError and ValueError

\* Fates of a bar: late (available after its close), noframe (an engine refuses),
\* norm (no ATR reference), htf (the bias of another timeframe is refused),
\* novec (degenerate norms), ok.
Fates == {"late", "noframe", "norm", "htf", "novec", "ok"}
Framed == {"norm", "htf", "novec", "ok"}     \* the ATR reference takes the bar
Measured == {"novec", "ok"}                  \* the norms take it
Bar == [fate : Fates, version : Nat, e03 : BOOLEAN, e04 : BOOLEAN]

ASSUME TimelineBounds ==
  /\ {WarmUpBars, MaxFixes, MaxHtfFixes, MaxEscapes} \subseteq Nat
  /\ \A n \in DOMAIN BarFates : BarFates[n] \subseteq Bar

VARIABLES
  ownBars,       \* the closed bars of the store: fate, version, evidence of E03 and E04
  htfRows,    \* version of the rows of the higher timeframes
  timeline,   \* _timelines[cell], none or the cached accumulation
  replay,     \* the running generator, none between decisions
  prepared,   \* what the last decision was made from
  setbacks    \* corrections and errors so far: fixes, htf, escapes

timelineVars == <<ownBars, htfRows, timeline, replay, prepared, setbacks>>

None == [none |-> TRUE]
IsNone(x) == "none" \in DOMAIN x

TimelineInit ==
  /\ ownBars = <<>> /\ htfRows = 0 /\ timeline = None /\ replay = None /\ prepared = None
  /\ setbacks = [fixes |-> 0, htf |-> 0, escapes |-> 0]

-----------------------------------------------------------------------------
Signatures(window) == [i \in DOMAIN window |-> window[i].version]
Entry(window, i) == [bar |-> i, version |-> window[i].version, htf |-> htfRows]

\* Mutant of SamePrefix: only the length of the window is looked at.
PrefixByLength(sigs, window) == Len(sigs) <= Len(window)

\* The cached timeline may be continued over this window.
SamePrefix(sigs, window) ==
  /\ Len(sigs) <= Len(window)
  /\ \A i \in DOMAIN sigs : sigs[i] = window[i].version

Blank(window) ==
  [window |-> window, at |-> 0, resumed |-> FALSE, atrShared |-> FALSE,
   history |-> <<>>, atr |-> <<>>, seeded |-> FALSE, norm |-> <<>>, item |-> None]

\* window and the head of feature_timeline: continue the cached timeline or begin
\* a new one.
PrepareBegins ==
  /\ IsNone(replay) /\ ownBars # <<>>
  /\ replay' = IF ~IsNone(timeline) /\ SamePrefix(timeline.sigs, ownBars)
               THEN [ Blank(ownBars) EXCEPT !.at = Len(timeline.sigs), !.resumed = TRUE,
                      !.atrShared = TRUE, !.history = timeline.history, !.atr = timeline.atr,
                      !.seeded = timeline.seeded, !.norm = timeline.norm,
                      !.item = timeline.item ]
               ELSE Blank(ownBars)
  /\ UNCHANGED <<ownBars, htfRows, timeline, prepared, setbacks>>

\* The bars the E04 stream has reached are its states: the first frame takes
\* them all as the ATR reference, later ones add their own.
AtrAfter(g, n) == IF g.seeded THEN Append(g.atr, n) ELSE [i \in 1..n |-> i]

\* A run that continues the cache appends to the cached lists: to the norms at
\* every bar, to the ATR reference until it is first rebound.
Aliased(g, atr, history) ==
  IF ~g.resumed THEN timeline
  ELSE [timeline EXCEPT !.history = history, !.atr = IF g.atrShared THEN atr ELSE @]

\* One bar of feature_timeline that ends in an item.
BarReplayed ==
  LET n == replay.at + 1
      fate == replay.window[n].fate
      framed == n > WarmUpBars /\ fate \in Framed
      measured == n > WarmUpBars /\ fate \in Measured
      atr == IF framed THEN AtrAfter(replay, n) ELSE replay.atr
      history == IF measured THEN Append(replay.history, Entry(replay.window, n))
                 ELSE replay.history
      item == [ at |-> n, vector |-> measured /\ fate = "ok", history |-> replay.history,
                atr |-> replay.atr, norm |-> replay.norm ]
  IN /\ ~IsNone(replay) /\ replay.at < Len(replay.window)
     /\ replay' = [ replay EXCEPT !.at = n, !.atr = atr, !.history = history,
                    !.seeded = @ \/ framed, !.atrShared = @ /\ ~framed,
                    !.norm = IF item.vector THEN Append(@, n) ELSE @, !.item = item ]
     /\ timeline' = Aliased(replay, atr, history)
     /\ UNCHANGED <<ownBars, htfRows, prepared, setbacks>>

\* An error that neither BridgeError nor ValueError covers (a database error under
\* the bias of another timeframe) leaves the generator after the ATR reference
\* has taken the bar; the cycle records the cell as failed and comes back.
ErrorEscapes ==
  /\ ~IsNone(replay) /\ setbacks.escapes < MaxEscapes
  /\ replay.at < Len(replay.window) /\ replay.at >= WarmUpBars
  /\ replay.window[replay.at + 1].fate \in Framed
  /\ timeline' = Aliased(replay, AtrAfter(replay, replay.at + 1), replay.history)
  /\ replay' = None /\ prepared' = None
  /\ setbacks' = [setbacks EXCEPT !.escapes = @ + 1]
  /\ UNCHANGED <<ownBars, htfRows>>

-----------------------------------------------------------------------------
\* Mutant of JointFrontier: any bar with both evidences will do.
AnyJointBars(window) == LET joint == {i \in DOMAIN window : window[i].e03 /\ window[i].e04}
                        IN IF joint = {} THEN {} ELSE {Min(joint)}

\* complete_engine_bundle, E06: the volume and volatility evidences must cover a
\* suffix of the window without a hole; it begins at the bar in the result.
JointFrontier(window) ==
  LET joint == {i \in DOMAIN window : window[i].e03 /\ window[i].e04}
  IN {first \in joint : joint = first .. Len(window)}

Ascending(S) ==
  [k \in 1 .. Cardinality(S) |-> CHOOSE i \in S : Cardinality({j \in S : j < i}) = k - 1]

\* What E06 is given: the evidences of the joint bars, one after the other, for the
\* window from the frontier on.
HandedToE06(window, first) ==
  [ window |-> [k \in 1 .. Len(window) - first + 1 |-> first + k - 1],
    evidence |-> Ascending({i \in DOMAIN window : window[i].e03 /\ window[i].e04}) ]

\* What else makes a bundle fail, before and after E06 is reached.
EarlyTroubles == {"QUALITY_PROVENANCE_UNAVAILABLE", "E07_CONTEXT_UNAVAILABLE"}
LateTroubles == {"E11_CONTEXT_UNAVAILABLE", "E07_CONFIRMATION_QUALITY_UNAVAILABLE",
                 "EVIDENCE_CONTEXT_INVALID", "BRIDGE_PIT_VIOLATION"}

\* complete_engine_bundle: the first refusal, in the order of the code.
BundleRefusal(whole, frontier, trouble) ==
  IF ~whole THEN "E11_CONTEXT_UNAVAILABLE"
  ELSE IF trouble \in EarlyTroubles THEN trouble
  ELSE IF frontier = {} THEN "E06_DEPENDENCY_UNAVAILABLE"
  ELSE trouble

\* The end of feature_timeline keeps what it accumulated only behind an item of
\* the last bar that has a vector; then the bundle is made of that item.
PrepareEnds(trouble) ==
  /\ ~IsNone(replay) /\ replay.at = Len(replay.window)
  /\ LET item == replay.item
         whole == ~IsNone(item) /\ item.at = Len(replay.window) /\ item.vector
         frontier == JointFrontier(replay.window)
         refusal == BundleRefusal(whole, frontier, trouble)
     IN /\ timeline' = IF whole THEN [ sigs |-> Signatures(replay.window),
                                       history |-> replay.history, atr |-> replay.atr,
                                       seeded |-> replay.seeded, norm |-> replay.norm,
                                       item |-> item ]
                       ELSE None
        /\ prepared' = IF refusal # "none" THEN [none |-> TRUE, refusal |-> refusal]
                       ELSE [ window |-> replay.window, item |-> item,
                              e06 |-> HandedToE06(replay.window,
                                                  CHOOSE f \in frontier : TRUE) ]
  /\ replay' = None
  /\ UNCHANGED <<ownBars, htfRows, setbacks>>

RowCloses(b) ==
  /\ IsNone(replay)
  /\ ownBars' = Append(ownBars, b)
  /\ UNCHANGED <<htfRows, timeline, replay, prepared, setbacks>>

\* A repair replaces a stored bar, of this cell or of a higher timeframe.
BarCorrected(i) ==
  /\ IsNone(replay) /\ setbacks.fixes < MaxFixes
  /\ ownBars' = [ownBars EXCEPT ![i].version = @ + 1]
  /\ setbacks' = [setbacks EXCEPT !.fixes = @ + 1]
  /\ UNCHANGED <<htfRows, timeline, replay, prepared>>
HtfCorrected ==
  /\ IsNone(replay) /\ setbacks.htf < MaxHtfFixes
  /\ htfRows' = htfRows + 1 /\ setbacks' = [setbacks EXCEPT !.htf = @ + 1]
  /\ UNCHANGED <<ownBars, timeline, replay, prepared>>

TimelineNext ==
  \/ PrepareBegins \/ BarReplayed \/ ErrorEscapes \/ HtfCorrected
  \/ \E trouble \in {"none"} \cup EarlyTroubles \cup LateTroubles : PrepareEnds(trouble)
  \/ \E i \in DOMAIN BarFates :
       i = Len(ownBars) + 1 /\ \E b \in BarFates[i] : RowCloses(b)
  \/ \E i \in DOMAIN ownBars : BarCorrected(i)

-----------------------------------------------------------------------------
\* As long as no error escaped and no row of another timeframe was corrected
\* (both leave the cache behind the rows), a decision rests on what a replay of
\* all its bars from the first would have accumulated: the norms and the EWMA
\* hold every bar that was measured before, once, in order and as it is now
\* stored, and the ATR reference holds no bar twice and not the bar that is
\* decided on.  And E06 is given, for each bar of its window, the evidence of
\* that bar (engine_context.py 2430-2560, 1490-1580).
Enumerates(s, S) ==
  /\ \A k \in DOMAIN s, m \in DOMAIN s : k < m => s[k] < s[m]
  /\ S = {s[k] : k \in DOMAIN s}

DecisionIsReplay ==
  (~IsNone(prepared) /\ setbacks.htf = 0 /\ setbacks.escapes = 0) =>
    LET w == prepared.window
        item == prepared.item
        Before(S) == {i \in 1 .. item.at - 1 : i > WarmUpBars /\ w[i].fate \in S}
    IN /\ Enumerates([k \in DOMAIN item.history |-> item.history[k].bar], Before(Measured))
       /\ \A k \in DOMAIN item.history : item.history[k] = Entry(w, item.history[k].bar)
       /\ Enumerates(item.norm, Before({"ok"}))
       /\ IsInjective(item.atr) /\ \A k \in DOMAIN item.atr : item.atr[k] < item.at
       /\ prepared.e06.evidence = prepared.e06.window
=============================================================================
