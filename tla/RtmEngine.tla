------------------------------- MODULE RtmEngine -------------------------------
(***************************************************************************)
(* E07, the chain of confirmations behind a setup (engines/e07_rtm/        *)
(* engine.py).  Upstream engines confirm components (a sweep, a change of  *)
(* character, a gap, volume), possibly late; a bundle weighs which of the  *)
(* expected chain are present and which came in order.  Bundles are made   *)
(* by the batch the decision path calls (run_engine, over the retained     *)
(* window) or by the streaming wrapper (one per time bucket); a resolver   *)
(* sets opposed bundles against each other, and fates end them.            *)
(*                                                                         *)
(* Time is the index of a bar; shares and scores are in thousandths.       *)
(***************************************************************************)
EXTENDS Integers, Sequences, FiniteSets, FiniteSetsExt, SequencesExt

CONSTANTS
  Chain,          \* component ids in the order the framework expects
  NameOrder,      \* the same ids in the order of their names
  WeightOf,       \* weight of each component
  RtmContexts,    \* what the caller knows: q, mtf, halfHour, minutes to releases,
                  \* canonical (does E12 answer) and the overlap it says
  WindowBars,     \* bars of the retained window
  BucketBars,     \* idem_bucket_ms
  ConflictBars,   \* conflict_overlap_ms
  BundleExpiryBars,     \* bundle_expiry_bars
  LastRtmBar, MaxConfirmations, MaxBundles

ASSUME RtmBounds ==
  /\ Chain \in Seq(ToSet(Chain)) /\ NameOrder \in Seq(ToSet(Chain))
  /\ ToSet(NameOrder) = ToSet(Chain) /\ WeightOf \in [ToSet(Chain) -> Nat \ {0}]
  /\ {WindowBars, BucketBars, ConflictBars} \subseteq Nat \ {0}

IntegrityFloor == 700   \* th_int
CoverageFloor == 600    \* th_weight
EconPause == 30         \* econ_pause_min
ConflictMargin == 100   \* conflict_conf_margin
TerminalFates == {"superseded", "invalidated", "completed", "expired"}
NoRival == 0

VARIABLES
  rtmBar,         \* bars closed
  confirmations,  \* in the order they were reported: cid, at
  emittedBuckets, \* buckets the streaming wrapper has answered for
  bundles         \* every bundle made, oldest first

rtmVars == <<rtmBar, confirmations, emittedBuckets, bundles>>

RtmInit == rtmBar = 0 /\ confirmations = <<>> /\ emittedBuckets = {} /\ bundles = <<>>

-----------------------------------------------------------------------------
SeqIdx(cid) == CHOOSE i \in DOMAIN Chain : Chain[i] = cid
TotalWeight == MapThenSumSet(LAMBDA c : WeightOf[c], ToSet(Chain))

\* build_order_map: of each component the earliest confirmation wins.
OrderMap(confs) ==
  [cid \in {c.cid : c \in confs} |-> Min({c.at : c \in {d \in confs : d.cid = cid}})]

\* The components a list names.
Listed(present) == {present[i] : i \in DOMAIN present}

\* Which of some places of the list comes last by confirmation time, ties in
\* the order given.
LastInTime(places, present, order) ==
  CHOOSE k \in places : \A j \in places :
    \/ order[present[j]] < order[present[k]]
    \/ order[present[j]] = order[present[k]] /\ j <= k

\* Mutant: a component out of order moves the running slot back with it.
JudgedByNeighbour(acc, cid) ==
  [slot |-> SeqIdx(cid), ok |-> IF SeqIdx(cid) >= acc.slot THEN acc.ok \cup {cid} ELSE acc.ok \ {cid}]

\* evaluate_order_ok: the slots must not fall below the highest one in order.
Judged(acc, cid) ==
  IF SeqIdx(cid) >= acc.slot THEN [slot |-> SeqIdx(cid), ok |-> acc.ok \cup {cid}]
  ELSE [slot |-> acc.slot, ok |-> acc.ok \ {cid}]
Verdicts(present, order) ==
  LET after[places \in SUBSET DOMAIN present] ==
        IF places = {} THEN [slot |-> 0, ok |-> {}]
        ELSE LET k == LastInTime(places, present, order)
             IN Judged(after[places \ {k}], present[k])
  IN after[DOMAIN present].ok

\* sequence_integrity_v4: half the weight of a component out of order.
WeightIn(cids) == MapThenSumSet(LAMBDA c : WeightOf[c], cids)
Integrity(present, ok) ==
  (1000 * WeightIn(ok) + 500 * WeightIn(present \ ok)) \div TotalWeight
Coverage(present) == (1000 * WeightIn(present)) \div TotalWeight

\* utc_activity_window_check: E12 says whether two windows overlap; when it
\* cannot, the hours 12:30 to 16:00 do (in half hours) and the bundle is degraded.
ActivityWindow(ctx) ==
  [overlap |-> IF ctx.canonical THEN ctx.overlap ELSE ctx.halfHour \in 25 .. 31,
   econ |-> \E minutes \in ctx.releases : minutes <= EconPause,
   degraded |-> ~ctx.canonical]

\* kz_align_score: the market is always open, a near release costs a third.
WindowScore(ctx) == IF ActivityWindow(ctx).econ THEN 700 ELSE 1000

Confidence(integrity, ctx) ==
  Min({1000, (400 * integrity + 250 * ctx.q + 200 * ctx.mtf + 150 * WindowScore(ctx)) \div 1000})

\* quality_class_cascade, then quality_class_caps: one class down at a time
\* until the gate of the class is met.
Cascade(integrity, conf) ==
  IF integrity < 500 THEN 0 ELSE IF integrity < 700 THEN 1 ELSE IF integrity < 800 THEN 2
  ELSE IF integrity < 900 \/ conf < 850 THEN 3 ELSE IF conf < 950 THEN 4 ELSE 5
GateMet(class, conf, ctx) ==
  CASE class = 3 -> ctx.q >= 600
    [] class = 4 -> ctx.mtf >= 600
    [] class = 5 -> ActivityWindow(ctx).overlap /\ ~ActivityWindow(ctx).econ
                   /\ ctx.mtf >= 1000 /\ conf > 950
    [] OTHER -> TRUE
QualityClassOf(integrity, conf, ctx) ==
  Max({0} \cup {q \in 1 .. Cascade(integrity, conf) : GateMet(q, conf, ctx)})

\* build_bundle_pipeline, from the components present and their order map.
BuiltBundles(present, order, ctx, direction) ==
  LET ok == Verdicts(present, order)
      integrity == Integrity(Listed(present), ok)
      conf == Confidence(integrity, ctx)
  IN IF integrity < IntegrityFloor \/ Coverage(Listed(present)) < CoverageFloor THEN <<>>
     ELSE <<[at |-> rtmBar, dir |-> direction, order |-> order, ok |-> ok,
             integrity |-> integrity, conf |-> conf,
             class |-> QualityClassOf(integrity, conf, ctx),
             degraded |-> ActivityWindow(ctx).degraded, fate |-> "active", rival |-> NoRival]>>

\* _to_evidence: what a bundle says to the rest of the system.
RtmRow(b) == [dir |-> b.dir, strength |-> b.integrity, conf |-> b.conf,
              validity |-> IF b.degraded THEN "DEGRADED" ELSE "VALID",
              fate |-> IF b.fate = "active" THEN "ACTIVE" ELSE "CONFIRMED"]

Known(confs) == {c \in ToSet(confs) : c.at <= rtmBar}

-----------------------------------------------------------------------------
RtmBarCloses == rtmBar < LastRtmBar /\ rtmBar' = rtmBar + 1
                /\ UNCHANGED <<confirmations, emittedBuckets, bundles>>

\* on_event: an upstream engine reports a confirmation, of this bar or late.
ConfirmationArrives ==
  /\ Len(confirmations) < MaxConfirmations
  /\ \E cid \in ToSet(Chain), at \in 1 .. rtmBar : confirmations' = Append(confirmations, [cid |-> cid, at |-> at])
  /\ UNCHANGED <<rtmBar, emittedBuckets, bundles>>

\* process_at: one answer per bucket, an empty one included.
ProcessesBucket ==
  LET bucket == rtmBar \div BucketBars
      known == Known(confirmations)
      places == {i \in DOMAIN confirmations : confirmations[i] \in known}
      present == [i \in places |-> confirmations[i].cid]
  IN /\ rtmBar > 0 /\ bucket \notin emittedBuckets /\ Len(bundles) < MaxBundles
     /\ emittedBuckets' = emittedBuckets \cup {bucket}
     /\ \E ctx \in RtmContexts, direction \in {"UP", "DOWN"} :
          bundles' = bundles \o BuiltBundles(present, OrderMap(known), ctx, direction)
     /\ UNCHANGED <<rtmBar, confirmations>>

\* run_engine, as complete_engine_bundle calls it on every decision: the
\* confirmations of the retained window, the present ones sorted by name.
RunsBatch ==
  LET known == {c \in Known(confirmations) : c.at > rtmBar - WindowBars}
      places == {i \in DOMAIN NameOrder : \E d \in known : d.cid = NameOrder[i]}
      present == [i \in places |-> NameOrder[i]]
  IN /\ rtmBar > 0 /\ Len(bundles) < MaxBundles
     /\ \E ctx \in RtmContexts, direction \in {"UP", "DOWN"} :
          bundles' = bundles \o BuiltBundles(present, OrderMap(known), ctx, direction)
     /\ UNCHANGED <<rtmBar, confirmations, emittedBuckets>>

\* resolve_conflicting_bundles: each bundle against the first active one of
\* the other direction close to it in time, and no further.
IsRivalOf(b, a) ==
  b.at - a.at < ConflictBars /\ b.dir # a.dir /\ a.fate = "active"
Confronted(acc, i) ==
  LET b == acc.all[i]
      rivals == {j \in acc.active : IsRivalOf(b, acc.all[j])}
      a == Min(rivals)
  IN IF rivals = {}
     THEN [acc EXCEPT !.active = IF b.fate = "active" THEN @ \cup {i} ELSE @]
     ELSE IF b.conf > acc.all[a].conf + ConflictMargin
     THEN [all |-> [acc.all EXCEPT ![a].fate = "superseded", ![a].rival = i],
           active |-> acc.active \cup {i}]
     ELSE [acc EXCEPT !.all[i].fate = "invalidated", !.all[i].rival = a]
Resolves ==
  LET after[n \in 0 .. Len(bundles)] ==
        IF n = 0 THEN [all |-> bundles, active |-> {}] ELSE Confronted(after[n - 1], n)
  IN /\ bundles' = after[Len(bundles)].all
     /\ bundles' # bundles /\ UNCHANGED <<rtmBar, confirmations, emittedBuckets>>

\* update_bundle_fate: the opposite structure, a completed entry, or age.
FateMoves ==
  /\ \E i \in DOMAIN bundles, fate \in {"invalidated", "completed", "expired"} :
       /\ bundles[i].fate \notin TerminalFates
       /\ fate = "expired" => rtmBar - bundles[i].at > BundleExpiryBars
       /\ bundles' = [bundles EXCEPT ![i].fate = fate]
  /\ UNCHANGED <<rtmBar, confirmations, emittedBuckets>>

RtmNext == RtmBarCloses \/ ConfirmationArrives \/ ProcessesBucket \/ RunsBatch
           \/ Resolves \/ FateMoves

-----------------------------------------------------------------------------
(* Properties *)

\* What a bundle says at full strength is the whole chain, in order.  What it
\* calls in order is a chain of its own: two components in order
\* at different bars keep the order the framework expects, and one is out of
\* order only when a component that should follow it, itself in order, was
\* confirmed no later, however late and in whatever order the confirmations
\* were reported.
VerdictsFormAChain ==
  \A b \in ToSet(bundles) : \A x \in DOMAIN b.order :
    /\ x \in b.ok => \A y \in b.ok : b.order[x] < b.order[y] => SeqIdx(x) < SeqIdx(y)
    /\ RtmRow(b).strength = 1000 => (x \in b.ok /\ DOMAIN b.order = ToSet(Chain))
    /\ x \notin b.ok => \E y \in b.ok : SeqIdx(y) > SeqIdx(x) /\ b.order[y] <= b.order[x]
=============================================================================
