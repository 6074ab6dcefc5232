----------------------------- MODULE MCDecisions -----------------------------
(***************************************************************************)
(* Small instances for TLC of what a decision is made from: the engines,   *)
(* the timeline that feeds them, the context of a cell, the fabric, the    *)
(* plan bridge and the training of the classifier.  As in MCServices, a    *)
(* behaviour chooses one component (focus) and lets it move.               *)
(***************************************************************************)
EXTENDS PlanBridge, ContextProducer, StructureEngine, Engines, FeatureTimeline, Training

CONSTANT Foci   \* the components this instance looks at

VARIABLE focus

decisionsVars == <<focus, fabricVars, bridgeVars, contextVars, structureVars,
                   liquidityVars, volumeVars, fvgVars, blockVars, rtmVars, wyckoffVars,
                   momentumVars, regimeVars, temporalVars, timelineVars, trainingVars>>

\* Choices of an initial state that belong to a component nobody looks at are fixed.
DecisionsInit ==
  /\ focus \in Foci
  /\ FabricInit /\ BridgeInit /\ ContextInit /\ StructureInit /\ LiquidityInit
  /\ VolumeInit /\ FvgInit /\ BlockInit /\ RtmInit /\ WyckoffInit /\ MomentumInit
  /\ RegimeInit /\ TimelineInit
  /\ TemporalInit /\ (focus # "temporal" => profile = <<>>)
  /\ focus # "regime" => streaming
  /\ TrainingInit
  /\ focus # "training" => rows = [c \in DOMAIN RowsOf |-> CHOOSE w \in RowsOf[c] : TRUE]

Turn(f) ==
  /\ focus = f /\ UNCHANGED focus
  /\ f # "fabric" => UNCHANGED fabricVars
  /\ f # "bridge" => UNCHANGED bridgeVars
  /\ f # "context" => UNCHANGED contextVars
  /\ f # "structure" => UNCHANGED structureVars
  /\ f # "liquidity" => UNCHANGED liquidityVars
  /\ f # "volume" => UNCHANGED volumeVars
  /\ f # "fvg" => UNCHANGED fvgVars
  /\ f # "block" => UNCHANGED blockVars
  /\ f # "rtm" => UNCHANGED rtmVars
  /\ f # "wyckoff" => UNCHANGED wyckoffVars
  /\ f # "momentum" => UNCHANGED momentumVars
  /\ f # "regime" => UNCHANGED regimeVars
  /\ f # "temporal" => UNCHANGED temporalVars
  /\ f # "timeline" => UNCHANGED timelineVars
  /\ f # "training" => UNCHANGED trainingVars

DecisionsNext ==
  \/ Turn("fabric") /\ FabricNext
  \/ Turn("bridge") /\ BridgeNext
  \/ Turn("context") /\ ContextNext
  \/ Turn("structure") /\ StructureNext
  \/ Turn("liquidity") /\ LiquidityNext
  \/ Turn("volume") /\ VolumeNext
  \/ Turn("fvg") /\ FvgNext
  \/ Turn("block") /\ BlockNext
  \/ Turn("rtm") /\ RtmNext
  \/ Turn("wyckoff") /\ WyckoffNext
  \/ Turn("momentum") /\ MomentumNext
  \/ Turn("regime") /\ RegimeNext
  \/ Turn("temporal") /\ TemporalNext
  \/ Turn("timeline") /\ TimelineNext
  \/ Turn("training") /\ TrainingNext

DecisionsSpec == DecisionsInit /\ [][DecisionsNext]_decisionsVars

-----------------------------------------------------------------------------
(* Values of the constants.                                                *)

AllFoci == {"fabric", "bridge", "context", "structure", "liquidity", "volume", "fvg",
            "block", "rtm", "wyckoff", "momentum", "regime", "temporal", "timeline",
            "training"}
RegimeFocus == {"regime"}
StructureFocus == {"structure"}

\* Fabric: three events of the zone engine, the weights in percent.
Voices == [z1 |-> [engine |-> "E05", dir |-> 1], z2 |-> [engine |-> "E05", dir |-> -1],
           z3 |-> [engine |-> "E05", dir |-> 1]]
Weights == [E01 |-> 16, E02 |-> 12, E03 |-> 10, E04 |-> 8, E05 |-> 12, E06 |-> 10,
            E07 |-> 6, E08 |-> 6, E09 |-> 8, E10 |-> 6, E11 |-> 4, E12 |-> 2]
Groups == [E01 |-> "structure", E09 |-> "structure", E02 |-> "liquidity",
           E07 |-> "liquidity", E03 |-> "volume", E04 |-> "volatility", E05 |-> "zones",
           E06 |-> "zones", E08 |-> "zones", E10 |-> "momentum", E11 |-> "context",
           E12 |-> "context"]
AllVoices == {"z1", "z2", "z3"}
FilledZones == {"FILLED"}
ThreeBars == {3}
BridgeFrames == <<"5m", "15m", "1h">>
FifteenMinutes == "15m"
UncertaintyLevels == {0, 1}

\* E01: the tape on which a break is said two bars late.
OHLC(o, h, l, c) == [o |-> o, h |-> h, l |-> l, c |-> c]
StructureTape ==
  << {OHLC(2, 3, 2, 3)}, {OHLC(2, 3, 2, 2)}, {OHLC(3, 3, 1, 2)}, {OHLC(3, 5, 1, 2)},
     {OHLC(2, 4, 1, 3)}, {OHLC(2, 2, 1, 2)}, {OHLC(2, 2, 2, 2)}, {OHLC(3, 4, 2, 3)},
     {OHLC(2, 2, 1, 2)}, {OHLC(3, 5, 2, 5)}, {OHLC(2, 4, 2, 3)}, {OHLC(3, 4, 2, 2)} >>

\* E02: two days of the first activity window with the second between them.
LiquidityShapes == {OHLC(2, 3, 2, 2), OHLC(2, 4, 1, 2), OHLC(3, 4, 3, 4), OHLC(2, 2, 1, 1)}
SixLiquidityBars == [n \in 1..6 |-> LiquidityShapes]
TwoDaysOfWindows == <<1, 1, 2, 2, 1, 1>>
OneVoidFilled == [n \in 1..6 |-> IF n = 5 THEN {<<>>, <<2, 3>>} ELSE {<<>>}]

\* E03.
VolumeBarOf(at, l, h, c, v, oi, rz) ==
  [at |-> at, o |-> l, h |-> h, l |-> l, c |-> c, v |-> v, oi |-> oi,
   oiAt |-> IF oi = -1 THEN -1 ELSE at, atr |-> TRUE, stamped |-> TRUE, closed |-> TRUE,
   rz |-> rz, vz |-> rz, ad |-> "NONE"]
PlainVolume(n) ==
  {VolumeBarOf(n, 2, 4, 3, 2, 5, 0), VolumeBarOf(n, 3, 6, 6, 6, 7, 25),
   [VolumeBarOf(n, 1, 3, 1, 1, -1, 0) EXCEPT !.ad = "ACC"]}
OddVolume(n) ==
  {[VolumeBarOf(n, 2, 4, 3, 2, 6, 0) EXCEPT !.oiAt = -1],
   [VolumeBarOf(n, 2, 4, 3, 2, 6, 0) EXCEPT !.atr = FALSE]}
BadVolume(n) == {[VolumeBarOf(n, 5, 2, 3, 2, 6, 0) EXCEPT !.o = 3]}
NotYetVolume(n) ==
  {[VolumeBarOf(n, 2, 4, 3, 2, 6, 0) EXCEPT !.stamped = FALSE],
   [VolumeBarOf(n, 2, 4, 3, 2, 6, 0) EXCEPT !.closed = FALSE]}
SevenVolumeBars ==
  << PlainVolume(1), PlainVolume(2) \cup OddVolume(2), PlainVolume(3),
     PlainVolume(3) \cup {VolumeBarOf(9, 3, 5, 5, 2, 6, 0)},
     OddVolume(5) \cup BadVolume(5) \cup PlainVolume(5),
     NotYetVolume(6) \cup BadVolume(6) \cup PlainVolume(6), PlainVolume(7) \cup BadVolume(7) >>

\* E05 and E06.
HLC(l, h, c) == [l |-> l, h |-> h, c |-> c]
SixFvgBars == [n \in 1..6 |-> {HLC(0, 0, 0), HLC(2, 2, 2), HLC(3, 3, 3), HLC(5, 5, 5), HLC(6, 8, 8)}]
BlockBar(o, h, l, c, bos) == [o |-> o, h |-> h, l |-> l, c |-> c, loud |-> TRUE, bos |-> bos, gap |-> "NONE"]
BlockShapes ==
  {BlockBar(40, 42, 18, 20, "NONE"), BlockBar(30, 62, 28, 60, "UP"),
   BlockBar(30, 62, 28, 60, "NONE"), BlockBar(60, 62, 24, 35, "NONE"),
   BlockBar(60, 64, 58, 60, "NONE")}
SevenBlockBars ==
  [n \in 1..7 |-> CASE n = 1 -> {BlockBar(40, 42, 18, 20, "NONE"), BlockBar(30, 62, 28, 60, "UP")}
                   [] n \in 2..5 -> BlockShapes
                   [] OTHER -> {b \in BlockShapes : b.o # 30 \/ b.bos = "UP"}]

\* E07: a sweep, a change of character and a gap.
Components == <<"sweep", "choch", "fvg">>
ByName == <<"choch", "fvg", "sweep">>
ComponentWeights == [sweep |-> 15, choch |-> 10, fvg |-> 8]
OneRtmContext == {[q |-> 800, mtf |-> 800, halfHour |-> 0, releases |-> {}, canonical |-> TRUE,
                   overlap |-> TRUE]}

\* E08.
CycleBar(o, h, l, c, vr, rz, evr, bos, dir) ==
  [o |-> o, h |-> h, l |-> l, c |-> c, vr |-> vr, rz |-> rz, evr |-> evr, bos |-> bos,
   dir |-> dir, atr |-> TRUE]
CycleShapes ==
  {CycleBar(20, 24, 18, 21, 10, 0, FALSE, 0, "NONE"), CycleBar(21, 22, 14, 17, 25, 2, FALSE, 0, "NONE"),
   CycleBar(17, 25, 16, 24, 10, 0, FALSE, 0, "BULL"), CycleBar(18, 20, 15, 17, 7, 0, FALSE, 0, "NONE"),
   CycleBar(20, 31, 20, 30, 13, 0, TRUE, 1, "BULL"), CycleBar(22, 23, 20, 21, 7, 0, FALSE, 0, "BULL"),
   CycleBar(16, 17, 5, 6, 10, 0, FALSE, 0, "NONE")}
SixCycleBars ==
  [n \in 1..6 |->
     CASE n = 1 -> {CycleBar(20, 24, 18, 21, 10, 0, FALSE, 0, "NONE"), CycleBar(18, 20, 15, 17, 7, 0, FALSE, 0, "NONE"),
                    [CycleBar(20, 24, 18, 21, 10, 0, FALSE, 0, "NONE") EXCEPT !.atr = FALSE]}
       [] n \in 2..5 -> CycleShapes
       [] OTHER -> {b \in CycleShapes : b.vr = 7 \/ b.dir = "BULL"}]

\* E10.
MomentumBar(a, h, l, k, v, r, m, o) ==
  [at |-> a, h |-> h, l |-> l, ok |-> k, v |-> v, rsi |-> r, mz |-> m,
   az |-> IF m = 2 THEN -2 ELSE m, mvz |-> m, vr |-> v, ols |-> o]
MomentumBars(n) ==
  {MomentumBar(n, 5, 3, TRUE, 1, 60, 2, "NONE"), MomentumBar(n, 7, 4, TRUE, 0, 40, 0, "CONVERGENCE"),
   MomentumBar(n, 6, 2, TRUE, 2, 80, -3, "REGULAR_BEARISH")}
EightMomentumBars ==
  << MomentumBars(1), MomentumBars(2), MomentumBars(3), MomentumBars(4),
     MomentumBars(5) \cup MomentumBars(4) \cup {MomentumBar(5, 5, 5, FALSE, 1, 50, 0, "NONE")},
     MomentumBars(6), MomentumBars(8) \cup MomentumBars(7), MomentumBars(9) >>

\* E11: calm, trending and wild candles, a refused one and one without volume.
VectorOf(t, v, c, e, p, l, en, tu) ==
  [trend |-> t, volatility |-> v, compression |-> c, expansion |-> e, participation |-> p,
   liquidity |-> l, entropy |-> en, turb |-> tu]
RegimeBar(at, sane, inputs, volume, gap, contract, oi, vec) ==
  [at |-> at, sane |-> sane, inputs |-> inputs, volume |-> volume, gap |-> gap,
   contract |-> contract, oi |-> oi, thin |-> {"CRISIS"}, vec |-> vec]
Calm == VectorOf(30, 50, 50, 30, 50, 50, 30, 100)
Trending == VectorOf(70, 50, 50, 30, 50, 50, 50, 900)
Wild == VectorOf(30, 95, 5, 70, 70, 50, 85, 2100)
RegimeBars(n) ==
  {RegimeBar(n, TRUE, "full", 1, FALSE, TRUE, "AVAILABLE", Calm),
   RegimeBar(n, TRUE, "full", 1, FALSE, TRUE, "MISSING", Trending),
   RegimeBar(n, TRUE, "full", 1, FALSE, FALSE, "AVAILABLE", Wild),
   RegimeBar(n, TRUE, "full", 1, TRUE, TRUE, "AVAILABLE", [Calm EXCEPT !.participation = 70]),
   RegimeBar(n, FALSE, "full", 1, FALSE, TRUE, "AVAILABLE", Calm),
   RegimeBar(n, TRUE, "nopart", 0, FALSE, TRUE, "AVAILABLE", [Calm EXCEPT !.liquidity = 20]),
   RegimeBar(n, TRUE, "nopart", 0, FALSE, TRUE, "AVAILABLE",
             [Calm EXCEPT !.liquidity = 20, !.participation = 20])}
FiveRegimeBars ==
  << {RegimeBar(1, TRUE, "full", 1, FALSE, TRUE, "AVAILABLE", Calm),
      RegimeBar(1, FALSE, "full", 1, FALSE, TRUE, "AVAILABLE", Calm)},
     RegimeBars(2), RegimeBars(2) \cup RegimeBars(6), RegimeBars(7), RegimeBars(8) >>

\* E12, in half hours: the day turns at 48.
ClockBar(ts, k, s, v, g) ==
  [ts |-> ts, asOf |-> ts, known |-> k, sane |-> s, v |-> v, gap |-> g]
ClockBars(ts) ==
  {ClockBar(ts, TRUE, TRUE, 1, FALSE), ClockBar(ts, TRUE, FALSE, 1, FALSE),
   ClockBar(ts, FALSE, TRUE, 1, FALSE)}
SevenClockBars ==
  << ClockBars(13), ClockBars(14) \cup {ClockBar(13, TRUE, TRUE, 1, TRUE)},
     ClockBars(25) \cup {ClockBar(14, TRUE, TRUE, 0, TRUE)}, ClockBars(25) \cup ClockBars(40),
     ClockBars(41), ClockBars(42) \cup {ClockBar(28, TRUE, TRUE, 1, FALSE)}, ClockBars(63) >>
NoRedDays == {}
OneProfile ==
  {[days |-> 30, flat |-> FALSE, groups |-> "different", stable |-> TRUE, narrow |-> FALSE]}

\* The timeline and the training.
BarOf(fate, e03, e04) == [fate |-> fate, version |-> 1, e03 |-> e03, e04 |-> e04]
Both(fate) == {BarOf(fate, TRUE, TRUE)}
ThreeFates ==
  << Both("ok") \cup {BarOf("ok", FALSE, TRUE)},
     Both("ok") \cup {BarOf("novec", TRUE, FALSE)} \cup Both("late"),
     Both("ok") \cup Both("htf") \cup Both("norm"),
     Both("ok") >>

TrainRow(vector, confirmed_, rule, adjoins) ==
  [vector |-> vector, confirmed |-> confirmed_, rule0 |-> rule, adjoins |-> adjoins]
CellA1 == << TrainRow(TRUE, "no", "TREND", TRUE), TrainRow(TRUE, "yes", "RANGE", TRUE),
             TrainRow(TRUE, "no", "RANGE", TRUE) >>
CellA2 == << TrainRow(TRUE, "no", "TREND", TRUE), TrainRow(TRUE, "no", "RANGE", TRUE),
             TrainRow(TRUE, "yes", "RANGE", TRUE), TrainRow(TRUE, "no", "CHOP", TRUE) >>
CellB1 == << TrainRow(FALSE, "no", "TREND", TRUE), TrainRow(TRUE, "yes", "TREND", TRUE),
             TrainRow(TRUE, "unknown", "RANGE", TRUE), TrainRow(TRUE, "no", "RANGE", FALSE),
             TrainRow(TRUE, "yes", "RANGE", TRUE) >>
CellCalm == << TrainRow(TRUE, "no", "RANGE", TRUE), TrainRow(TRUE, "yes", "RANGE", TRUE),
               TrainRow(TRUE, "no", "CHOP", TRUE) >>
CellsToTrain == <<"a", "b">>
RowsToTrain == [a |-> {CellA1, CellA2, CellCalm}, b |-> {<<>>, CellB1, CellA2, CellCalm}]
ClassesToFit == {"TREND"}
-----------------------------------------------------------------------------
\* Inputs of the formulas README.md lists as stated without a run: one tape for
\* each, with the change of the configuration given there.

\* E01, StateStepsAreLegal.
TurningTape ==
  << {OHLC(3, 4, 2, 4)}, {OHLC(4, 4, 3, 4)}, {OHLC(4, 5, 0, 1)}, {OHLC(1, 3, 1, 3)}, {OHLC(3, 6, 3, 6)} >>

\* E05, FilledZonesEndFilled: bars wide enough to fill a zone at once.
WideFvgBars == [n \in 1..5 |-> {HLC(0, 0, 0), HLC(2, 2, 2), HLC(3, 3, 3), HLC(0, 8, 5)}]
=============================================================================
