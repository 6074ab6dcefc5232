------------------------------ MODULE Engines ------------------------------
(***************************************************************************)
(* What the engines keep from one bar to the next, taken together.         *)
(***************************************************************************)
EXTENDS LiquidityEngine, VolumeEngine, FvgEngine, OrderBlockEngine, RtmEngine,
        WyckoffEngine, MomentumEngine, RegimeEngine, TemporalEngine

(* What the engines keep from bar to bar stays whole: active gaps of one   *)
(* direction are apart (E05), acts rest on acts of one range (E08), the    *)
(* extremes tracked were seen since the bars last changed their activity   *)
(* window (E02), pivots are where the price was (E10) and a volume is      *)
(* measured against the bars before it (E03).                              *)
BooksAreWhole ==
  /\ ZonesAreApart /\ ActsBelongToOneRange /\ ExtremesAreOfThisWindow
  /\ PivotsAreWhereTheyAre /\ MeasuredAgainstItsPast

(* The engines read their tape rightly: every order block is in exactly    *)
(* one place (E06), the confirmed components of a bundle form a chain      *)
(* (E07), a label changes when it is settled if the engine is fed candle    *)
(* after candle and is its candle's own raw label if it is built for one   *)
(* candle (E11), and the journal tells the day as it went (E12).           *)
TapesAreReadRightly ==
  /\ BlocksAreConserved /\ VerdictsFormAChain
  /\ LabelsFollowTheirFeed /\ JournalTellsTheDay
=============================================================================
