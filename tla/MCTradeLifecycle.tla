-------------------------- MODULE MCTradeLifecycle ---------------------------
(***************************************************************************)
(* Small instances of TradeLifecycle for TLC.                              *)
(***************************************************************************)
EXTENDS TradeLifecycle, TLC

\* Every plan trades one contract, so that positions net against each other.
OneSymbol == {"BTCUSDT"}
SameSymbol == [i \in Intents |-> "BTCUSDT"]

\* Each intent its own plan, or two closes of a cell deciding the same plan.
OwnPlan == [i \in Intents |-> i]
OnePlan == {"plan"}
SamePlan == [i \in Intents |-> "plan"]

\* params/toobit_wire_v1.yaml as shipped, and a table that also knows the
\* kind manage_positions asks for.
Shipped == {"entry", "stop", "target"}
ShippedTable == {Shipped}
ExtendedTable == {Shipped \cup {"exit"}}
BothTables == ShippedTable \cup ExtendedTable

IntentSymmetry == Permutations(Intents)
=============================================================================
