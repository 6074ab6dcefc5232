SPECIFICATION Spec
CONSTANTS
  Intents = {i1}
  Proposals = {i1}
  ProposalOf <- OwnPlan
  Symbols <- OneSymbol
  SymbolOf <- SameSymbol
  Quantity = 2
  Tolerance = 1
  FillPollAttempts = 2
  OrderTables <- ShippedTable
  MaxRestarts = 0
INVARIANT ReachedPositionIsWatched
CHECK_DEADLOCK FALSE
