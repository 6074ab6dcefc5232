SPECIFICATION Spec
CONSTANTS
  Intents = {i1, i2}
  Proposals = {i1, i2}
  ProposalOf <- OwnPlan
  Symbols <- OneSymbol
  SymbolOf <- SameSymbol
  Quantity = 2
  Tolerance = 1
  FillPollAttempts = 2
  OrderTables <- ExtendedTable
  MaxRestarts = 1
SYMMETRY IntentSymmetry
INVARIANTS TypeOK EntryIsTraceable LegsFollowBookedFill CloseIsBooked
PROPERTIES RowsFollowMatrix
CHECK_DEADLOCK FALSE
