SPECIFICATION FairSpec
CONSTANTS
  Intents = {i1, i2}
  Proposals <- OnePlan
  ProposalOf <- SamePlan
  Symbols <- OneSymbol
  SymbolOf <- SameSymbol
  Quantity = 2
  Tolerance = 1
  FillPollAttempts = 3
  OrderTables <- BothTables
  MaxRestarts = 2
INVARIANTS OneEntryPerPlan
PROPERTIES PipelineReturns ContractSpec
CHECK_DEADLOCK FALSE
