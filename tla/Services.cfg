SPECIFICATION ServicesSpec
CONSTANTS
  Foci <- AllFoci
  Orders <- OneOrder
  WireCells <- OneWireCell
  WireCell <- SameCell
  AskedQuantity <- Asked
  AskedPrice <- AskedAt
  QuantityStep = 2
  TickSize = 2
  MinNotional = 1
  RetryAttempts = 3
  BucketCapacity = 1
  MaxRequests = 2
  BootSymbols <- BootContracts
  RowName <- SameNames
  BootTolerance = 1
  Lots <- NetLots
  AdapterWired = TRUE
  ProvidersWired = TRUE
  MaxBoots = 2
  BusEvents <- FourEvents
  Mixes <- TwoMixes
  Consumers <- TwoConsumers
  LaneSize = 1
  CandleQueueSize = 1
  LogSize = 1
  Signals <- SetupSignals
  PolicyAlerts <- Alerts
  Senders <- TwoSenders
  Capacity = 1
  RetryTimes = 2
  Window = 1
  KeyTtl = 1
  MaxTicks = 1
  MaxOffers = 2
  CellOrder <- OneCell
  LastMoment = 3
  PageLimit = 1
  PageBudget = 1
  MaxRuns = 2
  MaxFaults = 2
  LastBar = 3
  LastTick = 5
  Skew = 1
  BudgetPermille = 5
  DailyCap = 3
  WeeklyCap = 6
  StreakHalt = 3
  MaxRevisions = 3
  Proposals <- TwoProposals
  DueAt <- FirstAndLastClose
  ReadKeys <- ReadUnderIntent
  IntentOf <- Intents
  OutcomeNamed = TRUE
  Capital = 400
  Results <- SomeResults
  ClosesPerDay = 1
  DaysPerWeek = 2
  LastClose = 2
  MissLimit = 2
  DecisionLimit = 1
  OpenOrders <- TwoOpenOrders
  Credential = TRUE
  LastTime = 2
  MaxEvents = 2
  RootCells <- RootCellNames
  PartialRows <- PartialRowNames
  LateRows = 2
  MaxCommands = 2
INVARIANTS RefusalMeansNoOrder VerdictIsTrue BusKeepsItsWord DeliveriesAreTraceable HistoryIsWhole OneBarPerOpenTime LadderNeverSoftens AccountIsTrue LogVerdictIsTrue ExitCodeIsTrue
PROPERTIES AdmittedOnKnownAccount
CHECK_DEADLOCK FALSE
