SPECIFICATION DecisionsSpec
CONSTANTS
  Foci <- StructureFocus
  Voice <- Voices
  EngineWeight <- Weights
  EngineGroup <- Groups
  Rooted <- AllVoices
  QMin = 50
  ZoneEnds <- FilledZones
  BarSteps <- ThreeBars
  LastFabricBar = 6
  MaxFaults = 2
  Timeframes <- BridgeFrames
  SetupFrame <- FifteenMinutes
  BarTicks = 1
  LastTick = 3
  Bootstrapped = 1
  Window = 1
  RefreshAge = 1
  Levels <- UncertaintyLevels
  MaxVersions = 2
  MaxMishaps = 1
  Tape <- StructureTape
  Atr = 1
  MinBars = 1
  LiquidityTape <- SixLiquidityBars
  WindowOf <- TwoDaysOfWindows
  VoidFills <- OneVoidFilled
  RangeAtr = 1
  LevelExpiry = 96
  EdgeBars = 4
  WarmUp = 1
  VolumeTape <- SevenVolumeBars
  WarmBars = 3
  AverageBars = 2
  OiFlatBars = 3
  OiGapBars = 1
  WashBars = 5
  BadBarLimit = 2
  FvgTape <- SixFvgBars
  MinWidth = 1
  MaxAge = 5
  BlockTape <- SevenBlockBars
  BlockAtr = 20
  DispMaxK = 2
  MaxBlockAge = 2
  Chain <- Components
  NameOrder <- ByName
  WeightOf <- ComponentWeights
  RtmContexts <- OneRtmContext
  WindowBars = 2
  BucketBars = 2
  ConflictBars = 2
  BundleExpiryBars = 1
  LastRtmBar = 3
  MaxConfirmations = 3
  MaxBundles = 2
  WyckoffTape <- SixCycleBars
  RangeBars = 2
  RallyBars = 2
  SpringBars = 2
  MaxRangeAge = 3
  MomentumTape <- EightMomentumBars
  PivotBars = 1
  SmootherPeriod = 2
  MinHistory = 4
  FullHistory = 6
  BufferBars = 5
  RegimeTape <- FiveRegimeBars
  ConfirmBars = 3
  WarmUpSamples = 1
  TemporalTape <- SevenClockBars
  RedDays <- NoRedDays
  NoCalendar = NoCalendar
  Profiles <- OneProfile
  HistoryCap = 3
  BarFates <- ThreeFates
  WarmUpBars = 1
  MaxFixes = 1
  MaxHtfFixes = 1
  MaxEscapes = 1
  TrainedCells <- CellsToTrain
  RowsOf <- RowsToTrain
  LabelDelay = 2
  RequiredClasses <- ClassesToFit
  MaxInvocations = 2
  MaxStoreChanges = 1
PROPERTIES SaidInTime
CHECK_DEADLOCK FALSE
