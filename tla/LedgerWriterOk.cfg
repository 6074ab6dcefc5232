SPECIFICATION FairSpec
CONSTANTS
  Ordinary = {r1, r2}
  Corrections = {c1}
  Resolutions = {d1}
  Genesis = Genesis
  QueueSize = 2
  FaultySteps <- AnyStatement
  MaxFaults = 2
  MaxRestarts = 2
INVARIANTS TypeOK ChainIsLinear ReturnedIsDurable
PROPERTIES AppendsAreAnswered LogSpec
CHECK_DEADLOCK FALSE
