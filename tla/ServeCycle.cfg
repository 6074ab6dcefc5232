SPECIFICATION FairSpec
CONSTANTS
  Chats = {owner, user}
  Owners = {owner}
  Levels = {1, 2}
  DedupSize = 2
  MaxUpdates = 0
  MaxNonces = 0
  Cells = {c1, c2}
  Semaphore = 2
  MaxTrades = 1
  MaxClose = 2
  BatchLimit = 2
  MaxRestarts = 1
INVARIANTS BudgetRespected
PROPERTIES DecidedOnce CursorIsEarned PositionsAreManaged
CHECK_DEADLOCK FALSE
