SPECIFICATION Spec
CONSTANTS
  Chats = {owner, user}
  Owners = {owner}
  Levels = {1, 2}
  DedupSize = 1
  MaxUpdates = 3
  MaxNonces = 6
  Cells = {}
  Semaphore = 2
  MaxTrades = 1
  MaxClose = 0
  BatchLimit = 1
  MaxRestarts = 1
INVARIANTS TypeOK ExecutedOnce
PROPERTIES ActsBySpendingNonce LockIsQuiet OnlyRecoveryLowers
CHECK_DEADLOCK FALSE
