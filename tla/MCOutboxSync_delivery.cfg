SPECIFICATION FairSpec
CONSTANTS
  NumEntries = 3
  LogEntry = {3}
  Delta <- MCDelta
  Stock0 = 0
  MaxAttempts = 1
  BatchLimit = 2
  Drainer = {d1}
  LogPusher = logs
  Slot = {s1}
  NoSlot = NoSlot
  RetryWindowHolds = TRUE
INVARIANTS
  NetStockWhenDrained
PROPERTIES
  ActiveIsDelivered
