SPECIFICATION Spec
CONSTANTS
  NumEntries = 2
  LogEntry = {2}
  Delta <- MCDelta
  Stock0 = 0
  MaxAttempts = 2
  BatchLimit = 2
  Drainer = {d1, d2}
  LogPusher = logs
  Slot = {s1, s2}
  NoSlot = NoSlot
  RetryWindowHolds = TRUE
SYMMETRY Symmetry
INVARIANTS
  TypeOK
  AppliedAtMostOnce
  SyncedWasApplied
  RetryBudget
PROPERTIES
  NeverRequeued
  ImplementsLedger
