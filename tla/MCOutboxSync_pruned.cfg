SPECIFICATION Spec
CONSTANTS
  NumEntries = 2
  LogEntry = {2}
  Delta <- MCDelta
  Stock0 = 1
  MaxAttempts = 2
  BatchLimit = 2
  Drainer = {d1}
  LogPusher = logs
  Slot = {s1, s2}
  NoSlot = NoSlot
  RetryWindowHolds = FALSE
SYMMETRY Symmetry
INVARIANTS
  AppliedAtMostOnce
