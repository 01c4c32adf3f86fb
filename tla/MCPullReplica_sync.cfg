SPECIFICATION FairSpec
CONSTANTS
  NumRows = 2
  MaxWrites = 2
  LastLoss = 2
  MaxAttempts = 2
  Cycle = {c1, c2}
  Skew = 0
  FkDefault = TRUE
INVARIANTS
  TypeOK
  NothingSkipped
PROPERTIES
  CatchesUp
