SPECIFICATION FairSpec
CONSTANTS
  User = {u1}
  Leaver = {u1}
  Call = {c1}
  JwtLife = 1
  RefreshLife = 2
  Cap = 1
  MaxTime = 2
  MaxSessions = 2
CHECK_DEADLOCK FALSE
INVARIANTS TypeOK AccessEnds OwnTokens LatchMeansLeaving
PROPERTIES DeadSessionEnds
