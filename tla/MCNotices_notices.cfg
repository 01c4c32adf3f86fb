SPECIFICATION Spec
CONSTANTS
  Level = {stock}
  Assign = {assign}
  Watch = {idle}
  Record = {row}
  Large = {move}
  Request = {req}
  Person = {p1, p2}
  Lead = {}
  Requester = p1
  NoKey = NoKey
  Task = {t1, t2}
  MaxTasks = 3
  MaxMoves = 1
  MaxFaults = 1
SYMMETRY Symmetry
CONSTRAINT TwoEvents
CHECK_DEADLOCK FALSE
INVARIANTS TypeOK NoBurnedKey MovementFlagged LowStockTold OneNoticePerFall RequesterKnows
PROPERTIES TellsOnce
