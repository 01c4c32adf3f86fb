SPECIFICATION Spec
CONSTANTS
  item = item
  unit = unit
  shelf = shelf
  stock = stock
  request = request
  d1 = d1
  d2 = d2
  Device = {d1, d2}
  Manager = {}
  Exempt = {}
  Row = {item, unit, shelf, request}
  NoRow = NoRow
  Parent <- UnitOfItem
  Gated = {shelf}
  NoUpsert = {request}
  Deletable = {item}
  NumWrites = 3
  MaxAttempts = 2
  BatchLimit = 2
  PostsOn = FALSE
SYMMETRY Symmetry
INVARIANT TypeOK
INVARIANT ParentsGoFirst
INVARIANT OwnLastWriteStands
CONSTRAINT ThirdWriteInFamily
PROPERTY CreateNeverReopens
