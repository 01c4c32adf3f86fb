SPECIFICATION Spec
CONSTANTS
  item = item
  unit = unit
  shelf = shelf
  stock = stock
  request = request
  d1 = d1
  Device = {d1}
  Manager = {d1}
  Exempt = {}
  Row = {shelf, stock}
  NoRow = NoRow
  Parent <- StockOnShelf
  Gated = {shelf}
  NoUpsert = {}
  Deletable = {}
  NumWrites = 3
  MaxAttempts = 2
  BatchLimit = 3
  PostsOn = TRUE
INVARIANT OrphansAreRetried
