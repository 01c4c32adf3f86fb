SPECIFICATION Spec
CONSTANTS
  t1 = t1
  list = list
  toast = toast
  Table = {t1}
  Outbox = Outbox
  All = All
  Null = Null
  Screen = {list, toast}
  Watches <- Subscriptions
  Slot = {x1, x2}
  MaxDepth = 2
  MaxCalls = 2
  MaxWrites = 1
  MaxOthers = 1
  MaxReloads = 1
CHECK_DEADLOCK FALSE
INVARIANTS TypeOK NoDrift NoStaleScreen
PROPERTIES SilentOrWhole StoresWhole SavedInTheEnd
