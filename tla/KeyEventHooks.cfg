SPECIFICATION SysSpec
CONSTANTS
  Pids = {p1, p2}
  Programs = {p1}
  Nobody = Nobody
  Keys = {k1}
  STASH_EVENT_TIMEOUT = 1
  TIMEOUT_MS = 1
  MAX_EVENT_ID = 9
  MaxHooks = 3
  MaxEvents = 2
  MaxNow = 1
  MaxRefusals = 1
  MaxLost = 1
CHECK_DEADLOCK FALSE
INVARIANTS OneWay WindowOrder CheckersBelongToHooks  LibraryLetsPass
PROPERTIES OffersInOrder
