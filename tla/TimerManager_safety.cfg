CONSTANTS
  NoName = NoName
  MAX_TIMER_COUNT = 2
  MIN_INTERVAL = 1
  MAX_INTERVAL_MS = 2
  MAX_LONG_INTERVAL_MS = 3
  Worker = worker
  NoCall = NoCall
  Never = Never
CHECK_DEADLOCK FALSE
CONSTANTS
  Names = {plugin}
  Others = {binder}
  Requested = {2}
  RawIntervals = {0}
  RepeatCounts = {1, 2}
  MaxNow = 2
SPECIFICATION Spec
INVARIANTS TypeOK UniqueIds SortedByDueTime
PROPERTIES ImplementsTimerTable
