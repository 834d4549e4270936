CONSTANTS
  NoName = NoName
  MAX_TIMER_COUNT = 2
  MIN_INTERVAL = 1
  MAX_INTERVAL_MS = 2
  MAX_LONG_INTERVAL_MS = 3
  Worker = worker
  NoCall = NoCall
  Never = Never
CHECK_DEADLOCK FALSE
CONSTANTS
  Names = {}
  Others = {}
  Requested = {0, 4}
  RawIntervals = {}
  RepeatCounts = {0, 1}
  MaxNow = 2
SPECIFICATION SpecLoopRuns
INVARIANTS SleepCoversTimers
PROPERTIES DueTimersFire
