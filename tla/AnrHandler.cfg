SPECIFICATION FairSpec
CONSTANTS
  Sessions = {s1}
  Other = Other
  Nobody = Nobody
  ANR_DISPATCH = dispatch
  ANR_MONITOR = monitor
  MonitorEvents = {1}
  MAX_TIMER_COUNT = 2
  MAX_ANR_TIMERS = 2
  TimerDelay = 2
  INPUT_UI_TIMEOUT = 2
  HandleThreshold = 0
  MaxEvents = 2
  MaxNow = 3
CHECK_DEADLOCK FALSE
INVARIANTS TypeOK CountMatchesRecords ArmedTimersAreRecorded   PendingHasTask
  
