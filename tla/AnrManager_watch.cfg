SPECIFICATION Spec
CONSTANTS
  Sessions = {s1, s2}
  Other = Other
  Nobody = Nobody
  MAX_TIMER_COUNT = 3
  MAX_ANR_TIMERS = 3
  TimerDelay = 2
  INPUT_UI_TIMEOUT = 2
  HandleThreshold = 0
  MaxEvents = 3
  MaxNow = 4
CHECK_DEADLOCK FALSE
PROPERTIES WatchIsKept
SYMMETRY Symmetry
