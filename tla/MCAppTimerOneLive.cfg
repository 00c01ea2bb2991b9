CONSTANTS
  timer = timer
  NULL = NULL
  Timers <- MCTimers
  ModesOf <- MCModesOf
  MAX_RTC_COUNTER_VAL = 13
  RTC_COMPARE_OFFSET_MIN = 2
  APP_TIMER_MIN_TIMEOUT_TICKS = 3
  OpQueueSize = 2
  TimeoutsOf <- MCTimeoutsOf
  MaxLatency = 1
  RestartRunning = FALSE
  StartsLate = FALSE
  UsesStopAll = {"main", "handler"}
SPECIFICATION FairSpec
PROPERTIES RunningEnds PeriodicRestarts
