CONSTANTS
  periodic = periodic
  oneshot = oneshot
  NULL = NULL
  Timers <- MCTimers
  ModesOf <- MCModesOf
  MAX_RTC_COUNTER_VAL = 9
  RTC_COMPARE_OFFSET_MIN = 2
  APP_TIMER_MIN_TIMEOUT_TICKS = 3
  OpQueueSize = 2
  TimeoutsOf <- MCTimeoutsOf
  MaxLatency = 1
  RestartRunning = FALSE
  StartsLate = TRUE
  UsesStopAll = {}
SPECIFICATION Spec
INVARIANT NeverEarly
