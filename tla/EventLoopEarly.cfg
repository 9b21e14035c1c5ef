SPECIFICATION Spec
CONSTANTS
  Chans = {c1}
  Timers = {t1}
  ChanHead = channels
  TimerHead = timers
  Fds = {3}
  Durations <- MCDurations
  TimerReturns <- MCTimerReturns
  Second = 4
  LoopTimeout = 1
  TimerInterval = 2
INVARIANTS
  NotEarly
CHECK_DEADLOCK FALSE
