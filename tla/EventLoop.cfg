SPECIFICATION Spec
CONSTANTS
  Chans = {c1, c2}
  Timers = {t1, t2}
  ChanHead = channels
  TimerHead = timers
  Fds = {3, 4}
  Durations = {1}
  TimerReturns <- MCTimerReturns
  Second = 2
  LoopTimeout = 1
  TimerInterval = 1
INVARIANTS
  TypeOK
  NodeAlive
  PassComplete
  WatchesChannels
PROPERTIES
  ListsAreQueues
  TimersServed
CHECK_DEADLOCK FALSE
