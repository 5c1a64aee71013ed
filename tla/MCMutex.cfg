SPECIFICATION MutexSpec
CONSTANTS
  bg = bg
  a = a
  b = b
  c = c
  m1 = m1
  e1 = e1
  e2 = e2
  tm = tm
  NULL = NULL
  REMOVED = REMOVED
  Threads = {bg, a, b, c}
  Background = bg
  Prior <- PriorDistinct
  Lowest = 3
  PriorLists = {m1, e1, e2}
  TickLists = {tm}
  TickMod = 6
  BasicMode = FALSE
  NewPriors = {}
  Suspenders = {a}
  MaxNest = 1
  Events = {e1, e2}
  Broadcasts = {e2}
  EventUsers <- OneWaits
  TimerUsers = {b}
  TimerCalls = {}
  TickCalls = {"task_setTimeout", "task_increaseTimeout"}
  TimedUsers <- OneEvent
  Abortable = {}
  Delays = {1}
  MaxDelay = 2
  MaxLate = 0
  MaxTicks = 2
  Mutexes = {m1}
  MutexCalls = {"mutex_enter", "mutex_enterCritical", "mutexTimer_enter", "mutexTimer_enterCritical"}
  TimedMutex <- OneTimed
INVARIANTS
  InterruptMask
  MutualExclusion
  NoStrandedWaiter
  MutexLosesNoThread
  TimeoutNotEarly
