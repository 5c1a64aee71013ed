SPECIFICATION TimerSpec
CONSTANTS
  bg = bg
  a = a
  b = b
  c = c
  tm = tm
  NULL = NULL
  REMOVED = REMOVED
  Threads = {bg, a, b, c}
  Background = bg
  Prior <- PriorMixed
  Lowest = 2
  PriorLists = {}
  TickLists = {tm}
  TickMod = 8
  BasicMode = FALSE
  NewPriors = {1}
  Suspenders = {}
  MaxNest = 0
  Events = {}
  Broadcasts = {}
  EventUsers = {}
  TimerUsers = {a, b}
  TimerCalls = {"timer_delay", "timer_period", "timer_shift", "timer_wait"}
  TickCalls = {"task_updateTick", "task_setTimeout", "task_increaseTimeout"}
  TimedUsers = {}
  Abortable = {"timer_delay"}
  Delays = {1}
  MaxDelay = 2
  MaxLate = 1
  MaxTicks = 2
INVARIANTS
  TimerTypeOK
  TimerLosesNoThread
PROPERTIES
  ImplementsScheduler
  TickWakesExactlyTheDue
