SPECIFICATION SemSpec
CONSTANTS
  bg = bg
  a = a
  b = b
  c = c
  s = s
  s2 = s2
  tm = tm
  NULL = NULL
  REMOVED = REMOVED
  Threads = {bg, a, b, c}
  Background = bg
  Prior <- PriorDistinct
  Lowest = 3
  PriorLists = {s, s2}
  TickLists = {tm}
  TickMod = 6
  BasicMode = FALSE
  NewPriors = {}
  Suspenders = {}
  MaxNest = 0
  Events = {}
  Broadcasts = {}
  EventUsers = {}
  TimerUsers = {b}
  TimerCalls = {}
  TickCalls = {"task_setTimeout"}
  TimedUsers = {}
  Abortable = {}
  Delays = {1}
  MaxDelay = 1
  MaxLate = 1
  MaxTicks = 2
  Sems = {s, s2}
  SemUsers <- AllWait
  TimedSems <- OneTimed
INVARIANTS
  SemTypeOK
  SemLosesNoThread
  NoLostSignal
  ListsSorted
  PreemptiveAfterInterrupts
