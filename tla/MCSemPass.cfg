SPECIFICATION SemSpec
CONSTANTS
  bg = bg
  a = a
  b = b
  c = c
  s = s
  s2 = s2
  tm = tm
  NULL = NULL
  REMOVED = REMOVED
  Threads = {bg, a, b, c}
  Background = bg
  Prior <- PriorDistinct
  Lowest = 3
  PriorLists = {s, s2}
  TickLists = {}
  TickMod = 1
  BasicMode = FALSE
  NewPriors = {}
  Suspenders = {a, b}
  MaxNest = 2
  Events = {}
  Broadcasts = {}
  EventUsers = {}
  TimerUsers = {}
  TimerCalls = {}
  TickCalls = {}
  TimedUsers = {}
  Abortable = {}
  Delays = {}
  MaxDelay = 0
  MaxLate = 0
  MaxTicks = 0
  Sems = {s, s2}
  SemUsers <- AllWait
  TimedSems = {}
INVARIANTS
  WokenFindsGreen
