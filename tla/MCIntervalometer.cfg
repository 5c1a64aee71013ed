SPECIFICATION InterSpec
CONSTANTS
  bg = bg
  a = a
  b = b
  c = c
  ev = ev
  sw = sw
  ln = ln
  tm = tm
  NULL = NULL
  REMOVED = REMOVED
  Threads = {bg, a, b, c}
  Background = bg
  Prior <- PriorApart
  Lowest = 3
  PriorLists = {ev, sw, ln}
  TickLists = {tm}
  TickMod = 14
  BasicMode = TRUE
  NewPriors = {}
  Suspenders = {}
  MaxNest = 3
  Events = {ev, sw, ln}
  Broadcasts = {}
  EventUsers <- Waits
  TimerUsers = {a, c}
  TimerCalls = {"timer_period", "timer_shift", "timer_delay"}
  TickCalls = {"task_updateTick"}
  TimedUsers = {}
  Abortable = {"timer_period", "timer_shift"}
  Delays = {}
  MaxDelay = 24
  MaxLate = 6
  MaxTicks = 4
  Mutexes = {}
  MutexCalls = {}
  TimedMutex = {}
  QtyMod = 256
  Shooter = a
  Prompt = b
  Switch = c
  timer1 = tm
  commandEvent = ev
  _switch = sw
  Line = ln
  Freq = 1
  Lead = 2
  Speeds <- SomeSpeeds
  _speeds <- BuiltSpeeds
  Start <- Far
  Typed <- OneTyped
  Zeroes = {"long"}
  MaxLeaks = 1
INVARIANTS
  SleeperTimed
  LedsSafe
  StopNotSleptOver
  ExposureLasts
  ExposureNotLonger
