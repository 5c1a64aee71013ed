SPECIFICATION RtccSpec
CONSTANTS
  bg = bg
  a = a
  b = b
  ev = ev
  mx = mx
  ln = ln
  rm = rm
  tm = tm
  run = run
  NULL = NULL
  REMOVED = REMOVED
  Threads = {bg, a, b}
  Background = bg
  Prior <- PriorTwo
  Lowest = 2
  PriorLists = {ev, ln, rm, mx}
  TickLists = {tm}
  TickMod = 16
  BasicMode = TRUE
  NewPriors = {}
  Suspenders = {}
  MaxNest = 2
  Events = {ev, ln, rm}
  Broadcasts = {}
  EventUsers <- Waits
  TimerUsers = {a, b}
  TimerCalls = {"timer_period", "timer_delay"}
  TickCalls = {"task_updateTick"}
  TimedUsers = {}
  Abortable = {}
  Delays = {}
  MaxDelay = 2
  MaxLate = 6
  MaxTicks = 6
  Mutexes = {mx}
  MutexCalls = {"mutex_enter"}
  TimedMutex = {}
  QtyMod = 256
  Rtcc = a
  Prompt = b
  timer0 = tm
  _event = ev
  _mutex = mx
  Line = ln
  Room = rm
  OneSecond = 2
  Funcs = {run}
  Typed <- Ends
  Missed = {"month"}
INVARIANTS
  DatesValid
  AlarmOnTime
  NoLostStart
  NoTimerLeft
PROPERTIES
  ClockGoesOn
  AlarmKept
