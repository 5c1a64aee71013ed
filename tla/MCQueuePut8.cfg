SPECIFICATION QueueSpec
CONSTANTS
  bg = bg
  a = a
  b = b
  d = d
  pm = pm
  gm = gm
  ie = ie
  oe = oe
  e = e
  tm = tm
  q1 = q1
  NULL = NULL
  REMOVED = REMOVED
  Threads = {bg, a, b, d}
  Background = bg
  Prior <- PriorDistinct
  Lowest = 3
  PriorLists = {pm, gm, ie, oe, e}
  TickLists = {tm}
  TickMod = 6
  BasicMode = FALSE
  NewPriors = {}
  Suspenders = {}
  MaxNest = 1
  Events = {ie, oe, e}
  Broadcasts = {}
  EventUsers <- AllWait
  TimerUsers = {b, d}
  TimerCalls = {}
  TickCalls = {"task_setTimeout"}
  TimedUsers <- AllTimed
  Abortable = {}
  Delays = {1}
  MaxDelay = 1
  MaxLate = 1
  MaxTicks = 1
  Mutexes = {pm, gm}
  MutexCalls = {"mutex_enterCritical", "mutexTimer_enterCritical"}
  TimedMutex <- AllTimedMutex
  Queues = {q1}
  Size <- TwoBytes
  Putting <- PuttingOne
  Getting <- GettingOne
  Input <- InputOne
  Output <- OutputOne
  Calls <- Put8Calls
INVARIANTS
  MutualExclusion
