SPECIFICATION DemoSpec
CONSTANTS
  bg = bg
  led = led
  clk = clk
  term = term
  snd = snd
  ev = ev
  sw = sw
  eoc = eoc
  ln = ln
  rm = rm
  ie = ie
  oe = oe
  pm = pm
  gm = gm
  bs = bs
  t0 = t0
  t1 = t1
  q1 = q1
  NULL = NULL
  REMOVED = REMOVED
  Threads = {bg, led, clk, term, snd}
  Background = bg
  Prior <- PriorInfo
  Lowest = 3
  PriorLists = {ev, sw, eoc, ln, rm, ie, oe, pm, gm, bs}
  TickLists = {t0, t1}
  TickMod = 16
  BasicMode = FALSE
  NewPriors = {}
  Suspenders = {}
  MaxNest = 2
  Events = {ev, sw, eoc, ln, rm, ie, oe}
  Broadcasts = {}
  EventUsers <- Waits
  TimerUsers = {led, clk, term}
  TimerCalls = {"timer_period", "timer_shift"}
  TickCalls = {"task_updateTick", "task_setTimeout", "task_increaseTimeout"}
  TimedUsers <- TimedWaits
  Abortable = {}
  Delays = {}
  MaxDelay = 3
  MaxLate = 4
  MaxTicks = 4
  Mutexes = {pm, gm, bs}
  MutexCalls = {"mutex_enterCritical", "mutexTimer_enterCritical"}
  TimedMutex <- TimedGet
  QtyMod = 256
  Queues = {q1}
  Size <- TwoBytes
  Putting <- PuttingOne
  Getting <- GettingOne
  Input <- InputOne
  Output <- OutputOne
  Calls <- NoCalls
  Led = led
  Clock = clk
  Term = term
  Sender = snd
  timer0 = t0
  timer1 = t1
  _event = ev
  _queue = q1
  _switch = sw
  _endOfConversion = eoc
  _busy = bs
  Line = ln
  Room = rm
  Tenth = 1
  Fifth = 1
  Second = 2
  FiveSeconds = 3
  TestTicks = 1
  Letters = 2
  PtrSize = 1
  StrSize = 2
  Rounds = 1
  Lines = 1
  Typed <- Numbers
  Seconds = {1}
INVARIANTS
  WaitIsOver
