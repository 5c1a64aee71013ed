SPECIFICATION SerialSpec
CONSTANTS
  bg = bg
  a = a
  b = b
  tp = tp
  rp = rp
  tg = tg
  rg = rg
  ti = ti
  ri = ri
  to = to
  ro = ro
  e = e
  tm = tm
  tx = tx
  rx = rx
  NULL = NULL
  REMOVED = REMOVED
  Threads = {bg, a, b}
  Background = bg
  Prior <- PriorTwo
  Lowest = 2
  PriorLists = {tp, rp, tg, rg, ti, ri, to, ro, e}
  TickLists = {tm}
  TickMod = 6
  BasicMode = FALSE
  NewPriors = {}
  Suspenders = {}
  MaxNest = 3
  Events = {ti, ri, to, ro, e}
  Broadcasts = {}
  EventUsers <- Waits
  TimerUsers = {b}
  TimerCalls = {}
  TickCalls = {"task_setTimeout"}
  TimedUsers <- TimedWait
  Abortable = {}
  Delays = {1}
  MaxDelay = 1
  MaxLate = 1
  MaxTicks = 1
  Mutexes = {tp, rp, tg, rg}
  MutexCalls = {"mutex_enterCritical", "mutexTimer_enterCritical"}
  TimedMutex <- TimedGet
  Queues = {tx, rx}
  Size <- Sizes
  Putting <- PutMutexes
  Getting <- GetMutexes
  Input <- Inputs
  Output <- Outputs
  Calls <- QueueCalls
  Tx = tx
  Rx = rx
  Thd = 1
  SerialCalls <- Sessions
  Hit = {"digit", "back", "minus", "control"}
  Words = {0}
  BufferSize = 2
  OptLen <- Options
  MaxLeaks = 1
INVARIANTS
  TransmitterArmed
  EditorInBounds
  SenderServed
PROPERTIES
  SectionsClosed
