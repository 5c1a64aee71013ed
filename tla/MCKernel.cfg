SPECIFICATION CooperativeSpec
CONSTANTS
  bg = bg
  a = a
  b = b
  c = c
  NULL = NULL
  REMOVED = REMOVED
  Threads = {bg, a, b, c}
  Background = bg
  Prior <- PriorMixed
  Lowest = 2
  PriorLists = {}
  TickLists = {}
  TickMod = 1
  BasicMode = FALSE
  NewPriors = {0}
  Suspenders = {a, b, c}
  MaxNest = 2
INVARIANTS
  KernelTypeOK
  NeverJumpsToNull
  InterruptMask
  NoThreadLost
  PreemptivePriority
PROPERTIES
  ClientSectionHeld
  ImplementsScheduler
  TakesTurns
