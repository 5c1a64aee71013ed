SPECIFICATION EventSpec
CONSTANTS
  bg = bg
  a = a
  b = b
  c = c
  e1 = e1
  NULL = NULL
  REMOVED = REMOVED
  Threads = {bg, a, b}
  Background = bg
  Prior <- PriorShared
  Lowest = 1
  PriorLists = {e1}
  TickLists = {}
  TickMod = 1
  BasicMode = FALSE
  NewPriors = {}
  Suspenders = {}
  MaxNest = 0
  Events = {e1}
  Broadcasts = {}
  EventUsers <- BothWait
INVARIANTS
  OnlyBlockedAreListed
