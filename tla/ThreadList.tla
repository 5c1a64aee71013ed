------------------------------ MODULE ThreadList ------------------------------
(***************************************************************************)
(* The intrusive lists of thread-list.h, as operators on the kernel's      *)
(* memory.  A memory k is a record with one field per structure member the *)
(* list code reads or writes:                                              *)
(*                                                                         *)
(*   running          the handle of the running thread (anyRTOS.c:44)      *)
(*   first, last      the ready queues, one per priority                   *)
(*   head             the first pointer of every prior list and tick list  *)
(*   nextPr, prevPr   the priority links of every thread                   *)
(*   nextTk, prevTk   the tick links of every thread                       *)
(*   prior, tick      the priority and the timestamp of every thread       *)
(*                                                                         *)
(* A pointer to a thread is the thread itself or NULL.  prevPr and prevTk  *)
(* are pointers to a pointer: they hold the ADDRESS of a head or of the    *)
(* link of another thread, and the removals write through them.  The code  *)
(* updates few of these back pointers, so the model keeps each one and     *)
(* never recomputes it from the list.                                      *)
(*                                                                         *)
(* The loops that walk a list are defined without recursion: a loop is     *)
(* given by the set of threads its cursor visits.                          *)
(*                                                                         *)
(* In the basic mode nextPr and nextTk are one union member and there are  *)
(* no back pointers: the model then uses nextPr for both, and prevPr and   *)
(* prevTk stay null.  No thread is in two lists in this mode, whose timed  *)
(* waits are waits without a time (event.h:90-94).                         *)
(***************************************************************************)
EXTENDS Integers, FiniteSets

CONSTANTS
  Threads,     \* the thread handles, the background thread included
  Lowest,      \* LOWEST_PRIOR: the priorities are 0 .. Lowest
  PriorLists,  \* the objects that own a priorList_t (events, mutexes, ...)
  TickLists,   \* the objects that own a tickList_t (timers)
  TickMod,     \* the number of values of tick_t (2^16 on the target)
  BasicMode,   \* ANYRTOS_BASIC_MODE
  NULL,        \* the null pointer
  REMOVED      \* the mark (thread_t** )1 of thread_removeFromTickList

ASSUME ListAssumption ==
  /\ Lowest \in Nat
  /\ TickMod \in Nat \ {0}
  /\ BasicMode \in BOOLEAN
  /\ NULL \notin Threads /\ IsFiniteSet(Threads)
  /\ PriorLists \cap TickLists = {} /\ NULL \notin PriorLists \cup TickLists

Priors  == 0 .. Lowest
Ticks   == 0 .. TickMod - 1
Lists   == PriorLists \cup TickLists
Pointer == Threads \cup {NULL}

\* The addresses a thread_t** can hold: of a list's first member, or of a link.
HeadOf(l)    == [field |-> "head",   of |-> l]
NextPrOf(th) == [field |-> "nextPr", of |-> th]
NextTkOf(th) == [field |-> IF BasicMode THEN "nextPr" ELSE "nextTk", of |-> th]

PrAddress == {HeadOf(l) : l \in PriorLists} \cup {NextPrOf(th) : th \in Threads}
TkAddress == {HeadOf(l) : l \in TickLists}  \cup {NextTkOf(th) : th \in Threads}

\* No list and no thread lies at the address 0 or 1.
ASSUME AddressAssumption ==
  NULL \notin PrAddress \cup TkAddress /\ REMOVED \notin TkAddress \cup {NULL}

Memory ==
  [running : Pointer,
   first   : [Priors -> Pointer],
   last    : [Priors -> Pointer],
   head    : [Lists -> Pointer],
   nextPr  : [Threads -> Pointer],
   nextTk  : [Threads -> Pointer],
   prevPr  : [Threads -> PrAddress \cup {NULL}],
   prevTk  : [Threads -> TkAddress \cup {NULL, REMOVED}],
   prior   : [Threads -> Priors],
   tick    : [Threads -> Ticks]]

\* th->nextTk, and the assignment to it.
TkLinks(k) == IF BasicMode THEN k.nextPr ELSE k.nextTk
LinkTk(k, th, next) ==
  IF BasicMode THEN [k EXCEPT !.nextPr[th] = next] ELSE [k EXCEPT !.nextTk[th] = next]

-----------------------------------------------------------------------------
(* Walking a list. *)

\* The threads a cursor visits: from start it follows next as long as it is in go.
Visits(next, start, go) ==
  {i \in Threads :
     \A S \in SUBSET Threads :
       (start \in S /\ \A j \in S \cap go : next[j] \in S \cup {NULL}) => i \in S}

\* The thread at which the loop "for (i = start; i in go; i = next[i])" ends.
LoopEnd(next, start, go) ==
  IF \E i \in Visits(next, start, go) : i \notin go
    THEN CHOOSE i \in Visits(next, start, go) : i \notin go
    ELSE start

\* The threads of the list that starts at a pointer.
Chain(next, start) ==
  IF start = NULL THEN {}
  ELSE Visits(next, start, {i \in Threads : next[i] # NULL})

\* A walk of the list reaches the null pointer: no thread comes twice.
Terminates(next, start) ==
  start # NULL => \E i \in Chain(next, start) : next[i] = NULL

-----------------------------------------------------------------------------
(* Initialisation (thread-list.h:58-66) *)

thread_init(k, th, prior) ==
  [k EXCEPT !.prior[th]  = prior, !.tick[th]   = 0,
            !.nextPr[th] = NULL,  !.nextTk[th] = NULL,
            !.prevPr[th] = NULL,  !.prevTk[th] = NULL]

-----------------------------------------------------------------------------
(* Ticks (thread-list.h:37-39, 71-73) *)

\* (tick_t)-1 >> 1, how far apart two ticks may be to be told apart.
HalfRound == (TickMod - 1) \div 2

\* tick_t is unsigned: a is taken to be over b in the half range after b.
tick_isOver(a, b) == (a - b) % TickMod <= HalfRound

-----------------------------------------------------------------------------
(* Back pointers (thread-list.h:78-126, and 161-184 in the basic mode) *)

\* *a = v
Store(k, a, v) ==
  CASE a.field = "head"   -> [k EXCEPT !.head[a.of] = v]
    [] a.field = "nextPr" -> [k EXCEPT !.nextPr[a.of] = v]
    [] a.field = "nextTk" -> [k EXCEPT !.nextTk[a.of] = v]

thread_pointedByTickList(k, th, a) ==
  IF BasicMode THEN Store(k, a, th) ELSE [Store(k, a, th) EXCEPT !.prevTk[th] = a]
thread_pointedByPriorList(k, th, a) ==
  IF BasicMode THEN Store(k, a, th) ELSE [Store(k, a, th) EXCEPT !.prevPr[th] = a]

\* In the basic mode prevTk and prevPr are null, and these two do nothing.
thread_removeFromTickList(k, th) ==
  IF k.prevTk[th] \in {NULL, REMOVED} THEN k
  ELSE [Store(k, k.prevTk[th], k.nextTk[th]) EXCEPT !.prevTk[th] = REMOVED]

thread_removeFromPriorList(k, th) ==
  IF k.prevPr[th] = NULL THEN k
  ELSE [Store(k, k.prevPr[th], k.nextPr[th]) EXCEPT !.prevPr[th] = NULL]

-----------------------------------------------------------------------------
(* Lists sorted by priority (thread-list.h:211-251) *)

\* Mutant: inserts th behind i and forgets what followed i.
priorList_put_unlinked(k, l, th) ==
  IF k.head[l] = NULL
  THEN thread_pointedByPriorList(k, th, HeadOf(l))
  ELSE LET before == {i \in Threads : /\ k.nextPr[i] # NULL
                                      /\ k.prior[k.nextPr[i]] < k.prior[th]}
           i == LoopEnd(k.nextPr, k.head[l], before)
       IN  thread_pointedByPriorList(k, th, NextPrOf(i))

\* Mutant: compares the wrong way round.
priorList_put_reversed(k, l, th) ==
  IF k.head[l] = NULL
  THEN thread_pointedByPriorList(k, th, HeadOf(l))
  ELSE LET before == {i \in Threads : /\ k.nextPr[i] # NULL
                                      /\ k.prior[k.nextPr[i]] > k.prior[th]}
           i == LoopEnd(k.nextPr, k.head[l], before)
       IN  thread_pointedByPriorList(
             [k EXCEPT !.nextPr[th] = k.nextPr[i]], th, NextPrOf(i))

\* The empty-list branch leaves th->nextPr as it is, and the loop never
\* compares th with the first thread.
priorList_put(k, l, th) ==
  IF k.head[l] = NULL
  THEN thread_pointedByPriorList(k, th, HeadOf(l))
  ELSE LET before == {i \in Threads : /\ k.nextPr[i] # NULL
                                      /\ k.prior[k.nextPr[i]] < k.prior[th]}
           i == LoopEnd(k.nextPr, k.head[l], before)
       IN  thread_pointedByPriorList(
             [k EXCEPT !.nextPr[th] = k.nextPr[i]], th, NextPrOf(i))

\* Mutant: empties the list.
priorList_get_flush(k, l) ==
  LET th == k.head[l]
  IN  IF th = NULL THEN k
      ELSE thread_removeFromTickList(
             [k EXCEPT !.head[l] = NULL, !.prevPr[th] = NULL], th)

\* The thread returned is k.head[l]; this is the memory after the call.
priorList_get(k, l) ==
  LET th == k.head[l]
  IN  IF th = NULL THEN k
      ELSE thread_removeFromTickList(
             [k EXCEPT !.head[l] = k.nextPr[th], !.prevPr[th] = NULL], th)

-----------------------------------------------------------------------------
(* Lists sorted by timer tick (thread-list.h:278-341) *)

\* Mutant: always inserts at the head, as if the list were not sorted.
tickList_put_unsorted(k, l, th) ==
  thread_pointedByTickList(LinkTk(k, th, k.head[l]), th, HeadOf(l))

tickList_put(k, l, th) ==
  LET Over(i) == tick_isOver(k.tick[i], k.tick[th])
  IN  IF k.head[l] = NULL \/ Over(k.head[l])
      THEN thread_pointedByTickList(LinkTk(k, th, k.head[l]), th, HeadOf(l))
      ELSE LET next   == TkLinks(k)
               before == {i \in Threads : next[i] # NULL /\ ~ Over(next[i])}
               i == LoopEnd(next, k.head[l], before)
           IN  thread_pointedByTickList(LinkTk(k, th, next[i]), th, NextTkOf(i))

\* Mutant: one tick early.
tickList_due_early(k, l, tick) ==
  IF k.head[l] # NULL /\ tick_isOver(tick + 1, k.tick[k.head[l]])
    THEN k.head[l] ELSE NULL

\* The thread tickList_get returns.
tickList_due(k, l, tick) ==
  IF k.head[l] # NULL /\ tick_isOver(tick, k.tick[k.head[l]])
    THEN k.head[l] ELSE NULL

\* The memory after tickList_get, when it returns a thread.
tickList_get(k, l, tick) ==
  LET th == tickList_due(k, l, tick)
  IN  IF th = NULL THEN k
      ELSE thread_removeFromPriorList(
             [k EXCEPT !.head[l] = TkLinks(k)[th], !.prevTk[th] = NULL], th)

\* threadList_remove finds th by walking the list; the prior list is left alone.
threadList_has(k, l, th) == th \in Chain(TkLinks(k), k.head[l])

\* Mutant: cuts the list where th was.
threadList_remove_cut(k, l, th) ==
  IF ~ threadList_has(k, l, th) THEN k
  ELSE IF k.head[l] = th
  THEN [k EXCEPT !.head[l] = NULL, !.prevTk[th] = NULL]
  ELSE LET next == TkLinks(k)
           i == LoopEnd(next, k.head[l], {j \in Threads : next[j] # th})
       IN  [LinkTk(k, i, NULL) EXCEPT !.prevTk[th] = NULL]

threadList_remove(k, l, th) ==
  IF ~ threadList_has(k, l, th) THEN k
  ELSE IF k.head[l] = th
  THEN [k EXCEPT !.head[l] = TkLinks(k)[th], !.prevTk[th] = NULL]
  ELSE LET next == TkLinks(k)
           i == LoopEnd(next, k.head[l], {j \in Threads : next[j] # th})
       IN  [LinkTk(k, i, next[th]) EXCEPT !.prevTk[th] = NULL]

-----------------------------------------------------------------------------
(* Ready queues (thread-list.h:361-450) *)

threadQueue_get(k, p) ==
  IF k.first[p] = NULL THEN k
  ELSE IF k.first[p] = k.last[p]
  THEN [k EXCEPT !.first[p] = NULL, !.last[p] = NULL]
  ELSE [k EXCEPT !.first[p] = k.nextPr[k.first[p]]]

\* Mutant: leaves the link th had in the list it comes from.
threadQueue_put_linked(k, p, th) ==
  IF k.first[p] = NULL
  THEN [k EXCEPT !.first[p] = th, !.last[p] = th]
  ELSE [k EXCEPT !.nextPr[k.last[p]] = th, !.last[p] = th]

\* Mutant: a stack instead of a queue.
threadQueue_put_first(k, p, th) ==
  [k EXCEPT !.nextPr[th] = k.first[p], !.first[p] = th,
            !.last[p] = IF k.first[p] = NULL THEN th ELSE @]

threadQueue_put(k, p, th) ==
  IF k.first[p] = NULL
  THEN [k EXCEPT !.nextPr[th] = NULL, !.first[p] = th, !.last[p] = th]
  ELSE [k EXCEPT !.nextPr = [@ EXCEPT ![th] = NULL, ![k.last[p]] = th],
                 !.last[p] = th]

threadQueueArray_put(k, th) == threadQueue_put(k, k.prior[th], th)

\* The priorities that have a ready thread.
ReadyPriors(k) == {p \in Priors : k.first[p] # NULL}

\* The highest of them.
HighestReady(k) == CHOOSE p \in ReadyPriors(k) : \A q \in ReadyPriors(k) : p <= q

\* The thread threadQueueArray_get returns, and the memory after the call.
threadQueueArray_first(k) ==
  IF ReadyPriors(k) = {} THEN NULL ELSE k.first[HighestReady(k)]
threadQueueArray_get(k) ==
  IF ReadyPriors(k) = {} THEN k ELSE threadQueue_get(k, HighestReady(k))

\* The memory after n turns of the loop of threadQueueArray_putList, which ends
\* when the list is empty.  BOUND: a list that is not corrupted has at most one
\* turn per thread; a corrupted one gets twice as many.
threadQueueArray_putList(k, l) ==
  LET turns == 2 * Cardinality(Threads)
      after[n \in 0 .. turns] ==
        IF n = 0 THEN k
        ELSE LET m == after[n - 1]
             IN  IF m.head[l] = NULL THEN m
                 ELSE threadQueueArray_put(priorList_get(m, l), m.head[l])
  IN  after[turns]

=============================================================================
