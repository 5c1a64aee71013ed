----------------------------- MODULE KernelProofs -----------------------------
(***************************************************************************)
(* Proofs about the scheduler, and about the events and timers above it,   *)
(* for every set of threads and every assignment of priorities, whatever   *)
(* the lists of events and timers hold.                                    *)
(*                                                                         *)
(* Queues are pointers, and induction along their links is not at hand.    *)
(* Two ideas replace it.  The background thread is the only one of the     *)
(* lowest priority, so it is alone in its queue, and no link leads to it:  *)
(* somebody can always run.  And what a queue contains is the least set    *)
(* that its links do not leave (Chain).                                    *)
(***************************************************************************)
EXTENDS Timer, WellFoundedInduction, FiniteSetTheorems, TLAPS

\* A set of natural numbers has a least element: the array of ready queues has
\* a first one that is not empty.
LEMMA LeastElement ==
  ASSUME NEW S, S \subseteq Nat, S # {}
  PROVE  \E p \in S : \A q \in S : p <= q
<1> DEFINE Less == {ss \in Nat \X Nat : ss[1] < ss[2]}
<1>1. IsWellFoundedOn(Less, Nat)
  BY NatLessThanWellFounded DEF OpToRel
<1> HIDE DEF Less
<1>2. PICK p \in S : \A q \in S : ~ (<<q, p>> \in Less)
  BY <1>1, WFMin
<1>3. \A q \in S : ~ (q < p)
  BY <1>2 DEF Less
<1> QED
  BY <1>3

-----------------------------------------------------------------------------
(* What a list contains.  Chain(next, start) is the least set of threads that *)
(* holds start and follows the links, so facts about it are proved by naming  *)
(* a set that does (ChainLeast), where other lists would need induction.      *)

LEMMA ChainStart ==
  ASSUME NEW next, NEW start \in Threads
  PROVE  start \in Chain(next, start)
BY ListAssumption DEF Chain, Visits

LEMMA ChainThreads ==
  ASSUME NEW next, NEW start
  PROVE  Chain(next, start) \subseteq Threads
BY DEF Chain, Visits

LEMMA ChainNull ==
  ASSUME NEW next
  PROVE  Chain(next, NULL) = {}
BY DEF Chain

\* The threads of a list follow each other.
LEMMA ChainClosed ==
  ASSUME NEW next, next \in [Threads -> Pointer], NEW start,
         NEW i \in Chain(next, start), next[i] # NULL
  PROVE  next[i] \in Chain(next, start)
<1>1. start # NULL /\ i \in Threads /\ next[i] \in Threads
  BY DEF Chain, Visits, Pointer
<1>2. SUFFICES ASSUME NEW S \in SUBSET Threads, start \in S,
                      \A j \in S \cap {x \in Threads : next[x] # NULL} :
                        next[j] \in S \cup {NULL}
               PROVE  next[i] \in S
  BY <1>1 DEF Chain, Visits
<1>3. i \in S
  BY <1>1, <1>2 DEF Chain, Visits
<1> QED
  BY <1>1, <1>2, <1>3

\* A set that holds the first thread and follows the links holds the list.
LEMMA ChainLeast ==
  ASSUME NEW next, NEW start, NEW S, S \subseteq Threads,
         start \in S \cup {NULL}, \A j \in S : next[j] \in S \cup {NULL}
  PROVE  Chain(next, start) \subseteq S
BY DEF Chain, Visits

\* A list is its first thread and the list of the ones behind it.
LEMMA ChainUnfold ==
  ASSUME NEW next, next \in [Threads -> Pointer], NEW start \in Threads
  PROVE  Chain(next, start) = {start} \cup Chain(next, next[start])
<1> DEFINE S == {start} \cup Chain(next, next[start])
<1>1. next[start] \in Pointer /\ NULL \notin Threads
  BY ListAssumption
<1>2. Chain(next, start) \subseteq S
  <2>1. next[start] \in Chain(next, next[start]) \cup {NULL}
    BY <1>1, ChainStart DEF Pointer
  <2>2. \A j \in Chain(next, next[start]) :
          next[j] \in Chain(next, next[start]) \cup {NULL}
    BY ChainClosed
  <2>3. /\ S \subseteq Threads /\ start \in S
        /\ \A j \in S : next[j] \in S \cup {NULL}
    BY <2>1, <2>2, ChainThreads
  <2> HIDE DEF S
  <2> QED
    BY <2>3, ChainLeast
<1>3. S \subseteq Chain(next, start)
  <2> DEFINE T == Chain(next, start)
  <2>1. start \in T /\ T \subseteq Threads
    BY ChainStart, ChainThreads
  <2>2. \A j \in T : next[j] \in T \cup {NULL}
    BY ChainClosed
  <2>3. Chain(next, next[start]) \subseteq T
    <3> HIDE DEF T
    <3> QED
      BY <2>1, <2>2, ChainLeast
  <2> QED
    BY <2>1, <2>3
<1> QED
  BY <1>2, <1>3

\* Changing links elsewhere does not change a list.
LEMMA ChainFrame ==
  ASSUME NEW next, next \in [Threads -> Pointer], NEW other,
         other \in [Threads -> Pointer], NEW start \in Pointer,
         \A j \in Chain(next, start) : other[j] = next[j]
  PROVE  Chain(other, start) = Chain(next, start)
<1> DEFINE A == Chain(next, start)
           B == Chain(other, start)
<1>1. A \subseteq Threads /\ B \subseteq Threads
  BY ChainThreads
<1>2. start \in A \cup {NULL} /\ start \in B \cup {NULL}
  BY ChainStart DEF Pointer
<1>3. \A j \in A : next[j] \in A \cup {NULL}
  BY ChainClosed
<1>4. \A j \in B : other[j] \in B \cup {NULL}
  BY ChainClosed
<1>5. \A j \in A : other[j] = next[j]
  OBVIOUS
<1>6. B \subseteq A
  <2> HIDE DEF A
  <2> QED
    BY <1>1, <1>2, <1>3, <1>5, ChainLeast
<1>7. A \subseteq A \cap B
  <2>1. A \cap B \subseteq Threads /\ start \in (A \cap B) \cup {NULL}
    BY <1>1, <1>2
  <2>2. \A j \in A \cap B : next[j] \in (A \cap B) \cup {NULL}
    BY <1>3, <1>4, <1>5
  <2> HIDE DEF B
  <2> QED
    BY <2>1, <2>2, ChainLeast DEF A
<1> QED
  BY <1>6, <1>7

\* Linking a thread behind the last one adds it to the list.
LEMMA ChainAppend ==
  ASSUME NEW next, next \in [Threads -> Pointer], NEW start \in Threads,
         NEW last \in Chain(next, start), next[last] = NULL,
         NEW th \in Threads, th \notin Chain(next, start),
         NEW other, other \in [Threads -> Pointer],
         other[th] = NULL, other[last] = th,
         \A j \in Chain(next, start) \ {last} : other[j] = next[j]
  PROVE  Chain(other, start) = Chain(next, start) \cup {th}
<1> DEFINE A == Chain(next, start)
           B == Chain(other, start)
           C == A \cup {th}
<1>1. A \subseteq Threads /\ B \subseteq Threads /\ last \in Threads
  BY ChainThreads
<1>2. start \in A /\ start \in B
  BY ChainStart
<1>3. \A j \in A : other[j] = (IF j = last THEN th ELSE next[j])
  OBVIOUS
<1>4. \A j \in A : next[j] \in A \cup {NULL}
  BY ChainClosed
<1>5. \A j \in B : other[j] \in B \cup {NULL}
  BY <1>3, ChainClosed
<1>6. B \subseteq C
  <2>1. C \subseteq Threads /\ start \in C \cup {NULL}
    BY <1>1, <1>2
  <2>2. \A j \in C : other[j] \in C \cup {NULL}
    BY <1>3, <1>4
  <2> HIDE DEF A, C
  <2> QED
    BY <2>1, <2>2, ChainLeast
<1>7. A \subseteq A \cap B
  <2>1. A \cap B \subseteq Threads /\ start \in (A \cap B) \cup {NULL}
    BY <1>1, <1>2
  <2>2. \A j \in A \cap B : next[j] \in (A \cap B) \cup {NULL}
    BY <1>3, <1>4, <1>5
  <2> HIDE DEF B
  <2> QED
    BY <2>1, <2>2, ChainLeast DEF A
<1>8. last \in B /\ th # NULL
  BY <1>7, ListAssumption
<1>9. th \in B
  <2> HIDE DEF B
  <2> QED
    BY <1>3, <1>5, <1>8
<1> QED
  BY <1>6, <1>7, <1>9

\* The first thread of a list that ends does not come again behind itself.
LEMMA ChainRest ==
  ASSUME NEW next, next \in [Threads -> Pointer], NEW start \in Threads,
         NEW last \in Chain(next, start), next[last] = NULL, last # start
  PROVE  Chain(next, next[start]) = Chain(next, start) \ {start}
<1> DEFINE A == Chain(next, start)
           S == {i \in A : start \in Chain(next, i)}
<1>1. A \subseteq Threads /\ start \in A /\ NULL \notin Threads
  BY ChainThreads, ChainStart, ListAssumption
<1>2. \A j \in A : next[j] \in A \cup {NULL}
  BY ChainClosed
<1>3. ASSUME start \in Chain(next, next[start]) PROVE FALSE
  <2>1. start \in S /\ S \subseteq Threads
    BY <1>1
  <2>2. ASSUME NEW j \in S PROVE next[j] \in S \cup {NULL}
    <3>1. j \in Threads /\ start \in Chain(next, j)
      BY <1>1
    <3>2. start = j \/ start \in Chain(next, next[j])
      BY <3>1, ChainUnfold
    <3>3. start \in Chain(next, next[j])
      BY <1>3, <3>2
    <3> QED
      BY <1>2, <3>3
  <2>3. A \subseteq S
    <3> HIDE DEF S
    <3> QED
      BY <2>1, <2>2, ChainLeast
  <2>4. start \in Chain(next, last) /\ last \in Threads
    BY <1>1, <2>3
  <2>5. Chain(next, last) = {last}
    BY <2>4, ChainUnfold, ChainNull
  <2> QED
    BY <2>4, <2>5
<1> QED
  BY <1>3, ChainUnfold

-----------------------------------------------------------------------------
(* What the operations on the ready queues write *)

\* What the queue operations leave alone.
SameElsewhere(m, n) ==
  /\ n.prior = m.prior /\ n.tick = m.tick
  /\ n.head = m.head /\ n.nextTk = m.nextTk
  /\ n.prevPr = m.prevPr /\ n.prevTk = m.prevTk

\* A put writes the ends of one queue, the link of the thread and of the last.
LEMMA PutMemory ==
  ASSUME NEW m, m \in Memory, NEW th \in Threads, NEW p, p = m.prior[th],
         m.first[p] # NULL => m.last[p] \in Threads,
         NEW n, n = threadQueueArray_put(m, th)
  PROVE  /\ n \in Memory /\ SameElsewhere(m, n) /\ n.running = m.running
         /\ \A q \in Priors :
              /\ n.first[q] = IF q = p /\ m.first[p] = NULL THEN th ELSE m.first[q]
              /\ n.last[q] = IF q = p THEN th ELSE m.last[q]
         /\ \A x \in Threads :
              n.nextPr[x] = IF m.first[p] # NULL /\ x = m.last[p] THEN th
                            ELSE IF x = th THEN NULL ELSE m.nextPr[x]
<1> DEFINE filled == [m.first EXCEPT ![p] = th]
           ended  == [m.last EXCEPT ![p] = th]
           alone  == [m.nextPr EXCEPT ![th] = NULL]
           behind == [alone EXCEPT ![m.last[p]] = th]
<1>1. /\ p \in Priors /\ th \in Pointer /\ NULL \in Pointer
      /\ m.first \in [Priors -> Pointer] /\ m.last \in [Priors -> Pointer]
      /\ m.nextPr \in [Threads -> Pointer] /\ m.running \in Pointer
  BY DEF Memory, Pointer
<1>2. /\ filled \in [Priors -> Pointer] /\ ended \in [Priors -> Pointer]
      /\ alone \in [Threads -> Pointer]
  BY <1>1
<1>3. CASE m.first[p] = NULL
  <2>1. n = [m EXCEPT !.first = filled, !.last = ended, !.nextPr = alone,
                      !.running = m.running]
    BY <1>1, <1>3 DEF threadQueueArray_put, threadQueue_put, Memory
  <2> HIDE DEF filled, ended, alone
  <2>2. /\ n \in Memory /\ SameElsewhere(m, n) /\ n.running = m.running
        /\ n.first = filled /\ n.last = ended /\ n.nextPr = alone
    BY <1>1, <1>2, <2>1 DEF Memory, SameElsewhere
  <2> QED
    BY <1>1, <1>3, <2>2 DEF filled, ended, alone
<1>4. CASE m.first[p] # NULL
  <2>1. n = [m EXCEPT !.first = m.first, !.last = ended, !.nextPr = behind,
                      !.running = m.running]
    BY <1>1, <1>4 DEF threadQueueArray_put, threadQueue_put, Memory
  <2>2. m.last[p] \in Threads /\ behind \in [Threads -> Pointer]
    BY <1>1, <1>2, <1>4
  <2> HIDE DEF ended, behind
  <2>3. /\ n \in Memory /\ SameElsewhere(m, n) /\ n.running = m.running
        /\ n.first = m.first /\ n.last = ended /\ n.nextPr = behind
    BY <1>1, <1>2, <2>1, <2>2 DEF Memory, SameElsewhere
  <2> QED
    BY <1>1, <1>2, <1>4, <2>2, <2>3 DEF ended, behind
<1> QED
  BY <1>3, <1>4

\* A jump takes the first thread of the highest queue that has one.
LEMMA JumpMemory ==
  ASSUME NEW m, m \in Memory, ReadyPriors(m) # {},
         NEW p, p = HighestReady(m), NEW n, n = jump(m)
  PROVE  /\ p \in ReadyPriors(m) /\ \A q \in ReadyPriors(m) : p <= q
         /\ p \in Priors /\ m.first[p] \in Threads
         /\ n \in Memory /\ SameElsewhere(m, n)
         /\ n.running = m.first[p] /\ n.nextPr = m.nextPr
         /\ \A q \in Priors :
              /\ n.first[q] = IF q # p THEN m.first[q]
                              ELSE IF m.first[p] = m.last[p] THEN NULL
                              ELSE m.nextPr[m.first[p]]
              /\ n.last[q] = IF q = p /\ m.first[p] = m.last[p] THEN NULL
                             ELSE m.last[q]
<1> DEFINE next    == m.nextPr[m.first[p]]
           shorter == [m.first EXCEPT ![p] = next]
           empty   == [m.first EXCEPT ![p] = NULL]
           endless == [m.last EXCEPT ![p] = NULL]
<1>1. ReadyPriors(m) \subseteq Nat /\ ReadyPriors(m) \subseteq Priors
  BY ListAssumption DEF ReadyPriors, Priors
<1>2. \E q \in ReadyPriors(m) : \A r \in ReadyPriors(m) : q <= r
  BY <1>1, LeastElement
<1>3. p \in ReadyPriors(m) /\ \A q \in ReadyPriors(m) : p <= q
  BY <1>2 DEF HighestReady
<1>4. /\ p \in Priors /\ NULL \in Pointer
      /\ m.first \in [Priors -> Pointer] /\ m.last \in [Priors -> Pointer]
      /\ m.nextPr \in [Threads -> Pointer]
  BY <1>1, <1>3 DEF Memory, Pointer
<1>5. m.first[p] \in Threads /\ m.first[p] \in Pointer
  BY <1>3, <1>4 DEF ReadyPriors, Pointer
<1>6. n = [threadQueue_get(m, p) EXCEPT !.running = m.first[p]]
  BY DEF jump, threadQueueArray_get, threadQueueArray_first
<1>7. m.first[p] # NULL
  BY <1>3 DEF ReadyPriors
<1>8. CASE m.first[p] = m.last[p]
  <2>1. n = [m EXCEPT !.first = empty, !.last = endless, !.nextPr = m.nextPr,
                      !.running = m.first[p]]
    BY <1>6, <1>7, <1>8 DEF threadQueue_get, Memory
  <2>2. empty \in [Priors -> Pointer] /\ endless \in [Priors -> Pointer]
    BY <1>4
  <2> HIDE DEF empty, endless
  <2>3. /\ n \in Memory /\ SameElsewhere(m, n) /\ n.running = m.first[p]
        /\ n.first = empty /\ n.last = endless /\ n.nextPr = m.nextPr
    BY <1>4, <1>5, <2>1, <2>2 DEF Memory, SameElsewhere
  <2> QED
    BY <1>3, <1>4, <1>5, <1>8, <2>3 DEF empty, endless
<1>9. CASE m.first[p] # m.last[p]
  <2>1. n = [m EXCEPT !.first = shorter, !.last = m.last, !.nextPr = m.nextPr,
                      !.running = m.first[p]]
    BY <1>6, <1>7, <1>9 DEF threadQueue_get, Memory
  <2>2. shorter \in [Priors -> Pointer]
    BY <1>4, <1>5
  <2> HIDE DEF shorter
  <2>3. /\ n \in Memory /\ SameElsewhere(m, n) /\ n.running = m.first[p]
        /\ n.first = shorter /\ n.last = m.last /\ n.nextPr = m.nextPr
    BY <1>4, <1>5, <2>1, <2>2 DEF Memory, SameElsewhere
  <2> QED
    BY <1>3, <1>4, <1>5, <1>9, <2>3 DEF shorter
<1> QED
  BY <1>8, <1>9

-----------------------------------------------------------------------------
(* The background thread, on the memory *)

\* Types, priorities, and no way to the background thread but the last queue.
Steady(m) ==
  /\ m \in Memory
  /\ m.prior[Background] = Lowest
  /\ \A th \in Threads \ {Background} : m.prior[th] < Lowest
  /\ \A p \in Priors : m.first[p] # NULL => m.last[p] # NULL
  /\ \A p \in Priors : m.first[p] = Background => p = Lowest
  /\ \A th \in Threads : m.nextPr[th] # Background

\* The queue of the lowest priority is empty, or holds the background thread.
Vacant(m) == m.first[Lowest] = NULL
Parked(m) == m.first[Lowest] = Background /\ m.last[Lowest] = Background

\* The background thread runs, or is ready to.
Guarded(m) ==
  /\ Steady(m)
  /\ m.running \in Threads
  /\ IF m.running = Background THEN Vacant(m) ELSE Parked(m)

\* Putting another thread leaves the queue of the background thread alone.
LEMMA PutThread ==
  ASSUME NEW m, Steady(m), NEW th \in Threads \ {Background},
         NEW n, n = threadQueueArray_put(m, th)
  PROVE  /\ Steady(n) /\ SameElsewhere(m, n)
         /\ n.running = m.running
         /\ n.first[Lowest] = m.first[Lowest]
         /\ n.last[Lowest] = m.last[Lowest]
<1> DEFINE p == m.prior[th]
<1>1. /\ m \in Memory /\ p \in Priors /\ p # Lowest /\ Lowest \in Priors
      /\ th # NULL /\ th \in Threads /\ th # Background /\ NULL # Background
  BY KernelAssumption, ListAssumption DEF Steady, Memory, Priors
<1>2. m.first[p] # NULL => m.last[p] \in Threads
  BY <1>1 DEF Steady, Memory, Pointer
<1> HIDE DEF p
<1>3. /\ n \in Memory /\ SameElsewhere(m, n) /\ n.running = m.running
      /\ \A q \in Priors :
           /\ n.first[q] = IF q = p /\ m.first[p] = NULL THEN th ELSE m.first[q]
           /\ n.last[q] = IF q = p THEN th ELSE m.last[q]
      /\ \A x \in Threads :
           n.nextPr[x] = IF m.first[p] # NULL /\ x = m.last[p] THEN th
                         ELSE IF x = th THEN NULL ELSE m.nextPr[x]
  BY <1>1, <1>2, PutMemory DEF p
<1>4. Steady(n)
  BY <1>1, <1>3 DEF Steady, SameElsewhere
<1> QED
  BY <1>1, <1>3, <1>4

\* The background thread is alone in its queue.
LEMMA PutBackground ==
  ASSUME NEW m, Steady(m), Vacant(m),
         NEW n, n = threadQueueArray_put(m, Background)
  PROVE  Steady(n) /\ SameElsewhere(m, n) /\ n.running = m.running /\ Parked(n)
<1>1. /\ m \in Memory /\ Lowest \in Priors /\ Background \in Threads
      /\ NULL # Background /\ m.prior[Background] = Lowest /\ m.first[Lowest] = NULL
  BY ListAssumption, KernelAssumption DEF Steady, Priors, Vacant
<1>2. /\ n \in Memory /\ SameElsewhere(m, n) /\ n.running = m.running
      /\ \A q \in Priors :
           /\ n.first[q] = IF q = Lowest THEN Background ELSE m.first[q]
           /\ n.last[q] = IF q = Lowest THEN Background ELSE m.last[q]
      /\ \A x \in Threads :
           n.nextPr[x] = IF x = Background THEN NULL ELSE m.nextPr[x]
  BY <1>1, PutMemory
<1> QED
  BY <1>1, <1>2 DEF Steady, SameElsewhere, Parked

\* Whoever is dispatched while the background thread is parked exists.
LEMMA JumpGuarded ==
  ASSUME NEW m, Steady(m), Parked(m)
  PROVE  Guarded(jump(m)) /\ SameElsewhere(m, jump(m))
<1> DEFINE p == HighestReady(m)
           n == jump(m)
<1>1. /\ Lowest \in Priors /\ Background \in Threads /\ m \in Memory
      /\ NULL # Background /\ Lowest \in ReadyPriors(m)
  BY ListAssumption, KernelAssumption DEF Priors, Steady, Parked, ReadyPriors
<1>2. /\ p \in Priors /\ m.first[p] \in Threads
      /\ n \in Memory /\ SameElsewhere(m, n)
      /\ n.running = m.first[p] /\ n.nextPr = m.nextPr
      /\ \A q \in Priors :
           /\ n.first[q] = IF q # p THEN m.first[q]
                           ELSE IF m.first[p] = m.last[p] THEN NULL
                           ELSE m.nextPr[m.first[p]]
           /\ n.last[q] = IF q = p /\ m.first[p] = m.last[p] THEN NULL
                          ELSE m.last[q]
  BY <1>1, JumpMemory
<1> HIDE DEF n, p
<1>3. m.first[p] = Background <=> p = Lowest
  BY <1>1, <1>2, ListAssumption DEF Steady, Parked
<1>4. Steady(n)
  BY <1>1, <1>2, <1>3, ListAssumption DEF Steady, SameElsewhere, Parked
<1>5. IF n.running = Background THEN Vacant(n) ELSE Parked(n)
  BY <1>1, <1>2, <1>3 DEF Vacant, Parked
<1> QED
  BY <1>2, <1>4, <1>5 DEF Guarded, n

LEMMA YieldGuarded ==
  ASSUME NEW m, Guarded(m)
  PROVE  Guarded(yieldISR(m))
<1> DEFINE n == threadQueueArray_put(m, m.running)
<1>1. Steady(m) /\ m.running \in Threads
  BY DEF Guarded
<1>2. CASE m.running = Background
  <2>1. Steady(n) /\ Parked(n)
    BY <1>1, <1>2, PutBackground DEF Guarded
  <2> QED
    BY <2>1, JumpGuarded DEF yieldISR
<1>3. CASE m.running # Background
  <2>1. Steady(n) /\ Parked(n)
    BY <1>1, <1>3, PutThread DEF Guarded, Parked
  <2> QED
    BY <2>1, JumpGuarded DEF yieldISR
<1> QED
  BY <1>2, <1>3

LEMMA PutGuarded ==
  ASSUME NEW m, Guarded(m), NEW th \in Threads \ {Background}
  PROVE  Guarded(threadQueueArray_put(m, th))
<1> DEFINE n == threadQueueArray_put(m, th)
<1>1. /\ Steady(n) /\ n.running = m.running
      /\ n.first[Lowest] = m.first[Lowest] /\ n.last[Lowest] = m.last[Lowest]
  BY PutThread DEF Guarded, SameElsewhere
<1> QED
  BY <1>1 DEF Guarded, Vacant, Parked

LEMMA ResumeGuarded ==
  ASSUME NEW m, Guarded(m), NEW th \in Threads \ {Background}
  PROVE  Guarded(resume(m, th))
BY PutGuarded, YieldGuarded DEF resume

-----------------------------------------------------------------------------
(* The ready queues, as sets of threads *)

ReadyOf(m, p)   == Chain(m.nextPr, m.first[p])
IsReady(m, th)  == \E p \in Priors : th \in ReadyOf(m, p)

\* Every queue ends at its last pointer and holds threads of its priority.
WellQueued(m) ==
  \A p \in Priors :
    /\ m.first[p] # NULL =>
         m.last[p] \in ReadyOf(m, p) /\ m.nextPr[m.last[p]] = NULL
    /\ \A t \in ReadyOf(m, p) : m.prior[t] = p

\* A put adds the thread to the queue of its priority, and to no other.
LEMMA PutReady ==
  ASSUME NEW m, m \in Memory, WellQueued(m),
         NEW th \in Threads, ~ IsReady(m, th),
         NEW n, n = threadQueueArray_put(m, th)
  PROVE  /\ n \in Memory /\ SameElsewhere(m, n) /\ n.running = m.running
         /\ WellQueued(n)
         /\ \A t \in Threads : IsReady(n, t) <=> IsReady(m, t) \/ t = th
         /\ ReadyPriors(n) = ReadyPriors(m) \cup {m.prior[th]}
<1> DEFINE p == m.prior[th]
<1>1. /\ p \in Priors /\ th # NULL /\ m.nextPr \in [Threads -> Pointer]
      /\ m.first \in [Priors -> Pointer]
  BY ListAssumption DEF Memory
<1>2. \A q \in Priors : th \notin ReadyOf(m, q) /\ ReadyOf(m, q) \subseteq Threads
  BY ChainThreads DEF IsReady, ReadyOf
<1>3. m.first[p] # NULL => m.last[p] \in Threads
  BY <1>1, <1>2 DEF WellQueued
<1>4. /\ n \in Memory /\ SameElsewhere(m, n) /\ n.running = m.running
      /\ \A q \in Priors :
           /\ n.first[q] = IF q = p /\ m.first[p] = NULL THEN th ELSE m.first[q]
           /\ n.last[q] = IF q = p THEN th ELSE m.last[q]
      /\ \A x \in Threads :
           n.nextPr[x] = IF m.first[p] # NULL /\ x = m.last[p] THEN th
                         ELSE IF x = th THEN NULL ELSE m.nextPr[x]
  BY <1>3, PutMemory
<1>5. n.nextPr \in [Threads -> Pointer] /\ n.prior = m.prior
  BY <1>4 DEF Memory, SameElsewhere
<1> HIDE DEF p
<1>6. ASSUME NEW q \in Priors, q # p PROVE ReadyOf(n, q) = ReadyOf(m, q)
  <2>1. n.first[q] = m.first[q] /\ m.first[q] \in Pointer
    BY <1>1, <1>4, <1>6
  <2>2. ASSUME NEW x \in ReadyOf(m, q) PROVE n.nextPr[x] = m.nextPr[x]
    <3>1. m.prior[x] # p /\ x # th /\ x \in Threads
      BY <1>2, <1>6 DEF WellQueued
    <3>2. m.first[p] # NULL => m.prior[m.last[p]] = p
      BY <1>1 DEF WellQueued
    <3> QED
      BY <1>4, <3>1, <3>2
  <2> QED
    BY <1>1, <1>5, <2>1, <2>2, ChainFrame DEF ReadyOf
<1>7. ReadyOf(n, p) = ReadyOf(m, p) \cup {th}
  <2>1. CASE m.first[p] = NULL
    <3>1. n.first[p] = th /\ n.nextPr[th] = NULL
      BY <1>1, <1>4, <2>1
    <3>2. ReadyOf(n, p) = {th}
      BY <1>5, <3>1, ChainUnfold, ChainNull DEF ReadyOf
    <3>3. ReadyOf(m, p) = {}
      BY <2>1, ChainNull DEF ReadyOf
    <3> QED
      BY <3>2, <3>3
  <2>2. CASE m.first[p] # NULL
    <3> DEFINE last == m.last[p]
    <3>1. m.first[p] \in Threads /\ n.first[p] = m.first[p]
      BY <1>1, <1>4, <2>2 DEF Pointer
    <3>2. last \in ReadyOf(m, p) /\ m.nextPr[last] = NULL /\ last \in Threads
      BY <1>1, <1>3, <2>2 DEF WellQueued
    <3>3. th # last /\ th \notin ReadyOf(m, p)
      BY <1>1, <1>2, <3>2
    <3>4. n.nextPr[last] = th /\ n.nextPr[th] = NULL
      BY <1>4, <2>2, <3>2, <3>3
    <3>5. \A j \in ReadyOf(m, p) \ {last} : n.nextPr[j] = m.nextPr[j]
      BY <1>1, <1>2, <1>4, <3>3
    <3> HIDE DEF last
    <3> QED
      BY <1>1, <1>5, <3>1, <3>2, <3>3, <3>4, <3>5, ChainAppend DEF ReadyOf
  <2> QED
    BY <2>1, <2>2
<1>8. \A t \in Threads : IsReady(n, t) <=> IsReady(m, t) \/ t = th
  BY <1>1, <1>6, <1>7 DEF IsReady
<1>9. ASSUME NEW q \in Priors
      PROVE  /\ n.first[q] # NULL =>
                  n.last[q] \in ReadyOf(n, q) /\ n.nextPr[n.last[q]] = NULL
             /\ \A t \in ReadyOf(n, q) : n.prior[t] = q
  <2>1. CASE q = p
    <3>1. n.last[q] = th /\ n.nextPr[th] = NULL
      <4>1. m.first[p] # NULL => m.last[p] # th
        BY <1>1, <1>2 DEF WellQueued
      <4> QED
        BY <1>1, <1>4, <2>1, <4>1
    <3>2. \A t \in ReadyOf(n, q) : n.prior[t] = q
      BY <1>5, <1>7, <2>1 DEF WellQueued, p
    <3> QED
      BY <1>7, <2>1, <3>1, <3>2
  <2>2. CASE q # p
    <3>1. ReadyOf(n, q) = ReadyOf(m, q)
      BY <1>6, <2>2
    <3>2. n.first[q] = m.first[q] /\ n.last[q] = m.last[q]
      BY <1>4, <2>2
    <3>3. m.first[q] # NULL =>
            /\ m.last[q] \in ReadyOf(m, q) /\ m.nextPr[m.last[q]] = NULL
            /\ m.prior[m.last[q]] = q
      BY DEF WellQueued
    <3>4. m.first[p] # NULL => m.prior[m.last[p]] = p
      BY <1>1 DEF WellQueued
    <3>5. m.first[q] # NULL => n.nextPr[m.last[q]] = NULL
      BY <1>2, <1>4, <2>2, <3>3, <3>4
    <3> QED
      BY <1>5, <3>1, <3>2, <3>3, <3>5 DEF WellQueued
  <2> QED
    BY <2>1, <2>2
<1>10. WellQueued(n)
  BY <1>9 DEF WellQueued
<1>11. ReadyPriors(n) = ReadyPriors(m) \cup {p}
  BY <1>1, <1>4 DEF ReadyPriors
<1> QED
  BY <1>4, <1>8, <1>10, <1>11 DEF p

\* A jump takes one thread out, of the highest priority that is ready.
LEMMA JumpReady ==
  ASSUME NEW m, m \in Memory, WellQueued(m), ReadyPriors(m) # {},
         NEW n, n = jump(m)
  PROVE  /\ n \in Memory /\ SameElsewhere(m, n) /\ WellQueued(n)
         /\ n.running \in Threads /\ IsReady(m, n.running)
         /\ \A t \in Threads : IsReady(n, t) <=> IsReady(m, t) /\ t # n.running
         /\ ReadyPriors(n) \subseteq ReadyPriors(m)
         /\ m.prior[n.running] \in ReadyPriors(m)
         /\ \A q \in ReadyPriors(m) : m.prior[n.running] <= q
<1> DEFINE p == HighestReady(m)
           run == m.first[p]
<1>1. /\ p \in ReadyPriors(m) /\ \A q \in ReadyPriors(m) : p <= q
      /\ p \in Priors /\ run \in Threads
      /\ n \in Memory /\ SameElsewhere(m, n)
      /\ n.running = run /\ n.nextPr = m.nextPr
      /\ \A q \in Priors :
           /\ n.first[q] = IF q # p THEN m.first[q]
                           ELSE IF run = m.last[p] THEN NULL
                           ELSE m.nextPr[run]
           /\ n.last[q] = IF q = p /\ run = m.last[p] THEN NULL ELSE m.last[q]
  BY JumpMemory
<1> HIDE DEF p
<1>2. /\ m.nextPr \in [Threads -> Pointer] /\ run # NULL /\ n.prior = m.prior
      /\ \A q \in Priors : ReadyOf(m, q) \subseteq Threads
  BY <1>1, ListAssumption, ChainThreads DEF Memory, SameElsewhere, ReadyOf
<1>3. /\ m.last[p] \in ReadyOf(m, p) /\ m.nextPr[m.last[p]] = NULL
      /\ run \in ReadyOf(m, p) /\ m.prior[run] = p
  <2>1. run \in ReadyOf(m, p)
    BY <1>1, ChainStart DEF ReadyOf
  <2> QED
    BY <1>1, <1>2, <2>1 DEF WellQueued
<1>4. ASSUME NEW q \in Priors, q # p PROVE ReadyOf(n, q) = ReadyOf(m, q)
  BY <1>1, <1>4 DEF ReadyOf
<1>5. ReadyOf(n, p) = ReadyOf(m, p) \ {run}
  <2>1. CASE run = m.last[p]
    <3>1. ReadyOf(n, p) = {}
      BY <1>1, <2>1, ChainNull DEF ReadyOf
    <3>2. ReadyOf(m, p) = {run}
      BY <1>1, <1>2, <1>3, <2>1, ChainUnfold, ChainNull DEF ReadyOf
    <3> QED
      BY <3>1, <3>2
  <2>2. CASE run # m.last[p]
    <3>1. n.first[p] = m.nextPr[run] /\ n.nextPr = m.nextPr
      BY <1>1, <2>2
    <3>2. Chain(m.nextPr, m.nextPr[run]) = Chain(m.nextPr, run) \ {run}
      BY <1>1, <1>2, <1>3, <2>2, ChainRest DEF ReadyOf
    <3> QED
      BY <3>1, <3>2 DEF ReadyOf
  <2> QED
    BY <2>1, <2>2
<1>6. \A q \in Priors : q # p => run \notin ReadyOf(m, q)
  BY <1>3 DEF WellQueued
<1>7. \A t \in Threads : IsReady(n, t) <=> IsReady(m, t) /\ t # run
  BY <1>1, <1>4, <1>5, <1>6 DEF IsReady
<1>8. ASSUME NEW q \in Priors
      PROVE  /\ n.first[q] # NULL =>
                  n.last[q] \in ReadyOf(n, q) /\ n.nextPr[n.last[q]] = NULL
             /\ \A t \in ReadyOf(n, q) : n.prior[t] = q
  <2>1. CASE q = p
    BY <1>1, <1>2, <1>3, <1>5, <2>1 DEF WellQueued
  <2>2. CASE q # p
    BY <1>1, <1>2, <1>4, <2>2 DEF WellQueued
  <2> QED
    BY <2>1, <2>2
<1>9. WellQueued(n)
  BY <1>8 DEF WellQueued
<1>10. ReadyPriors(n) \subseteq ReadyPriors(m)
  BY <1>1 DEF ReadyPriors
<1>11. IsReady(m, run)
  BY <1>1, <1>3 DEF IsReady
<1> QED
  BY <1>1, <1>3, <1>7, <1>9, <1>10, <1>11

\* The threads that run or are ready to.
Active(m) == {t \in Threads : t = m.running \/ IsReady(m, t)}

\* The queues are sound and do not hold the thread that runs.
Dispatched(m) ==
  /\ m \in Memory /\ m.running \in Threads
  /\ WellQueued(m) /\ ~ IsReady(m, m.running)

\* No ready thread has a higher priority than the one that runs.
Highest(m) == \A p \in ReadyPriors(m) : m.prior[m.running] <= p

\* Who gives up the processor but stays ready is put behind its equals.
LEMMA YieldActive ==
  ASSUME NEW m, Dispatched(m), NEW n, n = yieldISR(m)
  PROVE  /\ Dispatched(n) /\ SameElsewhere(m, n)
         /\ Active(n) = Active(m) /\ Highest(n)
<1> DEFINE q == threadQueueArray_put(m, m.running)
<1>1. /\ q \in Memory /\ SameElsewhere(m, q) /\ WellQueued(q)
      /\ \A t \in Threads : IsReady(q, t) <=> IsReady(m, t) \/ t = m.running
      /\ ReadyPriors(q) = ReadyPriors(m) \cup {m.prior[m.running]}
  BY PutReady DEF Dispatched
<1> HIDE DEF q
<1>2. /\ n \in Memory /\ SameElsewhere(q, n) /\ WellQueued(n)
      /\ n.running \in Threads
      /\ \A t \in Threads : IsReady(n, t) <=> IsReady(q, t) /\ t # n.running
      /\ ReadyPriors(n) \subseteq ReadyPriors(q)
      /\ IsReady(q, n.running)
      /\ \A p \in ReadyPriors(q) : q.prior[n.running] <= p
  BY <1>1, JumpReady DEF yieldISR, q
<1>3. Active(n) = Active(m)
  BY <1>1, <1>2 DEF Active, Dispatched
<1> QED
  BY <1>1, <1>2, <1>3 DEF Dispatched, Highest, SameElsewhere

\* Who blocks is no longer active; somebody else must be ready.
LEMMA JumpActive ==
  ASSUME NEW m, Dispatched(m), ReadyPriors(m) # {}, NEW n, n = jump(m)
  PROVE  /\ Dispatched(n) /\ SameElsewhere(m, n)
         /\ Active(n) = Active(m) \ {m.running} /\ Highest(n)
<1>1. /\ n \in Memory /\ SameElsewhere(m, n) /\ WellQueued(n)
      /\ n.running \in Threads /\ IsReady(m, n.running)
      /\ \A t \in Threads : IsReady(n, t) <=> IsReady(m, t) /\ t # n.running
      /\ ReadyPriors(n) \subseteq ReadyPriors(m)
      /\ \A q \in ReadyPriors(m) : m.prior[n.running] <= q
  BY JumpReady DEF Dispatched
<1>2. Active(n) = Active(m) \ {m.running}
  BY <1>1 DEF Active, Dispatched
<1> QED
  BY <1>1, <1>2 DEF Dispatched, Highest, SameElsewhere

LEMMA PutActive ==
  ASSUME NEW m, Dispatched(m), NEW th \in Threads \ Active(m),
         NEW n, n = threadQueueArray_put(m, th)
  PROVE  /\ Dispatched(n) /\ SameElsewhere(m, n) /\ n.running = m.running
         /\ Active(n) = Active(m) \cup {th}
         /\ ReadyPriors(n) = ReadyPriors(m) \cup {m.prior[th]}
<1>1. ~ IsReady(m, th) /\ th # m.running /\ m \in Memory /\ WellQueued(m)
  BY DEF Active, Dispatched
<1>2. /\ n \in Memory /\ SameElsewhere(m, n) /\ n.running = m.running
      /\ WellQueued(n)
      /\ \A t \in Threads : IsReady(n, t) <=> IsReady(m, t) \/ t = th
      /\ ReadyPriors(n) = ReadyPriors(m) \cup {m.prior[th]}
  BY <1>1, PutReady
<1>3. Active(n) = Active(m) \cup {th}
  BY <1>2 DEF Active
<1> QED
  BY <1>1, <1>2, <1>3 DEF Dispatched

\* Who resumes a thread of higher priority yields to it.
LEMMA ResumeActive ==
  ASSUME NEW m, Dispatched(m), NEW th \in Threads \ Active(m),
         NEW n, n = resume(m, th)
  PROVE  /\ Dispatched(n) /\ SameElsewhere(m, n)
         /\ Active(n) = Active(m) \cup {th}
         /\ Highest(m) => Highest(n)
<1> DEFINE q == threadQueueArray_put(m, th)
<1>1. /\ Dispatched(q) /\ SameElsewhere(m, q) /\ q.running = m.running
      /\ Active(q) = Active(m) \cup {th}
      /\ ReadyPriors(q) = ReadyPriors(m) \cup {m.prior[th]}
  BY PutActive
<1> HIDE DEF q
<1>2. CASE preempts(m, th)
  <2>1. n = yieldISR(q)
    BY <1>2 DEF resume, q
  <2>2. /\ Dispatched(n) /\ SameElsewhere(q, n)
        /\ Active(n) = Active(q) /\ Highest(n)
    BY <1>1, <2>1, YieldActive
  <2> QED
    BY <1>1, <2>2 DEF SameElsewhere
<1>3. CASE ~ preempts(m, th)
  <2>1. n = q
    BY <1>3 DEF resume, q
  <2>2. m.prior[m.running] \in Nat /\ m.prior[th] \in Nat
    BY ListAssumption DEF Dispatched, Memory, Priors
  <2>3. m.prior[m.running] <= m.prior[th]
    BY <1>3, <2>2 DEF preempts
  <2>4. Highest(m) => Highest(q)
    BY <1>1, <2>3 DEF Highest, SameElsewhere
  <2> QED
    BY <1>1, <2>1, <2>4
<1> QED
  BY <1>2, <1>3

\* The lists do not see what is written elsewhere.
LEMMA SameRunnersActive ==
  ASSUME NEW m, Dispatched(m), NEW n, n \in Memory,
         n.running = m.running, n.first = m.first, n.last = m.last,
         \A t \in Threads : IsReady(m, t) =>
           n.nextPr[t] = m.nextPr[t] /\ n.prior[t] = m.prior[t]
  PROVE  Dispatched(n) /\ Active(n) = Active(m) /\ ReadyPriors(n) = ReadyPriors(m)
<1>1. /\ m.nextPr \in [Threads -> Pointer] /\ n.nextPr \in [Threads -> Pointer]
      /\ m.first \in [Priors -> Pointer]
  BY DEF Dispatched, Memory
<1>2. ASSUME NEW p \in Priors
      PROVE  /\ ReadyOf(n, p) = ReadyOf(m, p)
             /\ \A t \in ReadyOf(m, p) : /\ n.nextPr[t] = m.nextPr[t]
                                         /\ n.prior[t] = m.prior[t]
  <2>1. \A t \in ReadyOf(m, p) : n.nextPr[t] = m.nextPr[t] /\ n.prior[t] = m.prior[t]
    BY ChainThreads DEF IsReady, ReadyOf
  <2> QED
    BY <1>1, <2>1, ChainFrame DEF ReadyOf
<1>3. WellQueued(n)
  BY <1>2 DEF Dispatched, WellQueued
<1>4. \A t \in Threads : IsReady(n, t) <=> IsReady(m, t)
  BY <1>2 DEF IsReady
<1>5. ReadyPriors(n) = ReadyPriors(m)
  BY DEF ReadyPriors
<1> QED
  BY <1>3, <1>4, <1>5 DEF Dispatched, Active

-----------------------------------------------------------------------------
(* The inductive invariant *)

\* The counter and the flag of every thread, running or not, agree with its place.
Masked(t) ==
  /\ pc[t].at = "user" => (sr[t] <=> critical[t] = 0)
  /\ pc[t].at \notin {"new", "user"} => critical[t] > 0

IInv ==
  /\ KernelTypeOK
  /\ Guarded(k)
  /\ pc[Background].at \notin {"new", "suspend"}
  /\ \A t \in Threads : Masked(t)

\* The labels are what the points are made of.
LEMMA PointsAreLabels ==
  /\ \A label \in {"new", "boot", "run", "user", "yield", "suspend"} :
       At(label) \in KernelPoints /\ At(label).at = label
  /\ \A x \in KernelPoints :
       x.at \in {"new", "boot", "run", "user", "yield", "suspend"}
BY DEF KernelPoints, At

LEMMA InitIInv == KernelInit => IInv
<1> SUFFICES ASSUME KernelInit PROVE IInv
  OBVIOUS
<1>1. /\ Lowest \in Nat /\ Lowest \in Priors /\ 0 \in Priors
      /\ TickMod \in Nat \ {0} /\ 0 \in Ticks
      /\ Background \in Threads /\ NULL \notin Threads
      /\ \A th \in Threads \ {Background} : Prior[th] \in 0 .. Lowest - 1
  BY ListAssumption, KernelAssumption DEF Priors, Ticks
<1>2. \A th \in Threads \ {Background} : 0 < Lowest
  BY <1>1
<1>3. k \in Memory
  BY <1>1 DEF KernelInit, Memory, Pointer
<1>4. Guarded(k)
  BY <1>1, <1>2, <1>3 DEF KernelInit, Guarded, Steady, Vacant
<1>5. /\ critical \in [Threads -> Nat] /\ sr \in [Threads -> BOOLEAN]
      /\ pc \in [Threads -> KernelPoints]
  BY PointsAreLabels DEF KernelInit
<1>6. /\ pc[Background].at = "boot"
      /\ \A t \in Threads : Masked(t)
  BY <1>1, PointsAreLabels DEF KernelInit, Masked
<1> QED
  BY <1>3, <1>4, <1>5, <1>6 DEF IInv, KernelTypeOK, KernelTypes

-----------------------------------------------------------------------------
(* How a call leaves its thread *)

\* What the invariant says of the counters, the flags and the places.
Counted(c, f, x) ==
  /\ c \in [Threads -> Nat] /\ f \in [Threads -> BOOLEAN]
  /\ x \in [Threads -> KernelPoints]
  /\ x[Background].at \notin {"new", "suspend"}
  /\ \A t \in Threads :
       /\ x[t].at = "user" => (f[t] <=> c[t] = 0)
       /\ x[t].at \notin {"new", "user"} => c[t] > 0

LEMMA IInvParts ==
  /\ IInv <=> Guarded(k) /\ Counted(critical, sr, pc)
  /\ IInv' <=> Guarded(k') /\ Counted(critical', sr', pc')
BY DEF IInv, Counted, Masked, KernelTypeOK, KernelTypes, Guarded, Steady

LEMMA ReturnCounted ==
  ASSUME Counted(critical, sr, pc), NEW t \in Threads, pc[t].at = "user", Return(t)
  PROVE  Counted(critical', sr', pc')
BY DEF Counted, Return

LEMMA LeaveCounted ==
  ASSUME Counted(critical, sr, pc), NEW t \in Threads,
         NEW label \in {"yield", "suspend"}, label = "suspend" => t # Background,
         Leave(t, At(label))
  PROVE  Counted(critical', sr', pc')
<1>1. At(label) \in KernelPoints /\ At(label).at = label
  BY PointsAreLabels
<1> QED
  BY <1>1 DEF Counted, Leave

LEMMA FinishCounted ==
  ASSUME Counted(critical, sr, pc), NEW t \in Threads,
         pc[t].at \notin {"new", "user"}, Finish(t)
  PROVE  Counted(critical', sr', pc')
<1>1. At("user") \in KernelPoints /\ At("user").at = "user"
  BY PointsAreLabels
<1>2. critical[t] \in Nat /\ critical[t] > 0
  BY DEF Counted
<1>3. critical[t] - 1 \in Nat /\ (critical[t] = 1 <=> critical[t] - 1 = 0)
  BY <1>2
<1>4. /\ critical' \in [Threads -> Nat] /\ sr' \in [Threads -> BOOLEAN]
      /\ pc' \in [Threads -> KernelPoints]
  BY <1>1, <1>3 DEF Counted, Finish
<1>5. ASSUME NEW u \in Threads
      PROVE  /\ pc'[u].at = "user" => (sr'[u] <=> critical'[u] = 0)
             /\ pc'[u].at \notin {"new", "user"} => critical'[u] > 0
  <2>1. CASE u = t
    BY <1>1, <1>3, <2>1 DEF Counted, Finish
  <2>2. CASE u # t
    BY <2>2 DEF Counted, Finish
  <2> QED
    BY <2>1, <2>2
<1>6. pc'[Background].at \notin {"new", "suspend"}
  BY <1>1 DEF Counted, Finish
<1> QED
  BY <1>4, <1>5, <1>6 DEF Counted

LEMMA ResumeCounted ==
  ASSUME Counted(critical, sr, pc), NEW t \in Threads, pc[t].at = "user",
         NEW m, NEW th, ResumeAndReturn(t, m, th)
  PROVE  Counted(critical', sr', pc')
<1>1. CASE preempts(m, th)
  BY <1>1, LeaveCounted DEF ResumeAndReturn
<1>2. CASE ~ preempts(m, th)
  BY <1>2, ReturnCounted DEF ResumeAndReturn
<1> QED
  BY <1>1, <1>2

-----------------------------------------------------------------------------
(* Every step keeps the invariant *)

\* thread_init touches neither the queues nor the background thread.
LEMMA InitThreadGuarded ==
  ASSUME Guarded(k), NEW th \in Threads \ {Background}
  PROVE  Guarded(thread_init(k, th, Prior[th]))
<1> DEFINE m == thread_init(k, th, Prior[th])
           prior == [k.prior EXCEPT ![th] = Prior[th]]
           next  == [k.nextPr EXCEPT ![th] = NULL]
<1>1. /\ k \in Memory /\ NULL \in Pointer /\ 0 \in Ticks /\ Background \in Threads
      /\ NULL \notin Threads /\ Lowest \in Nat
      /\ Prior[th] \in Priors /\ Prior[th] < Lowest
  BY ListAssumption, KernelAssumption DEF Guarded, Steady, Priors, Pointer, Ticks
<1>2. m \in Memory
  BY <1>1 DEF thread_init, Memory
<1>3. /\ m.prior = prior /\ m.nextPr = next /\ m.running = k.running
      /\ m.first = k.first /\ m.last = k.last
  BY <1>1 DEF thread_init, Memory
<1>4. k.prior \in [Threads -> Priors] /\ k.nextPr \in [Threads -> Pointer]
  BY <1>1 DEF Memory
<1> HIDE DEF m
<1>5. Steady(m)
  BY <1>1, <1>2, <1>3, <1>4 DEF Guarded, Steady
<1> QED
  BY <1>3, <1>5 DEF Guarded, Vacant, Parked, m

LEMMA SetPriorityGuarded ==
  ASSUME Guarded(k), NEW t \in Threads \ {Background}, NEW p \in NewPriors
  PROVE  Guarded([k EXCEPT !.prior[t] = p])
<1> DEFINE m == [k EXCEPT !.prior[t] = p]
           prior == [k.prior EXCEPT ![t] = p]
<1>1. k \in Memory /\ Background \in Threads /\ p \in Priors /\ p < Lowest
  BY ListAssumption, KernelAssumption DEF Guarded, Steady, Priors
<1>2. m \in Memory
  BY <1>1 DEF Memory
<1>3. /\ m.prior = prior /\ m.nextPr = k.nextPr /\ m.running = k.running
      /\ m.first = k.first /\ m.last = k.last
  BY <1>1 DEF Memory
<1>4. k.prior \in [Threads -> Priors]
  BY <1>1 DEF Memory
<1> HIDE DEF m
<1>5. Steady(m)
  BY <1>1, <1>2, <1>3, <1>4 DEF Guarded, Steady
<1> QED
  BY <1>3, <1>5 DEF Guarded, Vacant, Parked, m

LEMMA NextIInv == IInv /\ [KernelNext]_kernelVars => IInv'
<1> SUFFICES ASSUME Guarded(k), Counted(critical, sr, pc), [KernelNext]_kernelVars
             PROVE  Guarded(k') /\ Counted(critical', sr', pc')
  BY IInvParts
<1>1. ASSUME NEW th \in Threads, scheduler_add(th)
      PROVE  Guarded(k') /\ Counted(critical', sr', pc')
  <2>1. th # Background
    BY <1>1 DEF scheduler_add
  <2>2. Guarded(k')
    BY <1>1, <2>1, InitThreadGuarded, PutGuarded DEF scheduler_add
  <2>3. Counted(critical', sr', pc')
    BY <1>1, <2>1, PointsAreLabels DEF scheduler_add, Counted
  <2> QED
    BY <2>2, <2>3
<1>2. CASE scheduler_run
  <2>1. Guarded(k')
    BY <1>2, YieldGuarded DEF scheduler_run
  <2>2. Counted(critical', sr', pc')
    BY <1>2, PointsAreLabels, KernelAssumption DEF scheduler_run, Counted
  <2> QED
    BY <2>1, <2>2
<1>3. CASE scheduler_run_return
  BY <1>3, PointsAreLabels, KernelAssumption DEF scheduler_run_return, Counted
<1>4. ASSUME NEW t \in Threads, checkIRQ(t, {"run", "yield"})
      PROVE  Guarded(k') /\ Counted(critical', sr', pc')
  BY <1>4 DEF checkIRQ, Counted
<1>5. ASSUME NEW t \in Threads, task_enterCritical(t)
      PROVE  Guarded(k') /\ Counted(critical', sr', pc')
  BY <1>5 DEF task_enterCritical, User, Counted
<1>6. ASSUME NEW t \in Threads, task_exitCritical(t)
      PROVE  Guarded(k') /\ Counted(critical', sr', pc')
  <2>1. /\ critical[t] - 1 \in Nat /\ (critical[t] = 1 <=> critical[t] - 1 = 0)
        /\ pc[t].at = "user" /\ ~ sr[t]
        /\ critical \in [Threads -> Nat] /\ sr \in [Threads -> BOOLEAN]
    BY <1>6 DEF task_exitCritical, User, Counted
  <2>2. /\ critical' \in [Threads -> Nat] /\ sr' \in [Threads -> BOOLEAN]
        /\ pc' = pc
    BY <1>6, <2>1 DEF task_exitCritical, Counted
  <2>3. ASSUME NEW u \in Threads
        PROVE  /\ pc[u].at = "user" => (sr'[u] <=> critical'[u] = 0)
               /\ pc[u].at \notin {"new", "user"} => critical'[u] > 0
    <3>1. CASE u = t
      <4>1. critical'[t] = critical[t] - 1
        BY <1>6, <2>1 DEF task_exitCritical
      <4>2. sr'[t] = (sr[t] \/ critical[t] = 1)
        BY <1>6, <2>1 DEF task_exitCritical
      <4> QED
        BY <2>1, <3>1, <4>1, <4>2
    <3>2. CASE u # t
      BY <1>6, <3>2 DEF task_exitCritical, Counted
    <3> QED
      BY <3>1, <3>2
  <2>4. Counted(critical', sr', pc')
    BY <2>2, <2>3 DEF Counted
  <2> QED
    BY <1>6, <2>4 DEF task_exitCritical
<1>7. ASSUME NEW t \in Threads, NEW p \in NewPriors, task_setPriority(t, p)
      PROVE  Guarded(k') /\ Counted(critical', sr', pc')
  BY <1>7, SetPriorityGuarded, ReturnCounted DEF task_setPriority, User
<1>8. ASSUME NEW t \in Threads, task_yield(t)
      PROVE  Guarded(k') /\ Counted(critical', sr', pc')
  BY <1>8, YieldGuarded, LeaveCounted DEF task_yield
<1>9. ASSUME NEW t \in Threads, yield_return(t)
      PROVE  Guarded(k') /\ Counted(critical', sr', pc')
  BY <1>9, FinishCounted DEF yield_return
<1>10. ASSUME NEW t \in Threads, task_suspend(t)
       PROVE  Guarded(k') /\ Counted(critical', sr', pc')
  <2>1. t # Background
    BY <1>10, KernelAssumption DEF task_suspend
  <2>2. Steady(k) /\ Parked(k)
    BY <1>10, <2>1 DEF Guarded, task_suspend, User
  <2> QED
    BY <1>10, <2>1, <2>2, JumpGuarded, LeaveCounted DEF task_suspend
<1>11. ASSUME NEW t \in Threads, suspend_return(t)
       PROVE  Guarded(k') /\ Counted(critical', sr', pc')
  BY <1>11, FinishCounted DEF suspend_return
<1>12. ASSUME NEW t \in Threads, NEW th \in Threads, task_resume(t, th)
       PROVE  Guarded(k') /\ Counted(critical', sr', pc')
  <2>1. th # Background
    BY <1>12 DEF task_resume, Suspended, Counted
  <2>2. Guarded(k')
    BY <1>12, <2>1, ResumeGuarded DEF task_resume, ResumeAndReturn
  <2>3. Counted(critical', sr', pc')
    BY <1>12, ResumeCounted DEF task_resume, User
  <2> QED
    BY <2>2, <2>3
<1>13. ASSUME NEW t \in Threads, task_yieldISR(t)
       PROVE  Guarded(k') /\ Counted(critical', sr', pc')
  BY <1>13, YieldGuarded DEF task_yieldISR
<1>14. CASE UNCHANGED kernelVars
  BY <1>14 DEF kernelVars
<1> QED
  BY <1>1, <1>2, <1>3, <1>4, <1>5, <1>6, <1>7, <1>8, <1>9, <1>10, <1>11, <1>12,
     <1>13, <1>14 DEF KernelNext, KernelThread, KernelInterrupt

-----------------------------------------------------------------------------
(* Every thread is in its place *)

\* Whoever neither runs nor is ready has suspended itself or is not added yet.
Settled(m, x) ==
  /\ Dispatched(m)
  /\ \A t \in Threads : /\ t \notin Active(m) => x[t].at \in {"suspend", "new"}
                        /\ x[t].at = "new" => t \notin Active(m)

SInv == IInv /\ Settled(k, pc)

LEMMA InitSInv == KernelInit => SInv
<1> SUFFICES ASSUME KernelInit PROVE SInv
  OBVIOUS
<1>1. IInv
  BY InitIInv
<1>2. /\ k \in Memory /\ k.running = Background /\ Background \in Threads
      /\ \A p \in Priors : k.first[p] = NULL
  BY <1>1, KernelAssumption DEF KernelInit, IInv, Guarded, Steady
<1>3. \A p \in Priors : ReadyOf(k, p) = {}
  BY <1>2, ChainNull DEF ReadyOf
<1>4. Dispatched(k) /\ Active(k) = {Background}
  BY <1>2, <1>3 DEF Dispatched, WellQueued, IsReady, Active
<1>5. \A t \in Threads : pc[t].at = IF t = Background THEN "boot" ELSE "new"
  BY PointsAreLabels DEF KernelInit
<1> QED
  BY <1>1, <1>2, <1>4, <1>5 DEF SInv, Settled

\* A call that leaves its thread at a label of its own, or where it was.
LEMMA SettledAt ==
  ASSUME NEW m, NEW x, Settled(m, x), x \in [Threads -> KernelPoints],
         NEW n, Dispatched(n), Active(n) = Active(m),
         NEW t \in Active(m), NEW label,
         label \in {"boot", "run", "user", "yield", "suspend"},
         NEW y, y = [x EXCEPT ![t] = At(label)]
  PROVE  Settled(n, y)
<1>1. At(label).at = label
  BY DEF At
<1>2. \A u \in Threads : y[u] = IF u = t THEN At(label) ELSE x[u]
  OBVIOUS
<1> QED
  BY <1>1, <1>2 DEF Settled

LEMMA SettledSame ==
  ASSUME NEW m, NEW x, Settled(m, x), NEW n, Dispatched(n), Active(n) = Active(m)
  PROVE  Settled(n, x)
BY DEF Settled

LEMMA NextSInv == SInv /\ [KernelNext]_kernelVars => SInv'
<1> SUFFICES ASSUME SInv, [KernelNext]_kernelVars PROVE Settled(k', pc')
  BY NextIInv DEF SInv
<1>1. /\ Settled(k, pc) /\ Dispatched(k) /\ Guarded(k) /\ Steady(k)
      /\ pc \in [Threads -> KernelPoints] /\ k \in Memory
      /\ k.running \in Active(k) /\ k.running \in Threads
      /\ pc[Background].at \notin {"new", "suspend"}
  BY DEF SInv, IInv, Settled, Dispatched, Guarded, KernelTypeOK, Active
<1>2. ASSUME NEW th \in Threads, scheduler_add(th) PROVE Settled(k', pc')
  <2> DEFINE m == thread_init(k, th, Prior[th])
  <2>1. /\ th \notin Active(k) /\ th # Background
        /\ k' = threadQueueArray_put(m, th) /\ pc' = [pc EXCEPT ![th] = At("user")]
    BY <1>1, <1>2 DEF scheduler_add, Settled
  <2>2. Guarded(m)
    BY <1>1, <2>1, InitThreadGuarded
  <2>3. /\ m.running = k.running /\ m.first = k.first /\ m.last = k.last
        /\ \A t \in Threads : t # th =>
             m.nextPr[t] = k.nextPr[t] /\ m.prior[t] = k.prior[t]
    BY <1>1 DEF thread_init, Memory
  <2> HIDE DEF m
  <2>4. Dispatched(m) /\ Active(m) = Active(k)
    <3>1. ~ IsReady(k, th)
      BY <2>1 DEF Active
    <3> QED
      BY <1>1, <2>2, <2>3, <3>1, SameRunnersActive DEF Guarded, Steady
  <2>5. Dispatched(k') /\ Active(k') = Active(k) \cup {th}
    BY <2>1, <2>4, PutActive
  <2>6. \A u \in Threads : pc'[u].at = IF u = th THEN "user" ELSE pc[u].at
    BY <1>1, <2>1, PointsAreLabels
  <2> QED
    BY <1>1, <2>5, <2>6 DEF Settled
<1>3. CASE scheduler_run
  BY <1>1, <1>3, YieldActive, SettledAt, KernelAssumption DEF scheduler_run
<1>4. CASE scheduler_run_return
  BY <1>1, <1>4, SettledAt DEF scheduler_run_return
<1>5. ASSUME NEW t \in Threads,
             \/ checkIRQ(t, {"run", "yield"})
             \/ task_enterCritical(t) \/ task_exitCritical(t)
      PROVE  Settled(k', pc')
  BY <1>1, <1>5 DEF checkIRQ, task_enterCritical, task_exitCritical
<1>6. ASSUME NEW t \in Threads, NEW p \in NewPriors, task_setPriority(t, p)
      PROVE  Settled(k', pc')
  <2>1. k' = [k EXCEPT !.prior[t] = p] /\ pc' = pc /\ t = k.running /\ t # Background
    BY <1>6 DEF task_setPriority, Return, User
  <2>2. Guarded(k')
    BY <1>1, <2>1, SetPriorityGuarded
  <2>3. /\ k'.running = k.running /\ k'.first = k.first /\ k'.last = k.last
        /\ \A u \in Threads : u # t =>
             k'.nextPr[u] = k.nextPr[u] /\ k'.prior[u] = k.prior[u]
    BY <1>1, <2>1 DEF Memory
  <2>4. ~ IsReady(k, t)
    BY <1>1, <2>1 DEF Dispatched
  <2>5. Dispatched(k') /\ Active(k') = Active(k)
    BY <1>1, <2>2, <2>3, <2>4, SameRunnersActive DEF Guarded, Steady
  <2> QED
    BY <1>1, <2>1, <2>5, SettledSame
<1>7. ASSUME NEW t \in Threads, task_yield(t) PROVE Settled(k', pc')
  BY <1>1, <1>7, YieldActive, SettledAt DEF task_yield, User, Leave
<1>8. ASSUME NEW t \in Threads, yield_return(t) \/ suspend_return(t)
      PROVE  Settled(k', pc')
  BY <1>1, <1>8, SettledAt DEF yield_return, suspend_return, Finish
<1>9. ASSUME NEW t \in Threads, task_suspend(t) PROVE Settled(k', pc')
  <2>1. /\ t = k.running /\ t # Background /\ k' = jump(k)
        /\ pc' = [pc EXCEPT ![t] = At("suspend")]
    BY <1>9, KernelAssumption DEF task_suspend, User, Leave
  <2>2. ReadyPriors(k) # {}
    BY <1>1, <2>1, ListAssumption, KernelAssumption
       DEF Guarded, Parked, ReadyPriors, Priors
  <2>3. Dispatched(k') /\ Active(k') = Active(k) \ {t}
    BY <1>1, <2>1, <2>2, JumpActive
  <2>4. \A u \in Threads : pc'[u].at = IF u = t THEN "suspend" ELSE pc[u].at
    BY <1>1, <2>1, PointsAreLabels
  <2> QED
    BY <1>1, <2>3, <2>4 DEF Settled
<1>10. ASSUME NEW t \in Threads, NEW th \in Threads, task_resume(t, th)
       PROVE  Settled(k', pc')
  <2>1. /\ t = k.running /\ pc[th].at = "suspend" /\ k' = resume(k, th)
        /\ pc' = pc \/ pc' = [pc EXCEPT ![t] = At("yield")]
    BY <1>10 DEF task_resume, ResumeAndReturn, Leave, Return, User, Suspended
  <2>2. th \notin Active(k)
    BY <1>10 DEF task_resume, Suspended, Active, IsReady, ReadyOf, Ready
  <2>3. Dispatched(k') /\ Active(k') = Active(k) \cup {th}
    BY <1>1, <2>1, <2>2, ResumeActive
  <2>4. \A u \in Threads : \/ pc'[u].at = pc[u].at
                           \/ u = t /\ pc'[u].at = "yield"
    BY <1>1, <2>1, PointsAreLabels
  <2> QED
    BY <1>1, <2>1, <2>3, <2>4 DEF Settled
<1>11. ASSUME NEW t \in Threads, task_yieldISR(t) PROVE Settled(k', pc')
  BY <1>1, <1>11, YieldActive, SettledSame DEF task_yieldISR
<1>12. CASE UNCHANGED kernelVars
  BY <1>1, <1>12 DEF kernelVars
<1> QED
  BY <1>2, <1>3, <1>4, <1>5, <1>6, <1>7, <1>8, <1>9, <1>10, <1>11, <1>12
     DEF KernelNext, KernelThread, KernelInterrupt

-----------------------------------------------------------------------------
(* Theorems *)

\* The inductive invariant holds in every behaviour of the kernel.
THEOREM KernelInvariant == KernelSpec => []IInv
<1>1. KernelInit => IInv
  BY InitIInv
<1>2. IInv /\ [KernelNext]_kernelVars => IInv'
  BY NextIInv
<1> QED
  BY <1>1, <1>2, PTL DEF KernelSpec

\* Type correctness: the pointers of the ready queues and the links, which the
\* code writes with no check, always hold a thread or the null pointer.
THEOREM KernelTypesCorrect == KernelSpec => []KernelTypeOK
<1>1. IInv => KernelTypeOK
  BY DEF IInv
<1> QED
  BY <1>1, KernelInvariant, PTL

\* _jump never loads a null context (anyRTOS.c:66-69): for any threads and any
\* priorities below the lowest, the background thread is ready when nobody else is.
THEOREM SomebodyRuns == KernelSpec => []NeverJumpsToNull
<1>1. IInv => NeverJumpsToNull
  BY ListAssumption DEF IInv, Guarded, NeverJumpsToNull
<1> QED
  BY <1>1, KernelInvariant, PTL

\* The interrupt flag of the thread that runs follows its critical sections
\* (anyRTOS.c:145-153), for any number of threads and any depth of nesting.
THEOREM MaskFollowsSections == KernelSpec => []InterruptMask
<1>1. IInv => InterruptMask
  BY DEF IInv, Masked, InterruptMask, User
<1> QED
  BY <1>1, KernelInvariant, PTL

\* A thread inside a critical section of its own keeps the processor until it
\* gives it up itself (task.h:33-38): no interrupt routine takes it away.
THEOREM SectionsAreHeld == KernelSpec => ClientSectionHeld
<1> DEFINE Held == \A t \in Threads :
             User(t) /\ critical[t] > 0 /\ k'.running # t => pc'[t].at # "user"
<1>1. ASSUME IInv, [KernelNext]_kernelVars PROVE Held
  <2> SUFFICES ASSUME NEW t \in Threads, User(t), critical[t] > 0,
                      k'.running # t
               PROVE  pc'[t].at # "user"
    OBVIOUS
  <2>1. /\ k \in Memory /\ Guarded(k) /\ pc \in [Threads -> KernelPoints]
        /\ ~ sr[t] /\ pc[Background].at \notin {"new", "suspend"}
        /\ k.running = t /\ pc[t].at = "user"
    BY <1>1 DEF IInv, KernelTypeOK, KernelTypes, Masked, User
  <2>2. ASSUME NEW label \in {"yield", "suspend"}, Leave(t, At(label))
        PROVE  pc'[t].at # "user"
    BY <2>1, <2>2, PointsAreLabels DEF Leave
  <2>3. ASSUME NEW u \in Threads, task_yield(u) PROVE pc'[t].at # "user"
    BY <2>1, <2>2, <2>3 DEF task_yield, User
  <2>4. ASSUME NEW u \in Threads, task_suspend(u) PROVE pc'[t].at # "user"
    BY <2>1, <2>2, <2>4 DEF task_suspend, User
  <2>5. ASSUME NEW u \in Threads, NEW th \in Threads, task_resume(u, th)
        PROVE  pc'[t].at # "user"
    <3>1. u = t /\ th # Background
      BY <2>1, <2>5 DEF task_resume, Suspended, User
    <3>2. threadQueueArray_put(k, th).running = k.running
      BY <2>1, <3>1, PutThread DEF Guarded
    <3>3. preempts(k, th)
      BY <2>1, <2>5, <3>2 DEF task_resume, ResumeAndReturn, resume
    <3> QED
      BY <2>2, <2>5, <3>1, <3>3 DEF task_resume, ResumeAndReturn
  <2>6. ASSUME NEW u \in Threads, NEW p \in NewPriors, task_setPriority(u, p)
        PROVE  FALSE
    BY <2>1, <2>6 DEF task_setPriority, Memory
  <2>7. ASSUME NEW u \in Threads, task_yieldISR(u) PROVE FALSE
    BY <2>1, <2>7 DEF task_yieldISR, InterruptsEnabled
  <2>8. ASSUME NEW u \in Threads,
               \/ task_enterCritical(u) \/ task_exitCritical(u)
               \/ yield_return(u) \/ suspend_return(u)
               \/ checkIRQ(u, {"run", "yield"})
        PROVE  FALSE
    BY <2>1, <2>8 DEF task_enterCritical, task_exitCritical, yield_return,
       suspend_return, checkIRQ
  <2>9. CASE scheduler_run \/ scheduler_run_return
    BY <2>1, <2>9 DEF scheduler_run, scheduler_run_return
  <2>10. ASSUME NEW th \in Threads, scheduler_add(th) PROVE FALSE
    BY <2>1, <2>10 DEF scheduler_add
  <2>11. CASE UNCHANGED kernelVars
    BY <2>1, <2>11 DEF kernelVars
  <2> QED
    BY <1>1, <2>3, <2>4, <2>5, <2>6, <2>7, <2>8, <2>9, <2>10, <2>11
       DEF KernelNext, KernelThread, KernelInterrupt
<1>2. IInv /\ [KernelNext]_kernelVars => [Held]_kernelVars
  BY <1>1
<1> QED
  BY <1>2, KernelInvariant, PTL DEF KernelSpec, ClientSectionHeld

\* No thread is lost and none is twice in the system, for any number of threads:
\* each runs, is in the ready queue of its priority, or has suspended itself, and
\* every ready queue ends at its last pointer (thread-list.h:348-457).
THEOREM NoThreadIsLost == KernelSpec => []NoThreadLost
<1>1. KernelSpec => []SInv
  BY InitSInv, NextSInv, PTL DEF KernelSpec
<1>2. SInv => NoThreadLost
  <2> SUFFICES ASSUME SInv PROVE NoThreadLost
    OBVIOUS
  <2>1. /\ Dispatched(k) /\ k \in Memory /\ WellQueued(k)
        /\ \A t \in Threads : t \notin Active(k) => pc[t].at \in {"suspend", "new"}
    BY DEF SInv, Settled, Dispatched
  <2>2. \A p \in Priors : Ready(p) = ReadyOf(k, p)
    BY DEF Ready, ReadyOf
  <2>3. QueuesWellFormed
    BY <2>1, <2>2 DEF QueuesWellFormed, WellQueued, Terminates, ReadyOf
  <2>4. ASSUME NEW t \in Threads PROVE Accounted(t, {}, {})
    <3>1. /\ \A p \in QueuesHolding(t) : p = k.prior[t]
          /\ k.prior[t] \in Priors
      BY <2>1, <2>2 DEF QueuesHolding, WellQueued, Memory
    <3>2. IsReady(k, t) <=> QueuesHolding(t) # {}
      BY <2>2 DEF QueuesHolding, IsReady
    <3>3. t = k.running => ~ IsReady(k, t)
      BY <2>1 DEF Dispatched
    <3>4. QueuesHolding(t) = {} \/ QueuesHolding(t) = {k.prior[t]}
      BY <3>1
    <3> QED
      BY <2>1, <3>2, <3>3, <3>4 DEF Accounted, Active
  <2> QED
    BY <2>3, <2>4 DEF NoThreadLost
<1> QED
  BY <1>1, <1>2, PTL

\* Preemptive priority scheduling (task.h:66).  The hypothesis is needed:
\* task_setPriority does not reschedule, so a thread that lowers itself goes on.
THEOREM HighestPriorityRuns ==
  ASSUME NewPriors \subseteq {0}
  PROVE  KernelSpec => []PreemptivePriority
<1> DEFINE PInv == SInv /\ (pc[Background].at # "boot" => Highest(k))
<1>1. KernelInit => PInv
  BY InitSInv, PointsAreLabels, KernelAssumption DEF KernelInit
<1>2. PInv /\ [KernelNext]_kernelVars => PInv'
  <2> SUFFICES ASSUME SInv, pc[Background].at # "boot" => Highest(k),
                      [KernelNext]_kernelVars, pc'[Background].at # "boot"
               PROVE  Highest(k')
    BY NextSInv
  <2>1. /\ Dispatched(k) /\ k \in Memory /\ Guarded(k)
        /\ \A p \in ReadyPriors(k) : p \in Nat
    BY ListAssumption
       DEF SInv, IInv, Settled, Dispatched, ReadyPriors, Priors
  <2>2. CASE scheduler_run
    BY <2>1, <2>2, YieldActive DEF scheduler_run
  <2>3. ASSUME NEW th \in Threads, scheduler_add(th) PROVE FALSE
    BY <2>3, PointsAreLabels, KernelAssumption DEF scheduler_add, SInv, IInv, KernelTypeOK
  <2>4. CASE scheduler_run_return
    BY <2>4, PointsAreLabels DEF scheduler_run_return
  <2>5. ASSUME NEW t \in Threads,
               \/ checkIRQ(t, {"run", "yield"})
               \/ task_enterCritical(t) \/ task_exitCritical(t)
        PROVE  Highest(k')
    BY <2>5 DEF checkIRQ, task_enterCritical, task_exitCritical
  <2>6. ASSUME NEW t \in Threads, NEW p \in NewPriors, task_setPriority(t, p)
        PROVE  Highest(k')
    <3>1. k' = [k EXCEPT !.prior[t] = 0] /\ t = k.running
      BY <2>6 DEF task_setPriority, User
    <3>2. /\ k'.running = k.running /\ k'.first = k.first
          /\ k'.prior[k.running] = 0
      BY <2>1, <3>1 DEF Memory
    <3> QED
      BY <2>1, <3>2 DEF Highest, ReadyPriors
  <2>7. ASSUME NEW t \in Threads, task_yield(t) \/ task_yieldISR(t)
        PROVE  Highest(k')
    BY <2>1, <2>7, YieldActive DEF task_yield, task_yieldISR
  <2>8. ASSUME NEW t \in Threads, yield_return(t) \/ suspend_return(t)
        PROVE  Highest(k')
    <3>1. k' = k /\ pc[t].at # "boot" /\ pc' = [pc EXCEPT ![t] = At("user")]
      BY <2>8 DEF yield_return, suspend_return, Finish
    <3>2. pc[Background].at # "boot"
      BY <3>1 DEF SInv, IInv, KernelTypeOK
    <3> QED
      BY <3>1, <3>2
  <2>9. ASSUME NEW t \in Threads, task_suspend(t) PROVE Highest(k')
    <3>1. t = k.running /\ t # Background /\ k' = jump(k)
      BY <2>9, KernelAssumption DEF task_suspend, User
    <3>2. ReadyPriors(k) # {}
      BY <2>1, <3>1, ListAssumption, KernelAssumption
         DEF Guarded, Parked, ReadyPriors, Priors
    <3> QED
      BY <2>1, <3>1, <3>2, JumpActive
  <2>10. ASSUME NEW t \in Threads, NEW th \in Threads, task_resume(t, th)
         PROVE  Highest(k')
    <3>1. th \notin Active(k) /\ k' = resume(k, th)
      BY <2>10 DEF task_resume, ResumeAndReturn, Suspended, Active, IsReady, ReadyOf, Ready
    <3>2. Highest(k) => Highest(k')
      BY <2>1, <3>1, ResumeActive
    <3>3. /\ pc[t].at = "user"
          /\ pc' = pc \/ pc' = [pc EXCEPT ![t] = At("yield")]
      BY <2>10 DEF task_resume, ResumeAndReturn, Leave, Return, User
    <3>4. pc[Background].at # "boot"
      BY <3>3, KernelAssumption DEF SInv, IInv, KernelTypeOK
    <3> QED
      BY <3>2, <3>4
  <2>11. CASE UNCHANGED kernelVars
    BY <2>11 DEF kernelVars
  <2> QED
    BY <2>2, <2>3, <2>4, <2>5, <2>6, <2>7, <2>8, <2>9, <2>10, <2>11
       DEF KernelNext, KernelThread, KernelInterrupt
<1>3. PInv => PreemptivePriority
  BY DEF Highest, PreemptivePriority
<1> QED
  BY <1>1, <1>2, <1>3, PTL DEF KernelSpec

-----------------------------------------------------------------------------
(* The lists above the scheduler.  Whatever they hold, and however their back *)
(* pointers point, no link and no head leads to the background thread.        *)

\* The ready queues, priorities and ticks are not what the lists write.
SameRunners(m, n) ==
  /\ n.running = m.running /\ n.first = m.first /\ n.last = m.last
  /\ n.prior = m.prior /\ n.tick = m.tick

Fenced(m) ==
  /\ Guarded(m)
  /\ \A l \in Lists : m.head[l] # Background
  /\ \A th \in Threads : m.nextTk[th] # Background

Others == Pointer \ {Background}

LEMMA FencedLinks ==
  ASSUME NEW m, Fenced(m), NEW n, n \in Memory, SameRunners(m, n),
         \A l \in Lists : n.head[l] # Background,
         \A th \in Threads : n.nextPr[th] # Background /\ n.nextTk[th] # Background
  PROVE  Fenced(n)
BY DEF Fenced, Guarded, Steady, SameRunners, Vacant, Parked

LEMMA FencedTypes ==
  ASSUME NEW m, Fenced(m)
  PROVE  /\ m \in Memory /\ m.running \in Threads
         /\ \A l \in Lists : m.head[l] \in Others
         /\ \A th \in Threads : m.nextPr[th] \in Others /\ m.nextTk[th] \in Others
BY DEF Fenced, Guarded, Steady, Memory, Others

\* A write through a pointer to a pointer.
LEMMA StoreFenced ==
  ASSUME NEW m, Fenced(m), NEW a \in PrAddress \cup TkAddress, NEW v \in Others,
         NEW n, n = Store(m, a, v)
  PROVE  Fenced(n) /\ SameRunners(m, n)
<1>1. /\ v \in Pointer /\ v # Background /\ m \in Memory
      /\ \A l \in Lists : m.head[l] \in Others
      /\ \A th \in Threads : m.nextPr[th] \in Others /\ m.nextTk[th] \in Others
  BY FencedTypes DEF Others
<1>2. /\ m.head \in [Lists -> Pointer] /\ m.nextPr \in [Threads -> Pointer]
      /\ m.nextTk \in [Threads -> Pointer]
  BY <1>1 DEF Memory
<1>3. ASSUME NEW l \in Lists, a = HeadOf(l) PROVE Fenced(n) /\ SameRunners(m, n)
  <2>1. n = [m EXCEPT !.head[l] = v]
    BY <1>3 DEF Store, HeadOf
  <2> DEFINE head == [m.head EXCEPT ![l] = v]
  <2>2. head \in [Lists -> Pointer]
    BY <1>1, <1>2
  <2>3. n = [m EXCEPT !.head = head]
    BY <1>1, <2>1 DEF Memory
  <2> HIDE DEF head
  <2>4. /\ n \in Memory /\ SameRunners(m, n)
        /\ n.head = head /\ n.nextPr = m.nextPr /\ n.nextTk = m.nextTk
    BY <1>1, <2>2, <2>3 DEF Memory, SameRunners
  <2>5. \A x \in Lists : n.head[x] # Background
    BY <1>1, <1>2, <2>4 DEF head, Others
  <2> QED
    BY <1>1, <2>4, <2>5, FencedLinks DEF Others
<1>4. ASSUME NEW th \in Threads, a = [field |-> "nextPr", of |-> th]
      PROVE  Fenced(n) /\ SameRunners(m, n)
  <2>1. n = [m EXCEPT !.nextPr[th] = v]
    BY <1>4 DEF Store
  <2> DEFINE next == [m.nextPr EXCEPT ![th] = v]
  <2>2. next \in [Threads -> Pointer]
    BY <1>1, <1>2
  <2>3. n = [m EXCEPT !.nextPr = next]
    BY <1>1, <2>1 DEF Memory
  <2> HIDE DEF next
  <2>4. /\ n \in Memory /\ SameRunners(m, n)
        /\ n.nextPr = next /\ n.head = m.head /\ n.nextTk = m.nextTk
    BY <1>1, <2>2, <2>3 DEF Memory, SameRunners
  <2>5. \A x \in Threads : n.nextPr[x] # Background
    BY <1>1, <1>2, <2>4 DEF next, Others
  <2> QED
    BY <1>1, <2>4, <2>5, FencedLinks DEF Others
<1>5. ASSUME NEW th \in Threads, a = [field |-> "nextTk", of |-> th]
      PROVE  Fenced(n) /\ SameRunners(m, n)
  <2>1. n = [m EXCEPT !.nextTk[th] = v]
    BY <1>5 DEF Store
  <2> DEFINE next == [m.nextTk EXCEPT ![th] = v]
  <2>2. next \in [Threads -> Pointer]
    BY <1>1, <1>2
  <2>3. n = [m EXCEPT !.nextTk = next]
    BY <1>1, <2>1 DEF Memory
  <2> HIDE DEF next
  <2>4. /\ n \in Memory /\ SameRunners(m, n)
        /\ n.nextTk = next /\ n.head = m.head /\ n.nextPr = m.nextPr
    BY <1>1, <2>2, <2>3 DEF Memory, SameRunners
  <2>5. \A x \in Threads : n.nextTk[x] # Background
    BY <1>1, <1>2, <2>4 DEF next, Others
  <2> QED
    BY <1>1, <2>4, <2>5, FencedLinks DEF Others
<1>6. \/ \E l \in Lists : a = HeadOf(l)
      \/ \E th \in Threads : a = [field |-> "nextPr", of |-> th]
      \/ \E th \in Threads : a = [field |-> "nextTk", of |-> th]
  BY DEF PrAddress, TkAddress, Lists, NextPrOf, NextTkOf
<1> QED
  BY <1>3, <1>4, <1>5, <1>6

\* A back pointer is set to where a write went.
LEMMA BackFenced ==
  ASSUME NEW m, Fenced(m), NEW th \in Threads, NEW n,
         \/ \E a \in PrAddress \cup {NULL} : n = [m EXCEPT !.prevPr[th] = a]
         \/ \E a \in TkAddress \cup {NULL, REMOVED} : n = [m EXCEPT !.prevTk[th] = a]
  PROVE  Fenced(n) /\ SameRunners(m, n)
<1>1. /\ m \in Memory
      /\ \A l \in Lists : m.head[l] # Background
      /\ \A x \in Threads : m.nextPr[x] # Background /\ m.nextTk[x] # Background
  BY FencedTypes DEF Others
<1>2. /\ n \in Memory /\ SameRunners(m, n)
      /\ n.head = m.head /\ n.nextPr = m.nextPr /\ n.nextTk = m.nextTk
  BY <1>1 DEF Memory, SameRunners
<1> QED
  BY <1>1, <1>2, FencedLinks

LEMMA SameRunnersTrans ==
  ASSUME NEW m, NEW q, NEW n, SameRunners(m, q), SameRunners(q, n)
  PROVE  SameRunners(m, n)
BY DEF SameRunners

\* A thread is linked to an address, and its back pointer to it.
LEMMA PointedFenced ==
  ASSUME NEW m, Fenced(m), NEW th \in Threads \ {Background}, NEW n,
         \/ \E a \in PrAddress : n = thread_pointedByPriorList(m, th, a)
         \/ \E a \in TkAddress : n = thread_pointedByTickList(m, th, a)
  PROVE  Fenced(n) /\ SameRunners(m, n)
<1>1. th \in Others /\ th \in Threads
  BY DEF Others, Pointer
<1>2. ASSUME NEW a \in PrAddress, n = thread_pointedByPriorList(m, th, a)
      PROVE  Fenced(n) /\ SameRunners(m, n)
  <2> DEFINE s == Store(m, a, th)
  <2>1. Fenced(s) /\ SameRunners(m, s)
    BY <1>1, StoreFenced
  <2>2. n = s \/ n = [s EXCEPT !.prevPr[th] = a]
    BY <1>2 DEF thread_pointedByPriorList
  <2> HIDE DEF s
  <2> QED
    BY <1>1, <2>1, <2>2, BackFenced, SameRunnersTrans
<1>3. ASSUME NEW a \in TkAddress, n = thread_pointedByTickList(m, th, a)
      PROVE  Fenced(n) /\ SameRunners(m, n)
  <2> DEFINE s == Store(m, a, th)
  <2>1. Fenced(s) /\ SameRunners(m, s)
    BY <1>1, StoreFenced
  <2>2. n = s \/ n = [s EXCEPT !.prevTk[th] = a]
    BY <1>3 DEF thread_pointedByTickList
  <2> HIDE DEF s
  <2> QED
    BY <1>1, <2>1, <2>2, BackFenced, SameRunnersTrans
<1> QED
  BY <1>2, <1>3

\* A thread is taken out of the other list it waits in.
LEMMA RemoveFenced ==
  ASSUME NEW m, Fenced(m), NEW th \in Threads, NEW n,
         n = thread_removeFromTickList(m, th) \/ n = thread_removeFromPriorList(m, th)
  PROVE  Fenced(n) /\ SameRunners(m, n)
<1>1. /\ m \in Memory /\ m.nextPr[th] \in Others /\ m.nextTk[th] \in Others
      /\ m.prevTk[th] \in TkAddress \cup {NULL, REMOVED}
      /\ m.prevPr[th] \in PrAddress \cup {NULL}
  BY FencedTypes DEF Memory
<1>2. SameRunners(m, m)
  BY DEF SameRunners
<1>3. CASE n = thread_removeFromTickList(m, th) /\ m.prevTk[th] \notin {NULL, REMOVED}
  <2> DEFINE s == Store(m, m.prevTk[th], m.nextTk[th])
  <2>1. Fenced(s) /\ SameRunners(m, s)
    BY <1>1, <1>3, StoreFenced
  <2>2. n = [s EXCEPT !.prevTk[th] = REMOVED]
    BY <1>3 DEF thread_removeFromTickList
  <2> HIDE DEF s
  <2> QED
    BY <2>1, <2>2, BackFenced, SameRunnersTrans
<1>4. CASE n = thread_removeFromPriorList(m, th) /\ m.prevPr[th] # NULL
  <2> DEFINE s == Store(m, m.prevPr[th], m.nextPr[th])
  <2>1. Fenced(s) /\ SameRunners(m, s)
    BY <1>1, <1>4, StoreFenced
  <2>2. n = [s EXCEPT !.prevPr[th] = NULL]
    BY <1>4 DEF thread_removeFromPriorList
  <2> HIDE DEF s
  <2> QED
    BY <2>1, <2>2, BackFenced, SameRunnersTrans
<1> QED
  BY <1>2, <1>3, <1>4 DEF thread_removeFromTickList, thread_removeFromPriorList

\* A loop over a list ends at a thread.
LEMMA LoopEndThread ==
  ASSUME NEW next, NEW start \in Threads, NEW go
  PROVE  LoopEnd(next, start, go) \in Threads
BY DEF LoopEnd, Visits

LEMMA TkLinksFenced ==
  ASSUME NEW m, Fenced(m)
  PROVE  /\ TkLinks(m) \in [Threads -> Pointer]
         /\ \A th \in Threads : TkLinks(m)[th] \in Others
BY FencedTypes DEF TkLinks, Memory

LEMMA LinkTkFenced ==
  ASSUME NEW m, Fenced(m), NEW th \in Threads, NEW v \in Others,
         NEW n, n = LinkTk(m, th, v)
  PROVE  Fenced(n) /\ SameRunners(m, n)
<1>1. NextTkOf(th) \in TkAddress /\ n = Store(m, NextTkOf(th), v)
  BY DEF TkAddress, NextTkOf, LinkTk, Store
<1> QED
  BY <1>1, StoreFenced

LEMMA priorListPutFenced ==
  ASSUME NEW m, Fenced(m), NEW l \in PriorLists, NEW th \in Threads \ {Background},
         NEW n, n = priorList_put(m, l, th)
  PROVE  Fenced(n) /\ SameRunners(m, n)
<1>1. HeadOf(l) \in PrAddress /\ \A i \in Threads : NextPrOf(i) \in PrAddress
  BY DEF PrAddress
<1>2. CASE m.head[l] = NULL
  BY <1>1, <1>2, PointedFenced DEF priorList_put
<1>3. CASE m.head[l] # NULL
  <2> DEFINE before == {i \in Threads : /\ m.nextPr[i] # NULL
                                        /\ m.prior[m.nextPr[i]] < m.prior[th]}
             i == LoopEnd(m.nextPr, m.head[l], before)
             s == [m EXCEPT !.nextPr[th] = m.nextPr[i]]
  <2>1. m.head[l] \in Threads /\ \A x \in Threads : m.nextPr[x] \in Others
    BY <1>3, FencedTypes DEF Others, Pointer, Lists
  <2>2. i \in Threads
    BY <2>1, LoopEndThread
  <2>3. n = thread_pointedByPriorList(s, th, NextPrOf(i))
    BY <1>3 DEF priorList_put
  <2>4. s = Store(m, [field |-> "nextPr", of |-> th], m.nextPr[i])
    BY DEF Store
  <2> HIDE DEF i, s
  <2>5. [field |-> "nextPr", of |-> th] \in PrAddress
    BY DEF PrAddress, NextPrOf
  <2>6. Fenced(s) /\ SameRunners(m, s)
    BY <2>1, <2>2, <2>4, <2>5, StoreFenced
  <2>7. Fenced(n) /\ SameRunners(s, n)
    BY <1>1, <2>2, <2>3, <2>6, PointedFenced
  <2> QED
    BY <2>6, <2>7, SameRunnersTrans
<1> QED
  BY <1>2, <1>3

\* Taking the first thread of a list leaves its back pointer null.
TakenPr(m, l, th, v) == [m EXCEPT !.head[l] = v, !.prevPr[th] = NULL]
TakenTk(m, l, th, v) == [m EXCEPT !.head[l] = v, !.prevTk[th] = NULL]

LEMMA TakeFirstPrFenced ==
  ASSUME NEW m, Fenced(m), NEW l \in Lists, NEW th \in Threads, NEW v \in Others, NEW n,
         n = TakenPr(m, l, th, v)
  PROVE  Fenced(n) /\ SameRunners(m, n)
<1> DEFINE s == [m EXCEPT !.head[l] = v]
<1>1. s = Store(m, HeadOf(l), v) /\ HeadOf(l) \in PrAddress \cup TkAddress
  BY DEF Store, HeadOf, PrAddress, TkAddress, Lists
<1>2. n = [s EXCEPT !.prevPr[th] = NULL]
  BY DEF TakenPr
<1> HIDE DEF s
<1>3. Fenced(s) /\ SameRunners(m, s)
  BY <1>1, StoreFenced
<1> QED
  BY <1>2, <1>3, BackFenced, SameRunnersTrans

LEMMA TakeFirstTkFenced ==
  ASSUME NEW m, Fenced(m), NEW l \in Lists, NEW th \in Threads, NEW v \in Others, NEW n,
         n = TakenTk(m, l, th, v)
  PROVE  Fenced(n) /\ SameRunners(m, n)
<1> DEFINE s == [m EXCEPT !.head[l] = v]
<1>1. s = Store(m, HeadOf(l), v) /\ HeadOf(l) \in PrAddress \cup TkAddress
  BY DEF Store, HeadOf, PrAddress, TkAddress, Lists
<1>2. n = [s EXCEPT !.prevTk[th] = NULL]
  BY DEF TakenTk
<1> HIDE DEF s
<1>3. Fenced(s) /\ SameRunners(m, s)
  BY <1>1, StoreFenced
<1> QED
  BY <1>2, <1>3, BackFenced, SameRunnersTrans

LEMMA priorListGetFenced ==
  ASSUME NEW m, Fenced(m), NEW l \in PriorLists, m.head[l] # NULL,
         NEW n, n = priorList_get(m, l)
  PROVE  Fenced(n) /\ SameRunners(m, n) /\ m.head[l] \in Threads \ {Background}
<1> DEFINE th == m.head[l]
           v  == m.nextPr[th]
           s  == TakenPr(m, l, th, v)
<1>1. l \in Lists /\ th \in Threads \ {Background} /\ v \in Others
  BY FencedTypes DEF Lists, Others, Pointer
<1>2. n = thread_removeFromTickList(s, th)
  BY DEF priorList_get, TakenPr
<1>3. Fenced(s) /\ SameRunners(m, s)
  <2> HIDE DEF th, v
  <2> QED
    BY <1>1, TakeFirstPrFenced
<1> HIDE DEF s
<1>4. Fenced(n) /\ SameRunners(s, n)
  <2> HIDE DEF th
  <2> QED
    BY <1>1, <1>2, <1>3, RemoveFenced
<1> QED
  BY <1>1, <1>3, <1>4, SameRunnersTrans

LEMMA tickListPutFenced ==
  ASSUME NEW m, Fenced(m), NEW l \in TickLists, NEW th \in Threads \ {Background},
         NEW n, n = tickList_put(m, l, th)
  PROVE  Fenced(n) /\ SameRunners(m, n)
<1> DEFINE Over(i) == tick_isOver(m.tick[i], m.tick[th])
           next == TkLinks(m)
           before == {i \in Threads : next[i] # NULL /\ ~ Over(next[i])}
           i == LoopEnd(next, m.head[l], before)
<1>1. /\ HeadOf(l) \in TkAddress /\ \A x \in Threads : NextTkOf(x) \in TkAddress
      /\ m.head[l] \in Others
  BY FencedTypes DEF TkAddress, Lists
<1>2. CASE m.head[l] = NULL \/ Over(m.head[l])
  <2> DEFINE s == LinkTk(m, th, m.head[l])
  <2>1. n = thread_pointedByTickList(s, th, HeadOf(l))
    BY <1>2 DEF tickList_put
  <2>2. Fenced(s) /\ SameRunners(m, s)
    BY <1>1, LinkTkFenced
  <2> HIDE DEF s
  <2>3. Fenced(n) /\ SameRunners(s, n)
    BY <1>1, <2>1, <2>2, PointedFenced
  <2> QED
    BY <2>2, <2>3, SameRunnersTrans
<1>3. CASE ~ (m.head[l] = NULL \/ Over(m.head[l]))
  <2> DEFINE s == LinkTk(m, th, next[i])
  <2>1. n = thread_pointedByTickList(s, th, NextTkOf(i))
    BY <1>3 DEF tickList_put
  <2>2. i \in Threads
    BY <1>1, <1>3, LoopEndThread DEF Others, Pointer
  <2> HIDE DEF i
  <2>3. next[i] \in Others
    BY <2>2, TkLinksFenced
  <2>4. Fenced(s) /\ SameRunners(m, s)
    BY <2>3, LinkTkFenced
  <2> HIDE DEF s
  <2>5. Fenced(n) /\ SameRunners(s, n)
    BY <1>1, <2>1, <2>2, <2>4, PointedFenced
  <2> QED
    BY <2>4, <2>5, SameRunnersTrans
<1> QED
  BY <1>2, <1>3

LEMMA tickListGetFenced ==
  ASSUME NEW m, Fenced(m), NEW l \in TickLists, NEW tick,
         NEW th, th = tickList_due(m, l, tick), th # NULL,
         NEW n, n = tickList_get(m, l, tick)
  PROVE  Fenced(n) /\ SameRunners(m, n) /\ th \in Threads \ {Background}
<1> DEFINE v == TkLinks(m)[th]
           s == TakenTk(m, l, th, v)
<1>1. th = m.head[l] /\ m.head[l] \in Others /\ l \in Lists
  BY FencedTypes DEF tickList_due, Lists
<1>2. th \in Threads \ {Background} /\ v \in Others
  BY <1>1, TkLinksFenced DEF Others, Pointer
<1>3. n = thread_removeFromPriorList(s, th)
  BY DEF tickList_get, TakenTk
<1>4. Fenced(s) /\ SameRunners(m, s)
  <2> HIDE DEF v
  <2> QED
    BY <1>1, <1>2, TakeFirstTkFenced
<1> HIDE DEF s
<1>5. Fenced(n) /\ SameRunners(s, n)
  BY <1>2, <1>3, <1>4, RemoveFenced
<1> QED
  BY <1>2, <1>4, <1>5, SameRunnersTrans

\* Whoever is found in a list is not the background thread.
LEMMA ListedFenced ==
  ASSUME NEW m, Fenced(m), NEW l \in TickLists, NEW th, threadList_has(m, l, th)
  PROVE  th \in Threads \ {Background} /\ m.head[l] \in Threads
<1> DEFINE S == Threads \ {Background}
<1>1. m.head[l] \in Others /\ \A x \in Threads : TkLinks(m)[x] \in Others
  BY FencedTypes, TkLinksFenced DEF Lists
<1>2. \A x \in S : TkLinks(m)[x] \in S \cup {NULL}
  BY <1>1 DEF Others, Pointer
<1>3. m.head[l] \in S \cup {NULL}
  BY <1>1 DEF Others, Pointer
<1>4. Chain(TkLinks(m), m.head[l]) \subseteq S
  <2> HIDE DEF S
  <2>1. S \subseteq Threads
    BY DEF S
  <2> QED
    BY <1>2, <1>3, <2>1, ChainLeast
<1>5. m.head[l] # NULL
  BY DEF threadList_has, Chain
<1> QED
  BY <1>3, <1>4, <1>5 DEF threadList_has

LEMMA threadListRemoveFenced ==
  ASSUME NEW m, Fenced(m), NEW l \in TickLists, NEW th, threadList_has(m, l, th),
         NEW n, n = threadList_remove(m, l, th)
  PROVE  Fenced(n) /\ SameRunners(m, n)
<1> DEFINE next == TkLinks(m)
           i == LoopEnd(next, m.head[l], {j \in Threads : next[j] # th})
<1>1. th \in Threads /\ m.head[l] \in Threads /\ next[th] \in Others /\ l \in Lists
  BY ListedFenced, TkLinksFenced DEF Lists
<1>2. CASE m.head[l] = th
  <2> DEFINE v == next[th]
  <2>1. n = TakenTk(m, l, th, v) /\ v \in Others
    BY <1>1, <1>2 DEF threadList_remove, TakenTk
  <2> HIDE DEF v
  <2> QED
    BY <1>1, <2>1, TakeFirstTkFenced
<1>3. CASE m.head[l] # th
  <2> DEFINE s == LinkTk(m, i, next[th])
  <2>1. n = [s EXCEPT !.prevTk[th] = NULL]
    BY <1>3 DEF threadList_remove
  <2>2. i \in Threads
    BY <1>1, LoopEndThread
  <2> HIDE DEF i
  <2>3. Fenced(s) /\ SameRunners(m, s)
    BY <1>1, <2>2, LinkTkFenced
  <2> HIDE DEF s
  <2> QED
    BY <1>1, <2>1, <2>3, BackFenced, SameRunnersTrans
<1> QED
  BY <1>2, <1>3

-----------------------------------------------------------------------------
(* The scheduler, below the lists *)

LEMMA SameFenced ==
  ASSUME NEW m, Fenced(m), NEW n, Guarded(n), SameElsewhere(m, n)
  PROVE  Fenced(n)
BY DEF Fenced, SameElsewhere

LEMMA SameElsewhereTrans ==
  ASSUME NEW m, NEW q, NEW n, SameElsewhere(m, q), SameElsewhere(q, n)
  PROVE  SameElsewhere(m, n)
BY DEF SameElsewhere

LEMMA PutFenced ==
  ASSUME NEW m, Fenced(m), NEW th \in Threads \ {Background},
         NEW n, n = threadQueueArray_put(m, th)
  PROVE  Fenced(n) /\ SameElsewhere(m, n) /\ n.running = m.running
<1>1. Guarded(n) /\ SameElsewhere(m, n) /\ n.running = m.running
  BY PutGuarded, PutThread DEF Fenced, Guarded
<1> QED
  BY <1>1, SameFenced

LEMMA JumpFenced ==
  ASSUME NEW m, Fenced(m), m.running # Background, NEW n, n = jump(m)
  PROVE  Fenced(n) /\ SameElsewhere(m, n)
<1>1. Guarded(n) /\ SameElsewhere(m, n)
  BY JumpGuarded DEF Fenced, Guarded
<1> QED
  BY <1>1, SameFenced

LEMMA YieldFenced ==
  ASSUME NEW m, Fenced(m), NEW n, n = yieldISR(m)
  PROVE  Fenced(n) /\ SameElsewhere(m, n)
<1> DEFINE q == threadQueueArray_put(m, m.running)
<1>1. Guarded(m) /\ Steady(m) /\ m.running \in Threads /\ Guarded(n)
  BY YieldGuarded DEF Fenced, Guarded
<1>2. Steady(q) /\ Parked(q) /\ SameElsewhere(m, q)
  <2>1. CASE m.running = Background
    BY <1>1, <2>1, PutBackground DEF Guarded
  <2>2. CASE m.running # Background
    BY <1>1, <2>2, PutThread DEF Guarded, Parked
  <2> QED
    BY <2>1, <2>2
<1>3. n = jump(q)
  BY DEF yieldISR
<1> HIDE DEF q
<1>4. SameElsewhere(q, n)
  BY <1>2, <1>3, JumpGuarded
<1> QED
  BY <1>1, <1>2, <1>4, SameElsewhereTrans, SameFenced

LEMMA ResumeFenced ==
  ASSUME NEW m, Fenced(m), NEW th \in Threads \ {Background},
         NEW n, n = resume(m, th)
  PROVE  Fenced(n) /\ SameElsewhere(m, n)
<1> DEFINE q == threadQueueArray_put(m, th)
<1>1. Fenced(q) /\ SameElsewhere(m, q)
  BY PutFenced
<1>2. n = q \/ n = yieldISR(q)
  BY DEF resume
<1> HIDE DEF q
<1> QED
  BY <1>1, <1>2, YieldFenced, SameElsewhereTrans

-----------------------------------------------------------------------------
(* Loops.  The n-th value of a loop is the value of a recursive function. *)

\* What the first turn gives and every turn keeps holds after the last one.
LEMMA LoopKeeps ==
  ASSUME NEW T \in Nat, NEW I, NEW g, g[0] \in I,
         \A n \in 1 .. T : g[n - 1] \in I => g[n] \in I
  PROVE  \A n \in 0 .. T : g[n] \in I
<1> SUFFICES ASSUME NEW n \in 0 .. T, g[n] \notin I PROVE FALSE
  OBVIOUS
<1> DEFINE S == {i \in 0 .. T : g[i] \notin I}
<1>1. S \subseteq Nat /\ S # {}
  OBVIOUS
<1> HIDE DEF S
<1>2. PICK i \in S : \A j \in S : i <= j
  BY <1>1, LeastElement
<1>3. i \in 0 .. T /\ g[i] \notin I /\ i # 0 /\ i - 1 \in 0 .. T /\ i \in 1 .. T
  BY <1>2 DEF S
<1>4. i - 1 \notin S
  BY <1>2, <1>3
<1>5. g[i - 1] \in I
  BY <1>3, <1>4 DEF S
<1> QED
  BY <1>3, <1>5

\* A loop whose turn is a function has its recursive function.
IsLoop(g, T, x, f) == g = [n \in 0 .. T |-> IF n = 0 THEN x ELSE f[g[n - 1]]]

LEMMA LoopExists ==
  ASSUME NEW T \in Nat, NEW I, NEW f \in [I -> I], NEW x \in I
  PROVE  \E g : IsLoop(g, T, x, f)
<1> USE DEF IsLoop
<1> DEFINE Upto(N, g) == IsLoop(g, N, x, f)
           S == {N \in Nat : ~ \E g : Upto(N, g)}
<1>1. CASE S = {}
  BY <1>1
<1>2. CASE S # {}
  <2>1. S \subseteq Nat
    OBVIOUS
  <2>2. PICK N \in S : \A j \in S : N <= j
    BY <1>2, <2>1, LeastElement
  <2>3. N # 0
    <3>1. Upto(0, [n \in 0 .. 0 |-> x])
      OBVIOUS
    <3> QED
      BY <2>2, <3>1
  <2>4. N \in Nat /\ N - 1 \in Nat /\ N - 1 \notin S
    <3>1. N \in Nat
      BY <2>2
    <3> HIDE DEF S
    <3> QED
      BY <2>2, <2>3, <3>1
  <2>5. PICK g : Upto(N - 1, g)
    BY <2>4
  <2> DEFINE h == [n \in 0 .. N |-> IF n = N THEN f[g[N - 1]] ELSE g[n]]
  <2>6. \A n \in 0 .. N : h[n] = IF n = 0 THEN x ELSE f[h[n - 1]]
    <3> SUFFICES ASSUME NEW n \in 0 .. N
                 PROVE  h[n] = IF n = 0 THEN x ELSE f[h[n - 1]]
      OBVIOUS
    <3>1. CASE n = N
      BY <2>3, <2>4, <3>1
    <3>2. CASE n # N
      <4>1. n \in 0 .. N - 1 /\ h[n] = g[n]
        BY <2>4, <3>2
      <4>2. n # 0 => n - 1 \in 0 .. N /\ n - 1 # N
        BY <2>4, <3>2
      <4>3. g[n] = IF n = 0 THEN x ELSE f[g[n - 1]]
        BY <2>5, <4>1
      <4>4. n # 0 => h[n - 1] = g[n - 1]
        BY <4>2
      <4> HIDE DEF h
      <4> QED
        BY <4>1, <4>3, <4>4
    <3> QED
      BY <3>1, <3>2
  <2>7. Upto(N, h)
    BY <2>6
  <2> QED
    BY <2>2, <2>7
<1> QED
  BY <1>1, <1>2

\* All the threads of a list become ready, turn by turn.
PutTurn(q, l) ==
  IF q.head[l] = NULL THEN q ELSE threadQueueArray_put(priorList_get(q, l), q.head[l])

\* The values of a loop.
Turns(g, T, x, n) == T \in Nat /\ g[0] = x /\ g[T] = n

LEMMA PutTurnFenced ==
  ASSUME NEW q, Fenced(q), NEW l \in PriorLists, NEW n, n = PutTurn(q, l)
  PROVE  Fenced(n) /\ n.running = q.running /\ n.prior = q.prior /\ n.tick = q.tick
<1>1. CASE q.head[l] = NULL
  BY <1>1 DEF PutTurn
<1>2. CASE q.head[l] # NULL
  <2> DEFINE s == priorList_get(q, l)
             th == q.head[l]
  <2>1. Fenced(s) /\ SameRunners(q, s) /\ th \in Threads \ {Background}
    BY <1>2, priorListGetFenced
  <2>2. n = threadQueueArray_put(s, th)
    BY <1>2 DEF PutTurn
  <2> HIDE DEF s, th
  <2>3. Fenced(n) /\ SameElsewhere(s, n) /\ n.running = s.running
    BY <2>1, <2>2, PutFenced
  <2> QED
    BY <2>1, <2>3 DEF SameRunners, SameElsewhere
<1> QED
  BY <1>1, <1>2

LEMMA putListTurns ==
  ASSUME NEW m, Fenced(m), NEW l \in PriorLists,
         NEW n, n = threadQueueArray_putList(m, l),
         NEW T, T = 2 * Cardinality(Threads)
  PROVE  \E g : Turns(g, T, m, n) /\ \A i \in 1 .. T : g[i] = PutTurn(g[i - 1], l)
<1> DEFINE Loop(g) == g = [i \in 0 .. T |-> IF i = 0 THEN m ELSE PutTurn(g[i - 1], l)]
           after == CHOOSE g : Loop(g)
           I == {q \in Memory : Fenced(q)}
           f == [q \in I |-> PutTurn(q, l)]
<1>1. T \in Nat
  BY FS_CardinalityType, ListAssumption
<1>2. n = after[T]
  BY DEF threadQueueArray_putList, PutTurn
<1>3. m \in I
  BY FencedTypes
<1>4. f \in [I -> I] /\ \A q \in I : f[q] = PutTurn(q, l)
  <2>1. \A q \in I : PutTurn(q, l) \in I
    BY PutTurnFenced, FencedTypes
  <2> HIDE DEF I
  <2> QED
    BY <2>1
<1> HIDE DEF I, f
<1>5. PICK g : IsLoop(g, T, m, f)
  BY <1>1, <1>3, <1>4, LoopExists
<1>6. \A i \in 0 .. T : g[i] \in I
  <2>1. g[0] = m /\ \A i \in 1 .. T : g[i] = f[g[i - 1]]
    BY <1>1, <1>5 DEF IsLoop
  <2> QED
    BY <1>1, <1>3, <1>4, <2>1, LoopKeeps
<1>7. Loop(g)
  <2>1. \A i \in 0 .. T : i # 0 => f[g[i - 1]] = PutTurn(g[i - 1], l)
    BY <1>1, <1>4, <1>6
  <2> QED
    BY <1>5, <2>1 DEF IsLoop
<1>8. Loop(after)
  BY <1>7
<1> HIDE DEF after
<1>9. after[0] = m /\ \A i \in 1 .. T : after[i] = PutTurn(after[i - 1], l)
  BY <1>1, <1>8
<1> QED
  BY <1>1, <1>2, <1>9 DEF Turns

LEMMA putListFenced ==
  ASSUME NEW m, Fenced(m), NEW l \in PriorLists,
         NEW n, n = threadQueueArray_putList(m, l)
  PROVE  /\ Fenced(n) /\ n.running = m.running
         /\ n.prior = m.prior /\ n.tick = m.tick
<1> DEFINE T == 2 * Cardinality(Threads)
           I == {q \in Memory : /\ Fenced(q) /\ q.running = m.running
                                /\ q.prior = m.prior /\ q.tick = m.tick}
<1>1. PICK g : Turns(g, T, m, n) /\ \A i \in 1 .. T : g[i] = PutTurn(g[i - 1], l)
  BY putListTurns
<1>2. \A q \in I : PutTurn(q, l) \in I
  BY PutTurnFenced, FencedTypes
<1>3. g[0] \in I
  BY <1>1, FencedTypes DEF Turns
<1> HIDE DEF I, T
<1>4. \A i \in 0 .. T : g[i] \in I
  BY <1>1, <1>2, <1>3, LoopKeeps DEF Turns
<1>5. n \in I
  BY <1>1, <1>4 DEF Turns
<1> QED
  BY <1>5 DEF I

\* All the threads whose time has come become ready, turn by turn.
TickTurn(r, tm, tick) ==
  LET th == tickList_due(r.mem, tm, tick)
  IN  IF th = NULL THEN r
      ELSE [mem   |-> threadQueueArray_put(tickList_get(r.mem, tm, tick), th),
            yield |-> r.yield \/ preempts(r.mem, th)]

\* A turn writes a memory and a flag.
Advised(J) == [mem : J, yield : BOOLEAN]

LEMMA TickTurnFenced ==
  ASSUME NEW q, q \in Advised(Memory), Fenced(q.mem), NEW tm \in TickLists, NEW tick,
         NEW n, n = TickTurn(q, tm, tick)
  PROVE  /\ n \in Advised(Memory) /\ Fenced(n.mem) /\ n.mem.running = q.mem.running
         /\ n.mem.prior = q.mem.prior /\ n.mem.tick = q.mem.tick
<1> DEFINE th == tickList_due(q.mem, tm, tick)
<1>1. CASE th = NULL
  BY <1>1 DEF TickTurn
<1>2. CASE th # NULL
  <2> DEFINE s == tickList_get(q.mem, tm, tick)
             t == threadQueueArray_put(s, th)
             y == q.yield \/ preempts(q.mem, th)
  <2>1. y \in BOOLEAN
    BY DEF Advised
  <2>2. n = [mem |-> t, yield |-> y]
    BY <1>2 DEF TickTurn
  <2>3. Fenced(s) /\ SameRunners(q.mem, s) /\ th \in Threads \ {Background}
    BY <1>2, tickListGetFenced
  <2> HIDE DEF s, th
  <2>4. Fenced(t) /\ SameElsewhere(s, t) /\ t.running = s.running
    BY <2>3, PutFenced
  <2> HIDE DEF t, y
  <2>5. t \in Memory
    BY <2>4, FencedTypes
  <2> QED
    BY <2>1, <2>2, <2>3, <2>4, <2>5 DEF SameRunners, SameElsewhere, Advised
<1> QED
  BY <1>1, <1>2

LEMMA tickLoopTurns ==
  ASSUME NEW m, Fenced(m), NEW tm \in TickLists, NEW tick,
         NEW r, r = timer_tick_loop(m, tm, tick),
         NEW T, T = 2 * Cardinality(Threads)
  PROVE  \E g : /\ Turns(g, T, [mem |-> m, yield |-> FALSE], r)
                /\ \A i \in 1 .. T : g[i] = TickTurn(g[i - 1], tm, tick)
<1> DEFINE x == [mem |-> m, yield |-> FALSE]
           Loop(g) == g = [i \in 0 .. T |-> IF i = 0 THEN x ELSE TickTurn(g[i - 1], tm, tick)]
           after == CHOOSE g : Loop(g)
           I == {q \in Advised(Memory) : Fenced(q.mem)}
           f == [q \in I |-> TickTurn(q, tm, tick)]
<1>1. T \in Nat
  BY FS_CardinalityType, ListAssumption
<1>2. r = after[T]
  BY DEF timer_tick_loop, TickTurn
<1>3. x \in I
  BY FencedTypes DEF Advised
<1>4. f \in [I -> I] /\ \A q \in I : f[q] = TickTurn(q, tm, tick)
  <2>1. \A q \in I : TickTurn(q, tm, tick) \in I
    BY TickTurnFenced
  <2> HIDE DEF I
  <2> QED
    BY <2>1
<1> HIDE DEF I, f, x
<1>5. PICK g : IsLoop(g, T, x, f)
  BY <1>1, <1>3, <1>4, LoopExists
<1>6. \A i \in 0 .. T : g[i] \in I
  <2>1. g[0] = x /\ \A i \in 1 .. T : g[i] = f[g[i - 1]]
    BY <1>1, <1>5 DEF IsLoop
  <2> QED
    BY <1>1, <1>3, <1>4, <2>1, LoopKeeps
<1>7. Loop(g)
  <2>1. \A i \in 0 .. T : i # 0 => f[g[i - 1]] = TickTurn(g[i - 1], tm, tick)
    BY <1>1, <1>4, <1>6
  <2> QED
    BY <1>5, <2>1 DEF IsLoop
<1>8. Loop(after)
  BY <1>7
<1> HIDE DEF after
<1>9. after[0] = x /\ \A i \in 1 .. T : after[i] = TickTurn(after[i - 1], tm, tick)
  BY <1>1, <1>8
<1> QED
  BY <1>1, <1>2, <1>9 DEF Turns, x

LEMMA tickLoopFenced ==
  ASSUME NEW m, Fenced(m), NEW tm \in TickLists, NEW tick,
         NEW r, r = timer_tick_loop(m, tm, tick)
  PROVE  /\ Fenced(r.mem) /\ r.mem.running = m.running
         /\ r.mem.prior = m.prior /\ r.mem.tick = m.tick
<1> DEFINE T == 2 * Cardinality(Threads)
           I == {q \in Advised(Memory) :
                   /\ Fenced(q.mem) /\ q.mem.running = m.running
                   /\ q.mem.prior = m.prior /\ q.mem.tick = m.tick}
<1>1. PICK g : /\ Turns(g, T, [mem |-> m, yield |-> FALSE], r)
               /\ \A i \in 1 .. T : g[i] = TickTurn(g[i - 1], tm, tick)
  BY tickLoopTurns
<1>2. \A q \in I : TickTurn(q, tm, tick) \in I
  BY TickTurnFenced
<1>3. g[0] \in I
  BY <1>1, FencedTypes DEF Turns, Advised
<1> HIDE DEF I, T
<1>4. \A i \in 0 .. T : g[i] \in I
  BY <1>1, <1>2, <1>3, LoopKeeps DEF Turns
<1>5. r \in I
  BY <1>1, <1>4 DEF Turns
<1> QED
  BY <1>5 DEF I

-----------------------------------------------------------------------------
(* How the calls leave the background thread and the ticks *)

\* Where the background thread can be: it never waits.
Home == {"boot", "run", "user", "yield", "isr"}

\* The points of the kernel's calls are among those of a layer.
Timed(P) ==
  /\ TimerPoints \subseteq P
  /\ \A x \in P : x.at \in TimerLabels => x.tmp \in Times

\* A layer whose threads are at the points P: the lists do not reach the
\* background thread, and the ticks stand for the times of due.
Layer(P) ==
  /\ Fenced(k)
  /\ pc \in [Threads -> P]
  /\ pc[Background].at \in Home
  /\ now \in [TickLists -> 0 .. MaxTicks]
  /\ due \in [Threads -> Times]
  /\ \A t \in Threads : /\ k.tick[t] = due[t] % TickMod
                        /\ pc[t].at = "new" => due[t] = 0

\* A thread goes to a point of P, if any does.
Moved(P) ==
  \/ UNCHANGED pc
  \/ \E t \in Threads : \E p \in P :
       /\ pc' = [pc EXCEPT ![t] = p]
       /\ p.at # "new" /\ (t = Background => p.at \in Home)

LEMMA CalmLayer ==
  ASSUME NEW P, Layer(P), Fenced(k'), k'.tick = k.tick, Moved(P), UNCHANGED <<now, due>>
  PROVE  Layer(P)'
<1>1. /\ pc' \in [Threads -> P] /\ pc'[Background].at \in Home
      /\ \A t \in Threads : pc'[t].at = "new" => pc[t].at = "new"
  BY KernelAssumption DEF Moved, Layer
<1> QED
  BY <1>1 DEF Layer

LEMMA CallMoved ==
  ASSUME NEW P, KernelPoints \subseteq P, NEW t \in Threads,
         \/ Return(t) \/ Finish(t) \/ Leave(t, At("yield"))
         \/ \E m, th : ResumeAndReturn(t, m, th)
  PROVE  Moved(P)
<1>1. /\ At("user") \in P /\ At("user").at = "user"
      /\ At("yield") \in P /\ At("yield").at = "yield"
  BY PointsAreLabels
<1> QED
  BY <1>1 DEF Return, Finish, Leave, ResumeAndReturn, Moved, Home

LEMMA LeaveMoved ==
  ASSUME NEW P, NEW t \in Threads \ {Background}, NEW p \in P, p.at # "new", Leave(t, p)
  PROVE  Moved(P)
BY DEF Leave, Moved

LEMMA ResumeLayer ==
  ASSUME NEW P, KernelPoints \subseteq P, Layer(P), NEW t \in Threads,
         NEW m, Fenced(m), m.tick = k.tick, NEW th \in Threads \ {Background},
         ResumeAndReturn(t, m, th), UNCHANGED <<now, due>>
  PROVE  Layer(P)'
<1>1. Moved(P) /\ k' = resume(m, th)
  BY CallMoved DEF ResumeAndReturn
<1>2. Fenced(k') /\ k'.tick = k.tick
  BY <1>1, ResumeFenced DEF SameElsewhere
<1> QED
  BY <1>1, <1>2, CalmLayer

\* A client sets the tick of a thread to that of a time.
LEMMA setTickFenced ==
  ASSUME NEW m, Fenced(m), NEW t \in Threads, NEW time \in Int, NEW n, n = setTick(m, t, time)
  PROVE  /\ Fenced(n) /\ n.running = m.running /\ n.prior = m.prior
         /\ n.tick = [m.tick EXCEPT ![t] = time % TickMod]
<1> DEFINE tick == [m.tick EXCEPT ![t] = time % TickMod]
<1>1. m \in Memory /\ time % TickMod \in Ticks
  BY ListAssumption, FencedTypes DEF Ticks
<1>2. tick \in [Threads -> Ticks]
  BY <1>1 DEF Memory
<1>3. n = [m EXCEPT !.tick = tick]
  BY <1>1 DEF setTick, Memory
<1> HIDE DEF tick
<1>4. /\ n \in Memory /\ n.tick = tick
      /\ n.running = m.running /\ n.first = m.first /\ n.last = m.last
      /\ n.head = m.head /\ n.nextPr = m.nextPr /\ n.nextTk = m.nextTk
      /\ n.prior = m.prior
  BY <1>1, <1>2, <1>3 DEF Memory
<1> QED
  BY <1>4 DEF Fenced, Guarded, Steady, Vacant, Parked, tick

LEMMA initFenced ==
  ASSUME Fenced(k), NEW th \in Threads \ {Background},
         NEW n, n = thread_init(k, th, Prior[th])
  PROVE  Fenced(n) /\ n.tick = [k.tick EXCEPT ![th] = 0] /\ n.running = k.running
<1>1. Guarded(n)
  BY InitThreadGuarded DEF Fenced
<1>2. k \in Memory
  BY FencedTypes
<1>3. /\ n.tick = [k.tick EXCEPT ![th] = 0] /\ n.running = k.running
      /\ n.head = k.head /\ n.nextTk = [k.nextTk EXCEPT ![th] = NULL]
  BY <1>2 DEF thread_init, Memory
<1>4. NULL # Background /\ k.nextTk \in [Threads -> Pointer]
  BY <1>2, ListAssumption, KernelAssumption DEF Memory
<1> QED
  BY <1>1, <1>3, <1>4 DEF Fenced

LEMMA StartLayer ==
  ASSUME NEW P, KernelPoints \subseteq P, Layer(P), UNCHANGED <<now, due>>,
         \/ scheduler_run \/ scheduler_run_return
         \/ \E th \in Threads : scheduler_add(th)
  PROVE  Layer(P)'
<1>1. /\ At("user") \in P /\ At("user").at = "user"
      /\ At("run") \in P /\ At("run").at = "run" /\ Background \in Threads
  BY PointsAreLabels, KernelAssumption
<1>2. CASE scheduler_run
  <2>1. Fenced(k') /\ k'.tick = k.tick
    BY <1>2, YieldFenced DEF scheduler_run, Layer, SameElsewhere
  <2>2. Moved(P)
    BY <1>1, <1>2 DEF scheduler_run, Moved, Home
  <2> QED
    BY <2>1, <2>2, CalmLayer
<1>3. CASE scheduler_run_return
  BY <1>1, <1>3, CalmLayer DEF scheduler_run_return, Moved, Home, Layer
<1>4. ASSUME NEW th \in Threads, scheduler_add(th) PROVE Layer(P)'
  <2> DEFINE m == thread_init(k, th, Prior[th])
  <2>1. /\ th # Background /\ pc[th].at = "new"
        /\ pc' = [pc EXCEPT ![th] = At("user")]
        /\ k' = threadQueueArray_put(m, th)
    BY <1>4 DEF scheduler_add
  <2>2. Fenced(m) /\ m.tick = [k.tick EXCEPT ![th] = 0]
    BY <2>1, initFenced DEF Layer
  <2> HIDE DEF m
  <2>3. Fenced(k') /\ k'.tick = [k.tick EXCEPT ![th] = 0]
    BY <2>1, <2>2, PutFenced DEF SameElsewhere
  <2>4. k.tick \in [Threads -> Ticks] /\ 0 % TickMod = 0
    BY ListAssumption, FencedTypes DEF Layer, Memory
  <2>5. \A t \in Threads : k'.tick[t] = due[t] % TickMod
    BY <2>1, <2>3, <2>4 DEF Layer
  <2>6. /\ pc' \in [Threads -> P] /\ pc'[Background].at \in Home
        /\ \A t \in Threads : pc'[t].at = "new" => pc[t].at = "new"
    BY <1>1, <2>1 DEF Layer
  <2> QED
    BY <2>3, <2>5, <2>6 DEF Layer
<1> QED
  BY <1>2, <1>3, <1>4

LEMMA OpenLayer ==
  ASSUME NEW P, Layer(P), NEW t, NEW labels, checkIRQ(t, labels), UNCHANGED <<now, due>>
  PROVE  Layer(P)'
BY DEF checkIRQ, Layer

LEMMA TaskLayer ==
  ASSUME NEW P, KernelPoints \subseteq P, Layer(P), UNCHANGED <<now, due>>, NEW t \in Threads,
         \/ task_enterCritical(t) \/ task_exitCritical(t) \/ task_yield(t)
         \/ yield_return(t) \/ task_suspend(t) \/ suspend_return(t)
         \/ \E prior \in NewPriors : task_setPriority(t, prior)
         \/ \E th \in Threads : task_resume(t, th)
  PROVE  Layer(P)'
<1>1. CASE task_enterCritical(t) \/ task_exitCritical(t)
  BY <1>1 DEF task_enterCritical, task_exitCritical, Layer
<1>2. CASE yield_return(t) \/ suspend_return(t)
  BY <1>2, CalmLayer, CallMoved DEF yield_return, suspend_return, Layer
<1>3. CASE task_yield(t)
  <2>1. Fenced(k') /\ k'.tick = k.tick
    BY <1>3, YieldFenced DEF task_yield, Layer, SameElsewhere
  <2> QED
    BY <1>3, <2>1, CalmLayer, CallMoved DEF task_yield
<1>4. CASE task_suspend(t)
  <2>1. t \in Threads \ {Background} /\ k.running = t /\ Leave(t, At("suspend"))
    BY <1>4, KernelAssumption DEF task_suspend, User
  <2>2. Fenced(k') /\ k'.tick = k.tick
    BY <1>4, <2>1, JumpFenced DEF task_suspend, Layer, SameElsewhere
  <2>3. Moved(P)
    BY <2>1, LeaveMoved, PointsAreLabels
  <2> QED
    BY <2>2, <2>3, CalmLayer
<1>5. ASSUME NEW p \in NewPriors, task_setPriority(t, p) PROVE Layer(P)'
  <2>1. t \in Threads \ {Background} /\ k' = [k EXCEPT !.prior[t] = p] /\ Return(t)
    BY <1>5 DEF task_setPriority
  <2>2. k \in Memory
    BY FencedTypes DEF Layer
  <2>3. k'.tick = k.tick /\ k'.head = k.head /\ k'.nextTk = k.nextTk
    BY <2>1, <2>2 DEF Memory
  <2>4. Guarded(k')
    BY <2>1, SetPriorityGuarded DEF Layer, Fenced
  <2>5. Fenced(k')
    BY <2>3, <2>4 DEF Layer, Fenced
  <2> QED
    BY <2>1, <2>3, <2>5, CalmLayer, CallMoved
<1>6. ASSUME NEW th \in Threads, task_resume(t, th) PROVE Layer(P)'
  <2>1. th # Background
    BY <1>6 DEF task_resume, Suspended, Layer, Home
  <2> QED
    BY <1>6, <2>1, ResumeLayer DEF task_resume, Layer
<1> QED
  BY <1>1, <1>2, <1>3, <1>4, <1>5, <1>6

\* A yield at the end of an interrupt routine.
LEMMA YieldISRLayer ==
  ASSUME NEW P, Layer(P), k' = yieldISR(k), UNCHANGED <<pc, now, due>>
  PROVE  Layer(P)'
<1>1. Fenced(k') /\ k'.tick = k.tick
  BY YieldFenced DEF Layer, SameElsewhere
<1> QED
  BY <1>1, CalmLayer DEF Moved

LEMMA KernelLayer ==
  ASSUME NEW P, KernelPoints \subseteq P, Layer(P), KernelNext, UNCHANGED <<now, due>>
  PROVE  Layer(P)'
<1>1. ASSUME NEW t \in Threads, checkIRQ(t, {"run", "yield"}) PROVE Layer(P)'
  BY <1>1, OpenLayer
<1>2. ASSUME NEW t \in Threads, task_yieldISR(t) PROVE Layer(P)'
  BY <1>2, YieldISRLayer DEF task_yieldISR
<1> QED
  BY <1>1, <1>2, StartLayer, TaskLayer DEF KernelNext, KernelThread, KernelInterrupt

\* The first thread of a list is woken.
LEMMA FromPriorListLayer ==
  ASSUME NEW P, KernelPoints \subseteq P, Layer(P), UNCHANGED <<now, due>>,
         NEW t \in Threads, NEW l \in PriorLists,
         ResumeFromPriorList(t, l) \/ ResumeFromPriorListISR(t, l)
  PROVE  Layer(P)'
<1>1. CASE k.head[l] = NULL
  BY <1>1, CalmLayer, CallMoved DEF ResumeFromPriorList, ResumeFromPriorListISR, Layer
<1>2. CASE k.head[l] # NULL
  <2> DEFINE m == priorList_get(k, l)
             th == k.head[l]
  <2>1. Fenced(m) /\ m.tick = k.tick /\ th \in Threads \ {Background}
    BY <1>2, priorListGetFenced DEF Layer, SameRunners
  <2>2. \/ ResumeAndReturn(t, m, th)
        \/ k' = resume(m, th) /\ UNCHANGED pc
    BY <1>2 DEF ResumeFromPriorList, ResumeFromPriorListISR
  <2> HIDE DEF m, th
  <2>3. CASE ResumeAndReturn(t, m, th)
    BY <2>1, <2>3, ResumeLayer
  <2>4. CASE k' = resume(m, th) /\ UNCHANGED pc
    <3>1. Fenced(k') /\ k'.tick = k.tick
      BY <2>1, <2>4, ResumeFenced DEF SameElsewhere
    <3> QED
      BY <2>4, <3>1, CalmLayer DEF Moved
  <2> QED
    BY <2>2, <2>3, <2>4
<1> QED
  BY <1>1, <1>2

LEMMA resumeFullFenced ==
  ASSUME NEW m, Fenced(m), NEW l \in PriorLists, NEW n, n = resumeFullPriorList(m, l)
  PROVE  Fenced(n) /\ n.tick = m.tick
<1> DEFINE q == threadQueueArray_putList(m, l)
<1>1. Fenced(q) /\ q.tick = m.tick
  BY putListFenced
<1>2. n = q \/ n = yieldISR(q)
  BY DEF resumeFullPriorList
<1> HIDE DEF q
<1> QED
  BY <1>1, <1>2, YieldFenced DEF SameElsewhere

\* All the threads of a list are woken.
LEMMA FullPriorListLayer ==
  ASSUME NEW P, KernelPoints \subseteq P, Layer(P), UNCHANGED <<now, due>>,
         NEW t \in Threads, NEW l \in PriorLists,
         ResumeFullPriorList(t, l) \/ ResumeFullPriorListISR(t, l)
  PROVE  Layer(P)'
<1>1. k' = resumeFullPriorList(k, l)
  BY DEF ResumeFullPriorList, ResumeFullPriorListISR
<1>2. Fenced(k') /\ k'.tick = k.tick
  BY <1>1, resumeFullFenced DEF Layer
<1>3. Moved(P)
  <2>1. Leave(t, At("yield")) \/ Return(t) \/ UNCHANGED pc
    BY DEF ResumeFullPriorList, ResumeFullPriorListISR
  <2> QED
    BY <2>1, CallMoved DEF Moved
<1> QED
  BY <1>2, <1>3, CalmLayer

\* A thread waits in a list for another to wake it.
LEMMA waitFenced ==
  ASSUME NEW m, Fenced(m), NEW l \in PriorLists, m.running \in Threads \ {Background},
         NEW n, n = waitInPriorList(m, l)
  PROVE  Fenced(n) /\ n.tick = m.tick
<1> DEFINE q == priorList_put(m, l, m.running)
<1>1. Fenced(q) /\ SameRunners(m, q)
  BY priorListPutFenced
<1>2. n = jump(q)
  BY DEF waitInPriorList
<1> HIDE DEF q
<1> QED
  BY <1>1, <1>2, JumpFenced DEF SameRunners, SameElsewhere

LEMMA WaitLayer ==
  ASSUME NEW P, Layer(P), UNCHANGED <<now, due>>,
         NEW t \in Threads \ {Background}, k.running = t, NEW l \in PriorLists,
         k' = waitInPriorList(k, l), Moved(P)
  PROVE  Layer(P)'
<1>1. Fenced(k') /\ k'.tick = k.tick
  BY waitFenced DEF Layer
<1> QED
  BY <1>1, CalmLayer

LEMMA EventLayer ==
  ASSUME NEW P, EventPoints \subseteq P, Layer(P), EventNext, UNCHANGED <<now, due>>
  PROVE  Layer(P)'
<1>1. KernelPoints \subseteq P /\ Events \subseteq PriorLists /\ Broadcasts \subseteq Events
  BY EventAssumption DEF EventPoints
<1>2. CASE KernelNext
  BY <1>1, <1>2, KernelLayer
<1>3. ASSUME NEW t \in Threads, checkIRQ(t, {"event_wait"}) PROVE Layer(P)'
  BY <1>3, OpenLayer
<1>4. ASSUME NEW t \in Threads, event_wait_return(t) PROVE Layer(P)'
  BY <1>1, <1>4, CalmLayer, CallMoved DEF event_wait_return, Layer
<1>5. ASSUME NEW t \in Threads, NEW e \in Events, event_wait(t, e) PROVE Layer(P)'
  <2>1. /\ t \in Threads \ {Background} /\ k.running = t /\ e \in PriorLists
        /\ Leave(t, Inside("event_wait", e)) /\ k' = waitInPriorList(k, e)
    BY <1>1, <1>5, EventAssumption DEF event_wait, User
  <2>2. Inside("event_wait", e) \in P /\ Inside("event_wait", e).at # "new"
    BY DEF EventPoints, Inside
  <2>3. Moved(P)
    BY <2>1, <2>2, LeaveMoved
  <2> QED
    BY <2>1, <2>3, WaitLayer
<1>6. ASSUME NEW t \in Threads, NEW e \in Events,
             \/ event_notify(t, e) \/ event_notifyAll(t, e)
             \/ event_notifyISR(t, e) \/ event_notifyAllISR(t, e)
      PROVE  Layer(P)'
  BY <1>1, <1>6, FromPriorListLayer, FullPriorListLayer
     DEF event_notify, event_notifyAll, event_notifyISR, event_notifyAllISR
<1> QED
  BY <1>1, <1>2, <1>3, <1>4, <1>5, <1>6
     DEF EventNext, EventThread, EventInterrupt, KernelNext

-----------------------------------------------------------------------------
(* Timers *)

LEMMA TimesAreIntegers == Times \subseteq Int /\ 0 \in Times
BY TimerAssumption DEF Times

\* A thread waits for a timer, and maybe for something else as well.
LEMMA tickWaitFenced ==
  ASSUME NEW m, Fenced(m), NEW tm \in TickLists, m.running \in Threads \ {Background},
         NEW n, n = jump(tickList_put(m, tm, m.running))
  PROVE  Fenced(n) /\ n.tick = m.tick
<1> DEFINE q == tickList_put(m, tm, m.running)
<1>1. Fenced(q) /\ SameRunners(m, q)
  BY tickListPutFenced
<1> HIDE DEF q
<1>2. n = jump(q)
  BY DEF q
<1> QED
  BY <1>1, <1>2, JumpFenced DEF SameRunners, SameElsewhere

LEMMA BothListsLayer ==
  ASSUME NEW P, Layer(P), UNCHANGED <<now, due>>,
         NEW t \in Threads \ {Background}, k.running = t,
         NEW l \in PriorLists, NEW tm \in TickLists,
         k' = jump(tickList_put(priorList_put(k, l, t), tm, t)), Moved(P)
  PROVE  Layer(P)'
<1> DEFINE q == priorList_put(k, l, t)
<1>1. Fenced(q) /\ SameRunners(k, q)
  BY priorListPutFenced DEF Layer
<1> HIDE DEF q
<1>2. q.running = t /\ k' = jump(tickList_put(q, tm, t))
  BY <1>1 DEF SameRunners, q
<1>3. Fenced(k') /\ k'.tick = k.tick
  BY <1>1, <1>2, tickWaitFenced DEF SameRunners
<1> QED
  BY <1>3, CalmLayer

\* The clock parts of the invariant when a thread gets a time.
LEMMA DueLayer ==
  ASSUME NEW P, Layer(P), NEW t \in Threads, NEW time \in Times,
         Fenced(k'), k'.tick = [k.tick EXCEPT ![t] = time % TickMod],
         due' = [due EXCEPT ![t] = time], UNCHANGED now,
         Moved(P), pc'[t].at # "new"
  PROVE  Layer(P)'
<1>1. /\ pc' \in [Threads -> P] /\ pc'[Background].at \in Home
      /\ \A u \in Threads : pc'[u].at = "new" => pc[u].at = "new"
  BY KernelAssumption DEF Moved, Layer
<1>2. k.tick \in [Threads -> Ticks] /\ due' \in [Threads -> Times]
  BY FencedTypes DEF Layer, Memory
<1>3. \A u \in Threads : k'.tick[u] = due'[u] % TickMod
  BY <1>2 DEF Layer
<1>4. \A u \in Threads : pc'[u].at = "new" => due'[u] = 0
  BY <1>1 DEF Layer
<1> QED
  BY <1>1, <1>2, <1>3, <1>4 DEF Layer

LEMMA SetDueLayer ==
  ASSUME NEW P, KernelPoints \subseteq P, Layer(P), NEW t, NEW label, NEW time \in Times,
         SetDue(t, label, time)
  PROVE  Layer(P)'
<1>1. t \in Threads /\ Return(t) /\ k' = setTick(k, t, time) /\ pc[t].at = "user"
  BY TimerAssumption DEF SetDue, User
<1>2. Fenced(k') /\ k'.tick = [k.tick EXCEPT ![t] = time % TickMod]
  BY <1>1, setTickFenced, TimesAreIntegers DEF Layer
<1>3. Moved(P) /\ pc'[t].at # "new"
  BY <1>1, CallMoved DEF Return
<1> QED
  BY <1>1, <1>2, <1>3, DueLayer DEF SetDue

LEMMA WaitTimerLayer ==
  ASSUME NEW P, Timed(P), Layer(P), NEW t, NEW tm \in TickLists, NEW label, NEW time \in Times,
         WaitTimer(t, tm, label, time)
  PROVE  Layer(P)'
<1> DEFINE m == setTick(k, t, time)
           p == [at |-> label, on |-> tm, tmp |-> due[t]]
<1>1. /\ t \in Threads \ {Background} /\ k.running = t /\ label \in TimerLabels
      /\ k' = jump(tickList_put(m, tm, t)) /\ Leave(t, p)
  BY TimerAssumption DEF WaitTimer, User
<1>2. /\ Fenced(m) /\ m.running = t
      /\ m.tick = [k.tick EXCEPT ![t] = time % TickMod]
  BY <1>1, setTickFenced, TimesAreIntegers DEF Layer
<1> HIDE DEF m
<1>3. Fenced(k') /\ k'.tick = m.tick
  BY <1>1, <1>2, tickWaitFenced
<1>4. p \in P /\ p.at # "new" /\ due[t] \in Times
  BY <1>1 DEF Timed, TimerPoints, Layer, TimerLabels
<1> HIDE DEF p
<1>5. Moved(P) /\ pc'[t].at # "new"
  BY <1>1, <1>4, LeaveMoved DEF Leave, Layer
<1> QED
  BY <1>1, <1>2, <1>3, <1>5, DueLayer DEF WaitTimer

LEMMA TimerReturnLayer ==
  ASSUME NEW P, Timed(P), Layer(P), NEW t \in Threads, timer_return(t)
  PROVE  Layer(P)'
<1> DEFINE time == IF restores(pc[t].at) THEN pc[t].tmp ELSE due[t]
<1>1. /\ k' = setTick(k, t, time) /\ due' = [due EXCEPT ![t] = time]
      /\ Finish(t) /\ pc[t].at \in TimerLabels /\ UNCHANGED now
  BY DEF timer_return
<1>2. time \in Times
  BY <1>1 DEF Timed, Layer
<1> HIDE DEF time
<1>3. Fenced(k') /\ k'.tick = [k.tick EXCEPT ![t] = time % TickMod]
  BY <1>1, <1>2, setTickFenced, TimesAreIntegers DEF Layer
<1>4. KernelPoints \subseteq P
  BY DEF Timed, TimerPoints, EventPoints
<1>5. Moved(P) /\ pc'[t].at # "new"
  BY <1>1, <1>4, CallMoved, PointsAreLabels DEF Finish, Layer
<1> QED
  BY <1>1, <1>2, <1>3, <1>5, DueLayer

LEMMA AbortLayer ==
  ASSUME NEW P, KernelPoints \subseteq P, Layer(P), NEW t, NEW tm \in TickLists, NEW th,
         timer_abort(t, tm, th)
  PROVE  Layer(P)'
<1> DEFINE m == threadList_remove(k, tm, th)
<1>1. /\ t \in Threads /\ threadList_has(k, tm, th)
      /\ ResumeAndReturn(t, m, th) /\ UNCHANGED <<now, due>>
  BY FencedTypes DEF timer_abort, User, Layer
<1>2. Fenced(m) /\ m.tick = k.tick /\ th \in Threads \ {Background}
  BY <1>1, ListedFenced, threadListRemoveFenced DEF Layer, SameRunners
<1> HIDE DEF m
<1> QED
  BY <1>1, <1>2, ResumeLayer

LEMMA TickLayer ==
  ASSUME NEW P, Layer(P), NEW t, NEW tm \in TickLists, timer_tick(t, tm)
  PROVE  Layer(P)'
<1> DEFINE r == timer_tick_loop(k, tm, now'[tm] % TickMod)
<1>1. Fenced(r.mem) /\ r.mem.tick = k.tick
  BY tickLoopFenced DEF Layer
<1>2. k' = r.mem \/ k' = yieldISR(r.mem)
  BY DEF timer_tick
<1> HIDE DEF r
<1>3. Fenced(k') /\ k'.tick = k.tick
  BY <1>1, <1>2, YieldFenced DEF SameElsewhere
<1>4. now[tm] + 1 \in 0 .. MaxTicks
  BY TimerAssumption DEF timer_tick, Layer
<1>5. now' \in [TickLists -> 0 .. MaxTicks]
  BY <1>4 DEF timer_tick, Layer
<1> QED
  BY <1>3, <1>5 DEF timer_tick, Layer

LEMMA WindowIsTimes ==
  ASSUME NEW P, Layer(P), NEW tm \in TickLists
  PROVE  /\ now[tm] \in Times
         /\ \A time \in Int : InWindow(time, tm) => time \in Times
BY TimerAssumption DEF Layer, Times, InWindow

LEMMA TimerLayer ==
  ASSUME NEW P, Timed(P), Layer(P), TimerNext
  PROVE  Layer(P)'
<1>1. /\ EventPoints \subseteq P /\ KernelPoints \subseteq P
      /\ due \in [Threads -> Times] /\ Times \subseteq Int /\ Delays \subseteq Int
  BY TimesAreIntegers, TimerAssumption DEF Timed, TimerPoints, EventPoints, Layer
<1>2. CASE EventNext /\ UNCHANGED <<now, due>>
  BY <1>1, <1>2, EventLayer
<1>3. ASSUME NEW t \in Threads, checkIRQ(t, TimerLabels), UNCHANGED <<now, due>>
      PROVE  Layer(P)'
  BY <1>3, OpenLayer
<1>4. ASSUME NEW t \in Threads, NEW tm \in TickLists,
             timer_wait(t, tm) \/ task_updateTick(t, tm)
      PROVE  Layer(P)'
  BY <1>1, <1>4, WaitTimerLayer, SetDueLayer, WindowIsTimes DEF timer_wait, task_updateTick
<1>5. ASSUME NEW t \in Threads, NEW tm \in TickLists, NEW d \in Delays,
             \/ timer_shift(t, tm, d) \/ timer_period(t, tm, d) \/ timer_delay(t, tm, d)
             \/ task_setTimeout(t, tm, d) \/ task_increaseTimeout(t, tm, d)
      PROVE  Layer(P)'
  <2>1. /\ now[tm] \in Int /\ due[t] \in Int /\ d \in Int
        /\ now[tm] + d \in Int /\ due[t] + d \in Int
    <3>1. now[tm] \in Times /\ due[t] \in Times
      BY <1>1, WindowIsTimes
    <3>2. now[tm] \in Int /\ due[t] \in Int /\ d \in Int
      BY <1>1, <3>1
    <3> QED
      BY <3>2
  <2>2. InWindow(now[tm] + d, tm) => now[tm] + d \in Times
    BY <2>1, WindowIsTimes
  <2>3. InWindow(due[t] + d, tm) => due[t] + d \in Times
    BY <2>1, WindowIsTimes
  <2>4. CASE task_setTimeout(t, tm, d) \/ task_increaseTimeout(t, tm, d)
    BY <1>1, <2>2, <2>3, <2>4, SetDueLayer DEF task_setTimeout, task_increaseTimeout
  <2>5. ASSUME NEW label, NEW time, time = now[tm] + d \/ time = due[t] + d,
               WaitTimer(t, tm, label, time)
        PROVE  Layer(P)'
    BY <2>2, <2>3, <2>5, WaitTimerLayer DEF WaitTimer
  <2> QED
    BY <1>5, <2>4, <2>5 DEF timer_shift, timer_period, timer_delay
<1>6. ASSUME NEW t \in Threads, NEW e \in Events, NEW tm \in TickLists,
             eventTimer_wait(t, e, tm)
      PROVE  Layer(P)'
  <2> DEFINE p == [at |-> "eventTimer_wait", on |-> e, timer |-> tm]
  <2>1. /\ t \in Threads \ {Background} /\ k.running = t /\ e \in PriorLists
        /\ k' = jump(tickList_put(priorList_put(k, e, t), tm, t))
        /\ Leave(t, p) /\ UNCHANGED <<now, due>>
    BY <1>6, TimerAssumption, EventAssumption DEF eventTimer_wait, User
  <2>2. p \in P /\ p.at # "new"
    BY DEF Timed, TimerPoints
  <2> HIDE DEF p
  <2>3. Moved(P)
    BY <2>1, <2>2, LeaveMoved
  <2> QED
    BY <2>1, <2>3, BothListsLayer
<1>7. ASSUME NEW t \in Threads, eventTimer_return(t) PROVE Layer(P)'
  BY <1>1, <1>7, CalmLayer, CallMoved DEF eventTimer_return, Layer
<1> QED
  BY <1>1, <1>2, <1>3, <1>4, <1>5, <1>6, <1>7, TimerReturnLayer, AbortLayer, TickLayer
     DEF TimerNext, TimerThread, TimerInterrupt, EventNext

-----------------------------------------------------------------------------
(* The interrupt mask of the layers, whatever the lists do: a call counts a   *)
(* section of its own for as long as it has given up the processor, and who   *)
(* runs a thread's code again has counted it back.                            *)

Mask ==
  /\ critical \in [Threads -> Nat] /\ sr \in [Threads -> BOOLEAN]
  /\ pc = [t \in Threads |-> pc[t]]
  /\ \A t \in Threads : Masked(t)

LEMMA MaskIsInterruptMask == Mask => InterruptMask
BY DEF Mask, Masked, InterruptMask, User

LEMMA InitMask == KernelInit => Mask
<1> SUFFICES ASSUME KernelInit PROVE Mask
  OBVIOUS
<1>1. At("boot").at = "boot" /\ At("new").at = "new"
  BY DEF At
<1> QED BY <1>1 DEF KernelInit, Mask, Masked

LEMMA SameMask ==
  ASSUME Mask, UNCHANGED <<critical, sr, pc>>
  PROVE  Mask'
BY DEF Mask, Masked

LEMMA ReturnMask ==
  ASSUME Mask, NEW t \in Threads, pc[t].at = "user", Return(t)
  PROVE  Mask'
BY DEF Mask, Masked, Return

\* Wherever the call leaves its thread.
LEMMA LeaveMask ==
  ASSUME Mask, NEW t \in Threads, NEW p, Leave(t, p)
  PROVE  Mask'
<1>1. critical[t] + 1 \in Nat /\ critical[t] + 1 > 0
  BY DEF Mask
<1> QED BY <1>1 DEF Mask, Masked, Leave

LEMMA FinishMask ==
  ASSUME Mask, NEW t \in Threads, pc[t].at \notin {"new", "user"} \/ critical[t] > 0,
         Finish(t)
  PROVE  Mask'
<1>1. critical[t] \in Nat /\ critical[t] > 0
  BY DEF Mask, Masked
<1>2. critical[t] - 1 \in Nat /\ (critical[t] = 1 <=> critical[t] - 1 = 0)
  BY <1>1
<1>3. At("user").at = "user"
  BY DEF At
<1> QED BY <1>2, <1>3 DEF Mask, Masked, Finish

LEMMA ResumeMask ==
  ASSUME Mask, NEW t \in Threads, pc[t].at = "user", NEW m, NEW th,
         ResumeAndReturn(t, m, th)
  PROVE  Mask'
BY ReturnMask, LeaveMask DEF ResumeAndReturn

LEMMA OpenMask ==
  ASSUME Mask, NEW t \in Threads, NEW labels, "user" \notin labels, checkIRQ(t, labels)
  PROVE  Mask'
BY DEF Mask, Masked, checkIRQ

LEMMA StartMask ==
  ASSUME Mask,
         \/ scheduler_run \/ scheduler_run_return
         \/ \E th \in Threads : scheduler_add(th)
  PROVE  Mask'
<1>1. At("user").at = "user" /\ At("run").at = "run" /\ Background \in Threads
  BY KernelAssumption DEF At
<1>2. CASE scheduler_run
  BY <1>1, <1>2 DEF scheduler_run, Mask, Masked
<1>3. CASE scheduler_run_return
  BY <1>1, <1>3 DEF scheduler_run_return, Mask, Masked
<1>4. ASSUME NEW th \in Threads, scheduler_add(th) PROVE Mask'
  BY <1>1, <1>4 DEF scheduler_add, Mask, Masked
<1> QED BY <1>2, <1>3, <1>4

LEMMA TaskMask ==
  ASSUME Mask, NEW t \in Threads,
         \/ task_enterCritical(t) \/ task_exitCritical(t) \/ task_yield(t)
         \/ yield_return(t) \/ task_suspend(t) \/ suspend_return(t)
         \/ \E prior \in NewPriors : task_setPriority(t, prior)
         \/ \E th \in Threads : task_resume(t, th)
  PROVE  Mask'
<1>1. CASE task_enterCritical(t)
  BY <1>1 DEF task_enterCritical, Mask, Masked
<1>2. CASE task_exitCritical(t)
  <2>1. /\ critical[t] - 1 \in Nat /\ (critical[t] = 1 <=> critical[t] - 1 = 0)
        /\ pc[t].at = "user" /\ ~ sr[t]
    BY <1>2 DEF task_exitCritical, User, Mask, Masked
  <2> QED BY <1>2, <2>1 DEF task_exitCritical, Mask, Masked
<1>3. CASE yield_return(t) \/ suspend_return(t)
  BY <1>3, FinishMask DEF yield_return, suspend_return
<1> QED
  BY <1>1, <1>2, <1>3, LeaveMask, ReturnMask, ResumeMask
     DEF task_yield, task_suspend, task_setPriority, task_resume, User

LEMMA KernelMask == Mask /\ KernelNext => Mask'
<1> SUFFICES ASSUME Mask, KernelNext PROVE Mask'
  OBVIOUS
<1>1. ASSUME NEW t \in Threads, checkIRQ(t, {"run", "yield"}) PROVE Mask'
  BY <1>1, OpenMask
<1>2. ASSUME NEW t \in Threads, task_yieldISR(t) PROVE Mask'
  BY <1>2, SameMask DEF task_yieldISR
<1> QED
  BY <1>1, <1>2, StartMask, TaskMask DEF KernelNext, KernelThread, KernelInterrupt

LEMMA NotifyMask ==
  ASSUME Mask, NEW t \in Threads, NEW e, event_notify(t, e) \/ event_notifyAll(t, e)
  PROVE  Mask'
BY ReturnMask, LeaveMask, ResumeMask
   DEF event_notify, event_notifyAll, ResumeFromPriorList, ResumeFullPriorList, User

LEMMA EventMask == Mask /\ EventNext => Mask'
<1> SUFFICES ASSUME Mask, EventNext PROVE Mask'
  OBVIOUS
<1>1. CASE KernelNext
  BY <1>1, KernelMask
<1>2. ASSUME NEW t \in Threads,
             \/ checkIRQ(t, {"event_wait"}) \/ event_wait_return(t)
             \/ \E e \in Events : event_wait(t, e)
      PROVE  Mask'
  BY <1>2, OpenMask, FinishMask, LeaveMask DEF event_wait_return, event_wait
<1>3. ASSUME NEW t \in Threads, NEW e, event_notifyISR(t, e) \/ event_notifyAllISR(t, e)
      PROVE  Mask'
  BY <1>3, SameMask
     DEF event_notifyISR, event_notifyAllISR, ResumeFromPriorListISR, ResumeFullPriorListISR
<1> QED
  BY <1>1, <1>2, <1>3, NotifyMask DEF EventNext, EventThread, EventInterrupt, KernelNext

LEMMA TimedMask ==
  ASSUME Mask, NEW t \in Threads,
         \/ timer_return(t) \/ eventTimer_return(t)
         \/ \E label, tm, time : WaitTimer(t, tm, label, time)
         \/ \E label, time : SetDue(t, label, time)
         \/ \E e, tm : eventTimer_wait(t, e, tm)
         \/ \E tm, th : timer_abort(t, tm, th)
  PROVE  Mask'
<1>1. CASE timer_return(t) \/ eventTimer_return(t)
  BY <1>1, FinishMask DEF timer_return, eventTimer_return, TimerLabels
<1> QED
  BY <1>1, LeaveMask, ReturnMask, ResumeMask
     DEF WaitTimer, SetDue, eventTimer_wait, timer_abort, User

LEMMA TimerMask == Mask /\ TimerNext => Mask'
<1> SUFFICES ASSUME Mask, TimerNext PROVE Mask'
  OBVIOUS
<1>1. CASE EventNext
  BY <1>1, EventMask
<1>2. ASSUME NEW t \in Threads, checkIRQ(t, TimerLabels) PROVE Mask'
  BY <1>2, OpenMask DEF TimerLabels
<1>3. ASSUME NEW t \in Threads, NEW tm, timer_tick(t, tm) PROVE Mask'
  BY <1>3, SameMask DEF timer_tick
<1>4. ASSUME NEW t \in Threads, NEW tm \in TickLists,
             \/ timer_wait(t, tm) \/ task_updateTick(t, tm)
             \/ \E d \in Delays :
                  \/ timer_shift(t, tm, d) \/ timer_period(t, tm, d) \/ timer_delay(t, tm, d)
                  \/ task_setTimeout(t, tm, d) \/ task_increaseTimeout(t, tm, d)
      PROVE  Mask'
  BY <1>4, TimedMask
     DEF timer_wait, task_updateTick, timer_shift, timer_period, timer_delay,
         task_setTimeout, task_increaseTimeout
<1> QED
  BY <1>1, <1>2, <1>3, <1>4, TimedMask DEF TimerNext, TimerThread, TimerInterrupt, EventNext

-----------------------------------------------------------------------------
(* The invariant of the events and timers *)

LEMMA TimerPointsTimed == Timed(TimerPoints)
BY DEF Timed, TimerPoints, EventPoints, KernelPoints, At, Inside, TimerLabels

LEMMA InitFenced == KernelInit => Fenced(k)
<1> SUFFICES ASSUME KernelInit PROVE Fenced(k)
  OBVIOUS
<1>1. Guarded(k)
  BY InitIInv DEF IInv
<1>2. NULL # Background
  BY ListAssumption, KernelAssumption
<1> QED
  BY <1>1, <1>2 DEF KernelInit, Fenced

LEMMA InitLayer ==
  ASSUME NEW P, Timed(P), TimerInit
  PROVE  Layer(P)
<1>1. /\ At("boot") \in P /\ At("boot").at = "boot"
      /\ At("new") \in P /\ At("new").at = "new" /\ Background \in Threads
      /\ 0 % TickMod = 0 /\ 0 \in Times /\ 0 \in 0 .. MaxTicks
  BY PointsAreLabels, KernelAssumption, ListAssumption, TimerAssumption, TimesAreIntegers
     DEF Timed, TimerPoints, EventPoints
<1>2. Fenced(k)
  BY InitFenced DEF TimerInit
<1>3. \A t \in Threads : k.tick[t] = 0
  BY DEF TimerInit, KernelInit
<1>4. pc \in [Threads -> P] /\ pc[Background].at \in Home
  BY <1>1 DEF TimerInit, KernelInit, Home
<1> QED
  BY <1>1, <1>2, <1>3, <1>4 DEF TimerInit, Layer

LEMMA LayerTypes ==
  ASSUME NEW P, Layer(P), Mask
  PROVE  /\ KernelTypes /\ pc \in [Threads -> P] /\ NeverJumpsToNull
         /\ now \in [TickLists -> 0 .. MaxTicks] /\ due \in [Threads -> Times]
         /\ \A t \in Threads : k.tick[t] = due[t] % TickMod
<1>1. k \in Memory /\ k.running \in Threads
  BY FencedTypes DEF Layer
<1> QED
  BY <1>1, ListAssumption DEF Layer, Mask, KernelTypes, NeverJumpsToNull

LEMMA TimerInvariant == TimerSpec => [](Layer(TimerPoints) /\ Mask)
<1>1. TimerInit => Layer(TimerPoints) /\ Mask
  BY InitLayer, TimerPointsTimed, InitMask DEF TimerInit
<1>2. Layer(TimerPoints) /\ Mask /\ [TimerNext]_timerVars => (Layer(TimerPoints) /\ Mask)'
  <2> SUFFICES ASSUME Layer(TimerPoints), Mask, [TimerNext]_timerVars
               PROVE  Layer(TimerPoints)' /\ Mask'
    OBVIOUS
  <2>1. CASE TimerNext
    BY <2>1, TimerLayer, TimerMask, TimerPointsTimed
  <2>2. CASE UNCHANGED timerVars
    BY <2>2, SameMask DEF timerVars, Layer
  <2> QED
    BY <2>1, <2>2
<1> QED
  BY <1>1, <1>2, PTL DEF TimerSpec

\* Whatever order events, ticks, timed waits and aborts come in: every pointer and
\* back pointer has its type, and the 16 bit tick of a thread is the residue of
\* the time it stands for (anyRTOS.c:175-202, 349-419, 482-504).
THEOREM TimerTypesCorrect == TimerSpec => []TimerTypeOK
<1>1. Layer(TimerPoints) /\ Mask => TimerTypeOK
  BY LayerTypes DEF TimerTypeOK
<1> QED
  BY <1>1, TimerInvariant, PTL

\* The background thread is never put in a list of an event or a timer, so that
\* somebody is left to run whoever waits (anyRTOS.c:66-69).
THEOREM SomebodyRunsUnderTimers == TimerSpec => []NeverJumpsToNull
<1>1. Layer(TimerPoints) /\ Mask => NeverJumpsToNull
  BY LayerTypes
<1> QED
  BY <1>1, TimerInvariant, PTL

=============================================================================
