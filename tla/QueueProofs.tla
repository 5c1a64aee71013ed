------------------------------ MODULE QueueProofs ------------------------------
(***************************************************************************)
(* Proofs about the byte queues, for every number of queues, of any sizes: *)
(* the ring keeps its indices and its order, and the mutexes of the queues *)
(* exclude as long as each call leaves the mutex it entered.  Sleeping     *)
(* within the mutex does not matter: what a thread holds in the middle of  *)
(* a call is told by its call, not by who runs.                            *)
(***************************************************************************)
EXTENDS QueueRefinement, MutexProofs, SequenceTheorems

\* The members of a queue's ring.
Ring(q, V) == [data : [0 .. Size[q] - 1 -> V], first : Int, last : Int, qty : Int]

IsRing(q, r) == \E V : r \in Ring(q, V)

-----------------------------------------------------------------------------
(* The ring *)

\* A byte that is put comes last, and those before it stay where they are, for
\* rings that wrap around as well (queue.c:26-38).
THEOREM PutAppends ==
  ASSUME NEW q \in Queues, NEW byte, NEW n \in Nat \ {0},
         Sound(q, ring[q]), IsRing(q, ring[q]), ~ isFull(q)
  PROVE  LET r == put(q, byte) IN
         /\ Sound(q, r) /\ r.qty = ring[q].qty + 1
         /\ n <= ring[q].qty => nth(q, r, n) = nth(q, ring[q], n)
         /\ nth(q, r, r.qty) = byte
<1> DEFINE r == ring[q]
           s == Size[q]
           w == put(q, byte)
<1>1. s \in Nat \ {0}
  BY QueueAssumption
<1>2. /\ r.qty \in 0 .. s - 1 /\ r.first \in 0 .. s - 1
      /\ r.last \in 0 .. s - 1
      /\ r.last = IF r.first + r.qty >= s THEN r.first + r.qty - s ELSE r.first + r.qty
  BY <1>1 DEF Sound, isFull, wrapped
<1>3. PICK V : r.data \in [0 .. s - 1 -> V]
  BY DEF IsRing, Ring
<1>4. /\ w.data = [r.data EXCEPT ![r.last] = byte]
      /\ w.first = r.first /\ w.last = following(q, r.last) /\ w.qty = r.qty + 1
  BY DEF put, IsRing, Ring
<1> HIDE DEF w
<1>5. Sound(q, w)
  BY <1>1, <1>2, <1>4 DEF Sound, wrapped, following
<1>6. nth(q, w, w.qty) = byte
  <2>1. wrapped(q, w.first + w.qty - 1) = r.last
    BY <1>1, <1>2, <1>4 DEF wrapped
  <2> QED BY <1>2, <1>3, <1>4, <2>1 DEF nth
<1>7. ASSUME n <= r.qty
      PROVE  nth(q, w, n) = nth(q, r, n)
  <2>1. /\ wrapped(q, r.first + n - 1) # r.last
        /\ wrapped(q, r.first + n - 1) \in 0 .. s - 1
    BY <1>1, <1>2, <1>7 DEF wrapped
  <2> QED BY <1>2, <1>3, <1>4, <2>1 DEF nth
<1> QED BY <1>4, <1>5, <1>6, <1>7 DEF w

\* The byte that is got was the first, and the one behind it is the first now
\* (queue.c:41-53).
THEOREM GetTakesFirst ==
  ASSUME NEW q \in Queues, NEW n \in Nat \ {0},
         Sound(q, ring[q]), IsRing(q, ring[q]), ~ isEmpty(q)
  PROVE  LET r == get(q) IN
         /\ Sound(q, r) /\ r.qty = ring[q].qty - 1
         /\ front(q) = nth(q, ring[q], 1)
         /\ n <= r.qty => nth(q, r, n) = nth(q, ring[q], n + 1)
<1> DEFINE r == ring[q]
           s == Size[q]
           w == get(q)
<1>1. s \in Nat \ {0}
  BY QueueAssumption
<1>2. /\ r.qty \in 1 .. s /\ r.first \in 0 .. s - 1
      /\ r.last = IF r.first + r.qty >= s THEN r.first + r.qty - s ELSE r.first + r.qty
  BY <1>1 DEF Sound, isEmpty, wrapped
<1>3. /\ w.data = r.data /\ w.first = following(q, r.first)
      /\ w.last = r.last /\ w.qty = r.qty - 1
  BY DEF get, IsRing, Ring
<1> HIDE DEF w
<1>4. Sound(q, w)
  BY <1>1, <1>2, <1>3 DEF Sound, wrapped, following
<1>5. wrapped(q, r.first + 1 - 1) = r.first
  BY <1>1, <1>2 DEF wrapped
<1>6. ASSUME n <= w.qty
      PROVE  wrapped(q, w.first + n - 1) = wrapped(q, r.first + (n + 1) - 1)
  BY <1>1, <1>2, <1>3, <1>6 DEF wrapped, following
<1> QED BY <1>3, <1>4, <1>5, <1>6 DEF nth, front, w

\* The rings are rings, with sound indices.
Rings ==
  /\ ring = [q \in Queues |-> ring[q]]
  /\ \A q \in Queues : IsRing(q, ring[q])
  /\ RingsSound

LEMMA InitRings == QueueInit => Rings
<1> SUFFICES ASSUME QueueInit PROVE Rings
  OBVIOUS
<1>1. ring = [q \in Queues |-> queue_init(q)]
  BY DEF QueueInit
<1>2. ASSUME NEW q \in Queues
      PROVE  IsRing(q, queue_init(q)) /\ Sound(q, queue_init(q))
  <2>1. Size[q] \in Nat \ {0}
    BY QueueAssumption
  <2>2. queue_init(q).data \in [0 .. Size[q] - 1 -> {NULL}]
    BY DEF queue_init
  <2>3. queue_init(q) \in Ring(q, {NULL})
    BY <2>2 DEF Ring, queue_init
  <2> QED BY <2>1, <2>3 DEF IsRing, Sound, queue_init, wrapped
<1> QED BY <1>1, <1>2 DEF Rings, RingsSound

\* A byte that is put or got leaves a ring.
LEMMA StaysRing ==
  ASSUME NEW q \in Queues, NEW byte, IsRing(q, ring[q]), Sound(q, ring[q])
  PROVE  IsRing(q, put(q, byte)) /\ IsRing(q, get(q))
<1> DEFINE r == ring[q]
<1>1. PICK V : r \in Ring(q, V)
  BY DEF IsRing
<1>2. /\ following(q, r.first) \in Int /\ following(q, r.last) \in Int
      /\ r.qty + 1 \in Int /\ r.qty - 1 \in Int
  BY <1>1, QueueAssumption DEF Ring, following
<1>3. [r EXCEPT !.first = following(q, r.first), !.qty = r.qty - 1] \in Ring(q, V)
  BY <1>1, <1>2 DEF Ring
<1>4. IsRing(q, get(q))
  BY <1>3 DEF get, IsRing
<1>5. r \in Ring(q, V \cup {byte})
  BY <1>1 DEF Ring
<1>6. [r.data EXCEPT ![r.last] = byte] \in [0 .. Size[q] - 1 -> V \cup {byte}]
  BY <1>1 DEF Ring
<1> DEFINE data == [r.data EXCEPT ![r.last] = byte]
           last == following(q, r.last)
           qty  == r.qty + 1
<1> HIDE DEF data, last, qty
<1>7. [r EXCEPT !.data = data, !.last = last, !.qty = qty] \in Ring(q, V \cup {byte})
  BY <1>2, <1>5, <1>6 DEF Ring, data, last, qty
<1>8. IsRing(q, put(q, byte))
  BY <1>7 DEF put, IsRing, data, last, qty
<1> QED BY <1>4, <1>8

\* The ring a byte is put in or got from.
LEMMA TouchRings ==
  ASSUME Rings, NEW q \in Queues, NEW byte, NEW new,
         \/ ~ isFull(q) /\ new = put(q, byte)
         \/ ~ isEmpty(q) /\ new = get(q),
         ring' = [ring EXCEPT ![q] = new]
  PROVE  Rings'
<1>1. IsRing(q, ring[q]) /\ Sound(q, ring[q]) /\ 1 \in Nat \ {0}
  BY DEF Rings, RingsSound
<1>2. IsRing(q, new)
  BY <1>1, StaysRing
<1>3. Sound(q, new)
  BY <1>1, PutAppends, GetTakesFirst
<1>4. ASSUME NEW r \in Queues
      PROVE  IsRing(r, ring'[r]) /\ Sound(r, ring'[r])
  <2>1. ring'[r] = IF r = q THEN new ELSE ring[r]
    BY DEF Rings
  <2> QED BY <1>2, <1>3, <2>1 DEF Rings, RingsSound
<1>5. ring' = [r \in Queues |-> ring'[r]]
  BY DEF Rings
<1> QED BY <1>4, <1>5 DEF Rings, RingsSound, Sound, IsRing, wrapped

LEMMA MoveRings ==
  ASSUME Rings, NEW t \in Threads, queue_move(t)
  PROVE  Rings'
<1> DEFINE c == job[t].call
           new == IF c.puts THEN put(c.q, nextByte(t)) ELSE get(c.q)
<1>1. ring' = [ring EXCEPT ![c.q] = new] /\ ~ stuck(c)
  BY DEF queue_move
<1>2. CASE c.q \in Queues
  BY <1>1, <1>2, TouchRings DEF stuck
<1>3. CASE c.q \notin Queues
  <2>1. ring' = ring
    BY <1>1, <1>3 DEF Rings
  <2> QED BY <2>1 DEF Rings, RingsSound, Sound, IsRing, wrapped
<1> QED
  BY <1>2, <1>3

\* Nothing but a byte that is moved changes a ring.
LEMMA RingMoves == [QueueNext]_queueVars => UNCHANGED ring \/ \E t \in Threads : queue_move(t)
BY DEF QueueNext, queueVars, InCall, timed_entry, queue_wait, timed_wait, queue_leave,
       queue_enter, tick, interrupt, rest, setTimeout

LEMMA NextRings == Rings /\ [QueueNext]_queueVars => Rings'
<1>1. Rings /\ UNCHANGED ring => Rings'
  BY DEF Rings, RingsSound, Sound, IsRing, wrapped
<1> QED
  BY <1>1, RingMoves, MoveRings

\* A queue never holds more than its size nor less than nothing, and its indices
\* stay in the memory it was given, whoever calls what and waits where
\* (queue.c:26-53).
THEOREM IndicesSound == QueueSpec => []RingsSound
<1>1. QueueSpec => []Rings
  BY InitRings, NextRings, PTL DEF QueueSpec
<1>2. Rings => RingsSound
  BY DEF Rings
<1> QED BY <1>1, <1>2, PTL

-----------------------------------------------------------------------------
(* The mutexes of the queues *)

\* Every call leaves the mutex of its own side.
LeavesItsSide == \A t \in Threads : \A c \in Calls[t] : c.exit = side(c)

\* A thread in a call is inside the mutex of its side, or on the way into it.
Entering(t) ==
  /\ pc[t].at \in {"mutex_enterCritical", "mutexTimer_enterCritical"}
  /\ pc[t].on = side(job[t].call)

HeldBy(t) ==
  job[t].at # "idle" =>
    /\ job[t].call.exit = side(job[t].call)
    /\ side(job[t].call) \in inside[t] \/ Entering(t)

Held ==
  /\ Owned
  /\ pc = [t \in Threads |-> pc[t]] /\ job = [t \in Threads |-> job[t]]
  /\ \A t \in Threads : HeldBy(t)

\* What a step of t does to the others.
OnlyOf(t) ==
  /\ pc' = [u \in Threads |-> pc'[u]] /\ job' = [u \in Threads |-> job'[u]]
  /\ \A u \in Threads \ {t} :
       pc'[u] = pc[u] /\ job'[u] = job[u] /\ inside'[u] = inside[u]

LEMMA StepHeld ==
  ASSUME Held, NEW t \in Threads, Owned', OnlyOf(t), HeldBy(t)'
  PROVE  Held'
<1>1. ASSUME NEW u \in Threads \ {t}
      PROVE  HeldBy(u)'
  BY <1>1 DEF Held, OnlyOf, HeldBy, Entering, side
<1> QED BY <1>1 DEF Held, OnlyOf

\* What a kernel call of t does to pc.
Moves(t) == \E p : pc' = [pc EXCEPT ![t] = p]

LEMMA CallMoves ==
  ASSUME Held, NEW t \in Threads, NEW p,
         Leave(t, p) \/ Return(t) \/ Finish(t) \/ Entered(t) \/ UNCHANGED pc
  PROVE  Moves(t)
<1>1. pc = [pc EXCEPT ![t] = pc[t]]
  BY DEF Held
<1> QED BY <1>1 DEF Leave, Return, Finish, Entered, Moves

LEMMA InitHeld == QueueInit => Held
BY InitOwned DEF QueueInit, MutexInit, TimerInit, KernelInit, Held, HeldBy, Idle

\* The steps that enter or leave no mutex, by a thread that is not entering one.
LEMMA QuietHeld ==
  ASSUME Held, NEW t \in Threads, Moves(t), UNCHANGED <<busy, inside>>,
         \/ UNCHANGED job
         \/ \E j : job' = [job EXCEPT ![t] = j] /\ j.call = job[t].call /\ job[t].at # "idle",
         pc[t].at \notin {"mutex_enterCritical", "mutexTimer_enterCritical"}
  PROVE  Held'
<1>1. Owned'
  BY DEF Held, Owned, OwnerInside
<1>2. OnlyOf(t)
  BY DEF Held, OnlyOf, Moves
<1>3. HeldBy(t)'
  <2>1. job[t].at # "idle" =>
          job[t].call.exit = side(job[t].call) /\ side(job[t].call) \in inside[t]
    BY DEF Held, HeldBy, Entering
  <2>2. job'[t].at # "idle" => job[t].at # "idle" /\ job'[t].call = job[t].call
    BY DEF Held
  <2> QED BY <2>1, <2>2 DEF HeldBy, side
<1> QED BY <1>1, <1>2, <1>3, StepHeld

LEMMA SameHeld ==
  ASSUME Held, UNCHANGED <<pc, busy, inside, job>>
  PROVE  Held'
BY DEF Held, HeldBy, Entering, side, Owned, OwnerInside

\* A thread that waited for the mutex of its side gets it, or waits again.
LEMMA RetryHeld ==
  ASSUME Held, NEW t \in Threads, mutex_enter_retry(t), UNCHANGED job
  PROVE  Held'
<1>1. CASE UNCHANGED <<pc, busy, inside>>
  BY <1>1, SameHeld
<1>2. CASE busy[pc[t].on] = NULL /\ Take(t, pc[t].on) /\ Entered(t)
  <2>1. Owned'
    BY <1>2, TakeOwned DEF Held
  <2>2. Moves(t)
    BY <1>2, CallMoves
  <2>3. OnlyOf(t)
    BY <1>2, <2>2 DEF Held, Owned, OnlyOf, Moves, Take
  <2>4. HeldBy(t)'
    BY <1>2 DEF Held, Owned, HeldBy, Entering, Take, side
  <2> QED BY <2>1, <2>3, <2>4, StepHeld
<1> QED BY <1>1, <1>2 DEF mutex_enter_retry

LEMMA ReturnsHeld ==
  ASSUME Held, NEW t \in Threads, Returns(t), UNCHANGED job
  PROVE  Held'
<1>1. CASE mutex_enter_retry(t)
  BY <1>1, RetryHeld
<1>2. CASE UNCHANGED pc /\ UNCHANGED <<busy, inside>>
  BY <1>2, SameHeld
<1>3. CASE Finish(t) /\ pc[t].at \in {"yield", "event_wait"} \cup TimerLabels
             /\ UNCHANGED <<busy, inside>>
  <2>1. Moves(t)
    BY <1>3, CallMoves
  <2> QED BY <1>3, <2>1, QuietHeld DEF TimerLabels
<1> QED
  BY <1>1, <1>2, <1>3
     DEF Returns, checkIRQ, yield_return, event_wait_return, timer_return, aboveKernel, timeOnly

\* The timed entry fails and the call is over, or it is inside.
LEMMA TimedEntryHeld ==
  ASSUME Held, NEW t \in Threads, timed_entry(t)
  PROVE  Held'
<1>1. /\ job' = [job EXCEPT ![t] = IF TimedEntry(t) THEN job[t] ELSE Idle]
      /\ mutexTimer_return(t)
  BY DEF timed_entry
<1>2. CASE TimedEntry(t) /\ Take(t, pc[t].on) /\ Entered(t)
  <2>1. Owned'
    BY <1>2, TakeOwned DEF Held, TimedEntry
  <2>2. Moves(t)
    BY <1>2, CallMoves
  <2>3. OnlyOf(t)
    BY <1>1, <1>2, <2>2 DEF Held, Owned, OnlyOf, Moves, Take
  <2>4. HeldBy(t)'
    BY <1>1, <1>2 DEF Held, Owned, HeldBy, Entering, Take, side
  <2> QED BY <2>1, <2>3, <2>4, StepHeld
<1>3. CASE ~ TimedEntry(t) /\ Finish(t) /\ UNCHANGED <<busy, inside>>
  <2>1. Owned'
    BY <1>3 DEF Held, Owned, OwnerInside
  <2>2. Moves(t)
    BY <1>3, CallMoves
  <2>3. OnlyOf(t)
    BY <1>1, <1>3, <2>2 DEF Held, OnlyOf, Moves
  <2>4. HeldBy(t)'
    BY <1>1, <1>3 DEF Held, HeldBy, Idle
  <2> QED BY <2>1, <2>3, <2>4, StepHeld
<1> QED BY <1>1, <1>2, <1>3 DEF mutexTimer_return

\* What a thread does between its bytes is no matter to the mutexes.
LEMMA MoveHeld ==
  ASSUME Held, NEW t \in Threads, queue_wait(t) \/ timed_wait(t) \/ queue_move(t)
  PROVE  Held'
<1>1. CASE queue_wait(t)
  <2>1. Moves(t)
    BY <1>1, CallMoves DEF queue_wait, eventTimer_wait, event_wait
  <2> QED
    BY <1>1, <2>1, QuietHeld
       DEF queue_wait, timeOnly, Doing, User
<1>2. CASE timed_wait(t)
  <2>1. Moves(t)
    BY <1>2, CallMoves DEF timed_wait, eventTimer_return
  <2>2. PICK s : job' = [job EXCEPT ![t].at = s]
    BY <1>2 DEF timed_wait
  <2>3. [job[t] EXCEPT !.at = s].call = job[t].call
    OBVIOUS
  <2> QED
    BY <1>2, <2>1, <2>2, <2>3, QuietHeld
       DEF timed_wait, eventTimer_return, timeOnly
<1>3. CASE queue_move(t)
  <2>1. Moves(t)
    BY <1>3, CallMoves
       DEF queue_move, event_notify, ResumeFromPriorList, ResumeAndReturn, kernelVars
  <2>2. PICK d, s : job' = [job EXCEPT ![t].done = d, ![t].at = s]
    BY <1>3 DEF queue_move
  <2> DEFINE j == [[job[t] EXCEPT !.done = d] EXCEPT !.at = s]
           first == [job[t] EXCEPT !.done = d]
           half == [job EXCEPT ![t] = first]
  <2>3. j.call = job[t].call
    OBVIOUS
  <2>4. job' = [half EXCEPT ![t] = [half[t] EXCEPT !.at = s]]
    BY <2>2
  <2> HIDE DEF first
  <2>5. half[t] = first
    BY DEF Held
  <2>6. job' = [job EXCEPT ![t] = [first EXCEPT !.at = s]]
    BY <2>4, <2>5 DEF Held
  <2>7. job' = [job EXCEPT ![t] = j]
    BY <2>6 DEF first
  <2> HIDE DEF j
  <2> QED
    BY <1>3, <2>1, <2>3, <2>7, QuietHeld
       DEF queue_move, aboveKernel, Doing, User
<1> QED BY <1>1, <1>2, <1>3

LEMMA LeaveHeld ==
  ASSUME Held, NEW t \in Threads, queue_leave(t)
  PROVE  Held'
<1> DEFINE m == job[t].call.exit
<1>1. m \in inside[t] /\ Release(t, m)
  BY DEF Held, HeldBy, Entering, queue_leave, mutex_exitCritical, Doing, User
<1>2. Owned'
  BY <1>1, ReleaseOwned DEF Held
<1>3. Moves(t)
  BY CallMoves DEF queue_leave, mutex_exitCritical, Moves
<1>4. OnlyOf(t)
  BY <1>1, <1>3 DEF Held, Owned, OnlyOf, Moves, Release, queue_leave
<1>5. HeldBy(t)'
  BY DEF Held, HeldBy, queue_leave, Idle
<1> QED BY <1>2, <1>4, <1>5, StepHeld

LEMMA EnterHeld ==
  ASSUME Held, LeavesItsSide, NEW t \in Threads, NEW c \in Calls[t], queue_enter(t, c)
  PROVE  Held'
<1> DEFINE j == [at |-> "moving", call |-> c, done |-> 0]
<1>1. job' = [job EXCEPT ![t] = j] /\ c.exit = side(c)
  BY DEF queue_enter, LeavesItsSide
<1>2. ASSUME NEW label, mutex_enter_free(t, side(c), label)
      PROVE  Held'
  <2>1. Owned' /\ Take(t, side(c))
    BY <1>2, TakeOwned DEF Held, mutex_enter_free
  <2>2. Moves(t)
    BY <1>2, CallMoves DEF mutex_enter_free
  <2>3. OnlyOf(t)
    BY <1>1, <2>1, <2>2 DEF Held, Owned, OnlyOf, Moves, Take
  <2>4. side(c) \in inside'[t]
    BY <2>1 DEF Held, Owned, Take
  <2>5. HeldBy(t)'
    BY <1>1, <2>4 DEF Held, HeldBy, side
  <2> QED BY <2>1, <2>3, <2>5, StepHeld
<1>3. ASSUME NEW p, Leave(t, p), UNCHANGED <<busy, inside>>, p.on = side(c),
             p.at \in {"mutex_enterCritical", "mutexTimer_enterCritical"}
      PROVE  Held'
  <2>1. Owned'
    BY <1>3 DEF Held, Owned, OwnerInside
  <2>2. pc' = [pc EXCEPT ![t] = p]
    BY <1>3 DEF Leave
  <2>3. OnlyOf(t)
    BY <1>1, <1>3, <2>2 DEF Held, OnlyOf
  <2>4. HeldBy(t)'
    BY <1>1, <1>3, <2>2 DEF Held, HeldBy, Entering, side
  <2> QED BY <2>1, <2>3, <2>4, StepHeld
<1>4. CASE mutex_enter_wait(t, side(c), "mutex_enterCritical")
  BY <1>3, <1>4 DEF mutex_enter_wait, Inside
<1>5. CASE mutexTimer_enter_wait(t, side(c), c.timer, "mutexTimer_enterCritical")
  BY <1>3, <1>5 DEF mutexTimer_enter_wait
<1> QED BY <1>2, <1>4, <1>5 DEF queue_enter

LEMMA BootHeld ==
  ASSUME Held, boot, UNCHANGED job
  PROVE  Held'
<1>1. ASSUME NEW th \in Threads, scheduler_add(th)
      PROVE  Held'
  BY <1>1, QuietHeld DEF boot, aboveKernel, scheduler_add, Moves
<1>2. CASE scheduler_run \/ scheduler_run_return
  BY <1>2, KernelAssumption, QuietHeld
     DEF boot, aboveKernel, scheduler_run, scheduler_run_return, Moves
<1> QED BY <1>1, <1>2 DEF boot

LEMMA NextHeld == LeavesItsSide /\ Held /\ [QueueNext]_queueVars => Held'
<1> SUFFICES ASSUME LeavesItsSide, Held, [QueueNext]_queueVars
             PROVE  Held'
  OBVIOUS
<1>1. CASE boot /\ UNCHANGED <<ring, job>>
  BY <1>1, BootHeld
<1>2. CASE tick \/ interrupt
  BY <1>2, SameHeld
     DEF tick, timer_tick, timeOnly, interrupt, event_notifyISR, ResumeFromPriorListISR,
         aboveKernel
<1>3. ASSUME NEW t \in Threads, InCall(t)
      PROVE  Held'
  BY <1>3, ReturnsHeld, TimedEntryHeld, MoveHeld, LeaveHeld DEF InCall
<1>4. ASSUME NEW t \in Threads, rest(t) \/ setTimeout(t)
      PROVE  Held'
  <2>1. Moves(t)
    BY <1>4, CallMoves DEF rest, event_wait, setTimeout, task_setTimeout, SetDue
  <2> QED
    BY <1>4, <2>1, QuietHeld DEF rest, setTimeout, Doing, User, aboveKernel, timeOnly
<1>5. ASSUME NEW t \in Threads, NEW c \in Calls[t], queue_enter(t, c)
      PROVE  Held'
  BY <1>5, EnterHeld
<1>6. CASE UNCHANGED queueVars
  BY <1>6, SameHeld DEF queueVars, mutexVars
<1> QED
  BY <1>1, <1>2, <1>3, <1>4, <1>5, <1>6 DEF QueueNext

\* The mutexes of the queues exclude (mutex.h:48-62) although a call sleeps within
\* them, for every use of the queues in which each call leaves the mutex it
\* entered; queueTimer_put8 is the one that does not (queue.c:207).
THEOREM QueuesExclude == LeavesItsSide => (QueueSpec => []MutualExclusion)
<1> SUFFICES ASSUME LeavesItsSide PROVE QueueSpec => []MutualExclusion
  OBVIOUS
<1>1. Held /\ [QueueNext]_queueVars => Held'
  BY NextHeld
<1>2. Held => MutualExclusion
  BY OwnedExcludes DEF Held
<1> QED BY <1>1, <1>2, InitHeld, PTL DEF QueueSpec
-----------------------------------------------------------------------------
(* Types *)

Jobs == [at : {"idle", "moving", "leaving"}, call : CallRecord \cup {NULL}, done : Nat]

\* What the calls in the middle are made of.
JobTypes ==
  /\ job \in [Threads -> Jobs]
  /\ \A t \in Threads : /\ job[t].at = "idle" <=> job[t] = Idle
                        /\ job[t].at # "idle" => job[t].call \in CallRecord

\* The memory of a ring of bytes.
RingTypes ==
  /\ ring = [q \in Queues |-> ring[q]]
  /\ \A q \in Queues : ring[q] \in Ring(q, Bytes \cup {NULL})

LEMMA InitJobTypes == QueueInit => JobTypes /\ RingTypes
<1> SUFFICES ASSUME QueueInit PROVE JobTypes /\ RingTypes
  OBVIOUS
<1>1. Idle \in Jobs /\ Idle.at = "idle"
  BY DEF Idle, Jobs
<1>2. ASSUME NEW q \in Queues PROVE queue_init(q) \in Ring(q, Bytes \cup {NULL})
  BY DEF queue_init, Ring
<1> QED
  BY <1>1, <1>2 DEF QueueInit, JobTypes, RingTypes

\* t goes on in its call, or begins one.
LEMMA StepJobTypes ==
  ASSUME JobTypes, NEW t \in Threads, NEW j,
         \/ j = Idle
         \/ /\ j \in Jobs /\ j.at # "idle" /\ j.call \in CallRecord
         ,
         job' = [job EXCEPT ![t] = j]
  PROVE  JobTypes'
<1>1. Idle \in Jobs /\ Idle.at = "idle"
  BY DEF Idle, Jobs
<1> QED
  BY <1>1 DEF JobTypes

\* A byte that is put is a byte.
LEMMA PutTypes ==
  ASSUME NEW q \in Queues, NEW V, ring[q] \in Ring(q, V), NEW byte \in V
  PROVE  put(q, byte) \in Ring(q, V) /\ get(q) \in Ring(q, V)
<1> DEFINE r == ring[q]
           data == [r.data EXCEPT ![r.last] = byte]
           last == following(q, r.last)
           first == following(q, r.first)
<1>1. /\ last \in Int /\ first \in Int /\ r.qty + 1 \in Int /\ r.qty - 1 \in Int
      /\ data \in [0 .. Size[q] - 1 -> V]
  <2>1. last \in Int /\ first \in Int /\ r.qty + 1 \in Int /\ r.qty - 1 \in Int
    BY QueueAssumption DEF Ring, following
  <2>2. r.data \in [0 .. Size[q] - 1 -> V]
    BY DEF Ring
  <2> QED
    BY <2>1, <2>2
<1>2. /\ put(q, byte) = [r EXCEPT !.data = data, !.last = last, !.qty = r.qty + 1]
      /\ get(q) = [r EXCEPT !.first = first, !.qty = r.qty - 1]
  BY DEF put, get
<1> HIDE DEF data, last, first
<1> QED
  BY <1>1, <1>2 DEF Ring

LEMMA MoveTypes ==
  ASSUME JobTypes, RingTypes, NEW t \in Threads, queue_move(t)
  PROVE  JobTypes' /\ RingTypes'
<1> DEFINE c == job[t].call
           d == IF c.str /\ ~ c.puts THEN 1 ELSE job[t].done + 1
           s == IF lastMove(t) THEN "leaving" ELSE job[t].at
           new == IF c.puts THEN put(c.q, nextByte(t)) ELSE get(c.q)
           j == [job[t] EXCEPT !.done = d, !.at = s]
<1>1. /\ job[t].at = "moving" /\ ring' = [ring EXCEPT ![c.q] = new]
      /\ job' = [job EXCEPT ![t].done = d, ![t].at = s]
  BY DEF queue_move, Doing
<1>2. /\ job[t] \in Jobs /\ c \in CallRecord /\ c.q \in Queues /\ d \in Nat
      /\ c.from \in Nat /\ job[t].done \in Nat
  BY <1>1 DEF JobTypes, Jobs, CallRecord
<1>3. job' = [job EXCEPT ![t] = j]
  BY <1>1, <1>2 DEF JobTypes
<1>4. s \in {"moving", "leaving"}
  BY <1>1
<1> HIDE DEF d, s
<1>5. j \in Jobs /\ j.at # "idle" /\ j.call = c
  BY <1>2, <1>4 DEF Jobs
<1> HIDE DEF j
<1>6. JobTypes'
  BY <1>2, <1>3, <1>5, StepJobTypes
<1>7. nextByte(t) \in Bytes \cup {NULL}
  <2>1. c.from + (job[t].done + 1) \in Nat /\ (c.str /\ job[t].done + 1 = c.size) \in BOOLEAN
    BY <1>2
  <2> QED
    BY <2>1 DEF nextByte, Bytes
<1>8. new \in Ring(c.q, Bytes \cup {NULL})
  BY <1>2, <1>7, PutTypes DEF RingTypes
<1> HIDE DEF new
<1>9. RingTypes'
  BY <1>1, <1>2, <1>8 DEF RingTypes, Ring
<1> QED
  BY <1>6, <1>9

\* A step of queue_move, in one piece.
LEMMA MoveIs ==
  ASSUME JobTypes, NEW t \in Threads, queue_move(t)
  PROVE  \E j \in Jobs :
           /\ job' = [job EXCEPT ![t] = j] /\ j.call = job[t].call
           /\ j.at = IF lastMove(t) THEN "leaving" ELSE "moving"
           /\ j.done = IF job[t].call.str /\ ~ job[t].call.puts THEN 1 ELSE job[t].done + 1
           /\ job[t].call \in CallRecord /\ job[t].at = "moving" /\ job[t].done \in Nat
<1> DEFINE c == job[t].call
           d == IF c.str /\ ~ c.puts THEN 1 ELSE job[t].done + 1
           s == IF lastMove(t) THEN "leaving" ELSE "moving"
           j == [job[t] EXCEPT !.done = d, !.at = s]
<1>1. /\ job[t].at = "moving" /\ job' = [job EXCEPT ![t].done = d, ![t].at = s]
      /\ job[t] \in Jobs /\ c \in CallRecord
  BY DEF queue_move, Doing, JobTypes
<1>2. d \in Nat /\ job[t].done \in Nat /\ s \in {"moving", "leaving"}
  BY <1>1 DEF Jobs
<1> HIDE DEF d, s
<1>3. job' = [job EXCEPT ![t] = j]
  BY <1>1 DEF JobTypes
<1>4. j \in Jobs /\ j.call = c /\ j.at = s /\ j.done = d
  BY <1>1, <1>2 DEF Jobs
<1> HIDE DEF j
<1> QED
  BY <1>1, <1>2, <1>3, <1>4 DEF d, s

LEMMA NextJobs == JobTypes /\ [QueueNext]_queueVars => JobTypes'
<1> SUFFICES ASSUME JobTypes, [QueueNext]_queueVars
             PROVE  JobTypes'
  OBVIOUS
<1>1. CASE UNCHANGED job
  BY <1>1 DEF JobTypes
<1>2. ASSUME NEW t \in Threads, NEW j,
             j = Idle \/ (j \in Jobs /\ j.at # "idle" /\ j.call \in CallRecord),
             job' = [job EXCEPT ![t] = j]
      PROVE  JobTypes'
  BY <1>2, StepJobTypes
<1>3. ASSUME NEW t \in Threads, timed_entry(t) PROVE JobTypes'
  <2>1. CASE TimedEntry(t)
    BY <1>1, <1>3, <2>1 DEF timed_entry, JobTypes
  <2>2. CASE ~ TimedEntry(t)
    BY <1>2, <1>3, <2>2 DEF timed_entry
  <2> QED
    BY <2>1, <2>2
<1>4. ASSUME NEW t \in Threads, timed_wait(t) PROVE JobTypes'
  <2> DEFINE s == IF TimedResult(t) THEN "moving" ELSE "leaving"
             j == [job[t] EXCEPT !.at = s]
  <2>1. job' = [job EXCEPT ![t] = j] /\ job[t].at = "moving"
    BY <1>4 DEF timed_wait
  <2>2. job[t] \in Jobs /\ job[t].call \in CallRecord /\ s \in {"moving", "leaving"}
    BY <2>1 DEF JobTypes
  <2> HIDE DEF s
  <2>3. j \in Jobs /\ j.at # "idle" /\ j.call \in CallRecord
    BY <2>2 DEF Jobs
  <2> HIDE DEF j
  <2> QED
    BY <1>2, <2>1, <2>3
<1>5. ASSUME NEW t \in Threads, queue_leave(t) PROVE JobTypes'
  BY <1>2, <1>5 DEF queue_leave
<1>6. ASSUME NEW t \in Threads, queue_move(t) PROVE JobTypes'
  <2>1. PICK j \in Jobs :
          /\ job' = [job EXCEPT ![t] = j] /\ j.call = job[t].call
          /\ j.at = IF lastMove(t) THEN "leaving" ELSE "moving"
          /\ job[t].call \in CallRecord
    BY <1>6, MoveIs
  <2> QED
    BY <1>2, <2>1
<1>7. ASSUME NEW t \in Threads, InCall(t) PROVE JobTypes'
  BY <1>1, <1>3, <1>4, <1>5, <1>6, <1>7 DEF InCall, queue_wait
<1>8. ASSUME NEW t \in Threads, NEW c \in Calls[t], queue_enter(t, c)
      PROVE  JobTypes'
  <2> DEFINE j == [at |-> "moving", call |-> c, done |-> 0]
  <2>1. c \in CallRecord
    BY QueueAssumption
  <2>2. j \in Jobs /\ j.at # "idle" /\ j.call \in CallRecord
    BY <2>1 DEF Jobs
  <2>3. job' = [job EXCEPT ![t] = j]
    BY <1>8 DEF queue_enter
  <2> HIDE DEF j
  <2> QED
    BY <1>2, <2>2, <2>3
<1> QED
  BY <1>1, <1>7, <1>8 DEF QueueNext, tick, interrupt, rest, setTimeout, queueVars

LEMMA NextJobTypes == JobTypes /\ RingTypes /\ [QueueNext]_queueVars => JobTypes' /\ RingTypes'
<1>1. RingTypes /\ UNCHANGED ring => RingTypes'
  BY DEF RingTypes, Ring
<1> QED
  BY <1>1, RingMoves, MoveTypes, NextJobs

\* The kernel calls within a call are steps of the layers below.
LEMMA NextBelow ==
  JobTypes /\ Below(MutexPoints) /\ [QueueNext]_queueVars => Below(MutexPoints)'
<1> DEFINE P == MutexPoints
<1> SUFFICES ASSUME JobTypes, Below(P), [QueueNext]_queueVars PROVE Below(P)'
  OBVIOUS
<1>1. EntryPoints(P) /\ \A e \in OtherEvents : e \in Events
  BY MutexPointsEntry DEF OtherEvents
<1> HIDE DEF P
<1>2. ASSUME NEW t \in Threads, timed_entry(t) PROVE Below(P)'
  BY <1>1, <1>2, BelowNext DEF timed_entry, mutexOnly, MutexNext, MutexThread
<1>3. ASSUME NEW t \in Threads, queue_wait(t) PROVE Below(P)'
  <2> DEFINE c == job[t].call
  <2>1. c \in CallRecord /\ c.q \in Queues /\ c.timer \in TickLists \cup {NULL}
    BY <1>3 DEF queue_wait, Doing, JobTypes, CallRecord
  <2>2. waitsAt(c) \in Events
    BY <2>1, QueueAssumption DEF waitsAt
  <2>3. UNCHANGED <<busy, inside>>
    BY <1>3 DEF queue_wait, timeOnly
  <2>4. CASE event_wait(t, waitsAt(c)) /\ UNCHANGED mutexOnly
    BY <1>1, <2>2, <2>3, <2>4, BelowTimer DEF mutexOnly, TimerNext, TimerThread, EventThread
  <2>5. CASE c.timer # NULL /\ eventTimer_wait(t, waitsAt(c), c.timer)
    BY <1>1, <2>1, <2>2, <2>3, <2>5, BelowTimer DEF TimerNext, TimerThread
  <2> QED
    BY <1>3, <2>4, <2>5 DEF queue_wait
<1>4. ASSUME NEW t \in Threads, timed_wait(t) PROVE Below(P)'
  <2>1. eventTimer_return(t) /\ UNCHANGED timeOnly
    BY <1>4 DEF timed_wait
  <2>2. Layer(P)'
    BY <1>1, <2>1, CalmLayer, CallMoved
       DEF eventTimer_return, Below, Layer, EntryPoints, Timed, TimerPoints, EventPoints
  <2> QED
    BY <2>1, <2>2, TimedMask DEF Below, timeOnly, MutexTypes
<1>5. ASSUME NEW t \in Threads, queue_move(t) PROVE Below(P)'
  <2> DEFINE c == job[t].call
  <2>1. c \in CallRecord /\ c.q \in Queues
    BY <1>5 DEF queue_move, Doing, JobTypes, CallRecord
  <2>2. tells(c) \in Events
    BY <2>1, QueueAssumption DEF tells
  <2>3. UNCHANGED aboveKernel /\ (event_notify(t, tells(c)) \/ UNCHANGED kernelVars)
    BY <1>5 DEF queue_move
  <2>4. CASE event_notify(t, tells(c))
    BY <1>1, <2>2, <2>3, <2>4, BelowTimer DEF aboveKernel, TimerNext, TimerThread, EventThread
  <2>5. CASE UNCHANGED kernelVars
    BY <2>3, <2>5, BelowSame DEF aboveKernel, kernelVars, mutexVars
  <2> QED
    BY <2>3, <2>4, <2>5
<1>6. ASSUME NEW t \in Threads, queue_leave(t) PROVE Below(P)'
  <2>1. job[t].call.exit \in Mutexes
    BY <1>6 DEF queue_leave, Doing, JobTypes, CallRecord
  <2> QED
    BY <1>1, <1>6, <2>1, ExitLayer, ExitMask DEF queue_leave, Below, mutexOnly
<1>7. ASSUME NEW t \in Threads, InCall(t) PROVE Below(P)'
  BY <1>1, <1>2, <1>3, <1>4, <1>5, <1>6, <1>7, BelowReturns DEF InCall
<1>8. ASSUME NEW t \in Threads, rest(t) PROVE Below(P)'
  BY <1>1, <1>8, BelowTimer DEF rest, aboveKernel, TimerNext, TimerThread, EventThread
<1>9. CASE interrupt
  BY <1>1, <1>9, BelowTimer
     DEF interrupt, aboveKernel, TimerNext, TimerInterrupt, EventInterrupt
<1>10. ASSUME NEW t \in Threads, setTimeout(t) PROVE Below(P)'
  <2>1. PICK c \in Calls[t], d \in Delays : c.timer # NULL /\ task_setTimeout(t, c.timer, d)
    BY <1>10 DEF setTimeout
  <2>2. c.timer \in TickLists
    BY <2>1, QueueAssumption DEF CallRecord
  <2> QED
    BY <1>1, <1>10, <2>1, <2>2, BelowTimer DEF setTimeout, timeOnly, TimerNext, TimerThread
<1>11. CASE tick
  BY <1>1, <1>11, BelowTimer DEF tick, timeOnly, TimerNext, TimerInterrupt
<1>12. ASSUME NEW t \in Threads, NEW c \in Calls[t], queue_enter(t, c) PROVE Below(P)'
  <2>1. c \in CallRecord /\ side(c) \in Mutexes /\ c.timer \in TickLists \cup {NULL}
    BY QueueAssumption DEF CallRecord, side
  <2>2. /\ UNCHANGED <<now, due>>
        /\ \E label \in MutexCalls :
             \/ mutex_enter_free(t, side(c), label)
             \/ mutex_enter_wait(t, side(c), label)
             \/ c.timer # NULL /\ mutexTimer_enter_wait(t, side(c), c.timer, label)
    BY <1>12
       DEF queue_enter, mutexOnly, mutex_enter_free, mutex_enter_wait, mutexTimer_enter_wait,
           MayEnter
  <2>3. MutexNext
    BY <2>1, <2>2 DEF MutexNext, MutexThread
  <2> QED
    BY <1>1, <2>3, BelowNext
<1> QED
  BY <1>1, <1>7, <1>8, <1>9, <1>10, <1>11, <1>12, BelowBoot, BelowSame
     DEF QueueNext, queueVars

\* A queue's calls and rings have their types, and what they use of the kernel
\* does: no index leaves the memory of a ring, and no byte but those that were put
\* gets into it (queue.c:26-53).
THEOREM QueueTypesCorrect == QueueSpec => []QueueTypeOK
<1> DEFINE Typed == JobTypes /\ RingTypes /\ Below(MutexPoints)
<1>1. QueueInit => Typed
  BY InitJobTypes, InitBelow, MutexPointsEntry DEF QueueInit
<1>2. Typed /\ [QueueNext]_queueVars => Typed'
  BY NextJobTypes, NextBelow
<1>3. Typed /\ Rings => QueueTypeOK
  <2> SUFFICES ASSUME Typed, Rings PROVE QueueTypeOK
    OBVIOUS
  <2>1. MutexTypeOK
    BY LayerTypes DEF Below, MutexTypes, MutexTypeOK
  <2>2. \A q \in Queues : ring[q].data \in [0 .. Size[q] - 1 -> Bytes \cup {NULL}]
    BY DEF RingTypes, Ring
  <2> QED
    BY <2>1, <2>2 DEF QueueTypeOK, JobTypes, Jobs, Rings
<1>4. QueueSpec => []Typed
  BY <1>1, <1>2, PTL DEF QueueSpec
<1> QED
  BY <1>3, <1>4, InitRings, NextRings, PTL DEF QueueSpec

-----------------------------------------------------------------------------
(* The channels the queues implement *)

\* The bytes of a ring.
BytesOf(q, r) == [n \in 1 .. r.qty |-> nth(q, r, n)]

LEMMA PutContents ==
  ASSUME NEW q \in Queues, NEW byte,
         Sound(q, ring[q]), IsRing(q, ring[q]), ~ isFull(q)
  PROVE  /\ BytesOf(q, put(q, byte)) = Append(Contents(q), byte)
         /\ Len(Contents(q)) < Size[q]
<1> DEFINE s == Contents(q)
           w == put(q, byte)
           S == {nth(q, ring[q], n) : n \in 1 .. ring[q].qty} \cup {byte}
<1>1. ring[q].qty \in Nat /\ ring[q].qty < Size[q] /\ Size[q] \in Nat
  BY QueueAssumption DEF Sound, isFull
<1>2. s \in Seq(S) /\ Len(s) = ring[q].qty /\ byte \in S
  BY <1>1 DEF Contents
<1>3. /\ Append(s, byte) \in Seq(S) /\ Len(Append(s, byte)) = Len(s) + 1
      /\ \A n \in 1 .. Len(s) : Append(s, byte)[n] = s[n]
      /\ Append(s, byte)[Len(s) + 1] = byte
  BY <1>2, AppendProperties
<1>4. w.qty = ring[q].qty + 1 /\ nth(q, w, w.qty) = byte
  BY PutAppends, 1 \in Nat \ {0}
<1>5. ASSUME NEW n \in 1 .. ring[q].qty PROVE nth(q, w, n) = s[n]
  <2>1. n \in Nat \ {0} /\ n <= ring[q].qty
    BY <1>1
  <2>2. nth(q, w, n) = nth(q, ring[q], n)
    BY <2>1, PutAppends
  <2> QED
    BY <2>2 DEF Contents
<1> HIDE DEF w, s, S
<1>6. ASSUME NEW n \in 1 .. ring[q].qty + 1 PROVE nth(q, w, n) = Append(s, byte)[n]
  BY <1>1, <1>2, <1>3, <1>4, <1>5
<1>7. Append(s, byte) = [n \in 1 .. ring[q].qty + 1 |-> Append(s, byte)[n]]
  BY <1>1, <1>2, <1>3, LenProperties
<1>8. BytesOf(q, w) = Append(s, byte)
  BY <1>4, <1>6, <1>7 DEF BytesOf
<1> QED
  BY <1>1, <1>2, <1>8 DEF w, s

LEMMA GetContents ==
  ASSUME NEW q \in Queues, Sound(q, ring[q]), IsRing(q, ring[q]), ~ isEmpty(q)
  PROVE  BytesOf(q, get(q)) = Tail(Contents(q)) /\ Contents(q) # << >>
<1> DEFINE s == Contents(q)
           w == get(q)
           S == {nth(q, ring[q], n) : n \in 1 .. ring[q].qty}
<1>1. ring[q].qty \in Nat \ {0}
  BY QueueAssumption DEF Sound, isEmpty
<1>2. s \in Seq(S) /\ Len(s) = ring[q].qty
  BY <1>1 DEF Contents
<1>3. s # << >>
  BY <1>1, <1>2
<1>4. /\ Tail(s) \in Seq(S) /\ Len(Tail(s)) = Len(s) - 1
      /\ \A n \in 1 .. Len(Tail(s)) : Tail(s)[n] = s[n + 1]
  BY <1>2, <1>3, HeadTailProperties
<1>5. w.qty = ring[q].qty - 1
  BY GetTakesFirst, 1 \in Nat \ {0}
<1>6. ASSUME NEW n \in 1 .. ring[q].qty - 1 PROVE nth(q, w, n) = s[n + 1]
  <2>1. n \in Nat \ {0} /\ n <= w.qty /\ n + 1 \in 1 .. ring[q].qty
    BY <1>1, <1>5
  <2>2. nth(q, w, n) = nth(q, ring[q], n + 1)
    BY <2>1, GetTakesFirst
  <2> QED
    BY <2>1, <2>2 DEF Contents
<1> HIDE DEF w, s, S
<1>7. ASSUME NEW n \in 1 .. ring[q].qty - 1 PROVE nth(q, w, n) = Tail(s)[n]
  BY <1>1, <1>2, <1>4, <1>6
<1>8. Tail(s) = [n \in 1 .. ring[q].qty - 1 |-> Tail(s)[n]]
  BY <1>1, <1>2, <1>4, LenProperties
<1>9. BytesOf(q, w) = Tail(s)
  BY <1>5, <1>7, <1>8 DEF BytesOf
<1> QED
  BY <1>3, <1>9 DEF w, s

Begins == TimedLabels \cup {"mutex_enterCritical", "eventTimer_wait"}

\* The calls are their messages.
Whole == \A t \in Threads : \A c \in Calls[t] : c.from = 0

\* A call enters its mutex, and waits with its timer, before its first byte.
Begun(t) ==
  /\ pc[t].at \in Begins => job[t].done = 0
  /\ Whole /\ job[t].at # "idle" => job[t].call.from = 0

AllBegun == \A t \in Threads : Begun(t)

\* t gets to the point p of the kernel, and its call to j.
LEMMA StepBegun ==
  ASSUME Held, AllBegun, NEW t \in Threads, NEW p, NEW j,
         pc' = [pc EXCEPT ![t] = p], job' = [job EXCEPT ![t] = j],
         p.at \in Begins => j.done = 0,
         Whole /\ j.at # "idle" => j.call.from = 0
  PROVE  AllBegun'
BY DEF Held, AllBegun, Begun

\* The same for a step within a kernel call.
LEMMA QuietBegun ==
  ASSUME Held, AllBegun, NEW t \in Threads, UNCHANGED job,
         \/ UNCHANGED pc
         \/ \E p : /\ pc' = [pc EXCEPT ![t] = p]
                   /\ p.at \notin Begins
  PROVE  AllBegun'
BY DEF Held, AllBegun, Begun

LEMMA CallBegun ==
  ASSUME Held, AllBegun, NEW t \in Threads, InCall(t), ~ queue_move(t)
  PROVE  AllBegun'
<1>1. /\ At("user").at \notin Begins /\ At("yield").at \notin Begins
      /\ Idle.at = "idle" /\ Idle.done = 0
      /\ \A e : Inside("event_wait", e).at \notin Begins
  BY DEF At, Idle, Inside, Begins, TimedLabels
<1>2. ASSUME Returns(t), UNCHANGED job PROVE AllBegun'
  <2>1. UNCHANGED pc \/ pc' = [pc EXCEPT ![t] = At("user")]
    BY <1>2
       DEF Returns, checkIRQ, yield_return, event_wait_return, timer_return, Finish,
           mutex_enter_retry, Entered
  <2> QED
    BY <1>1, <1>2, <2>1, QuietBegun
<1>3. CASE timed_entry(t)
  <2>1. pc' = [pc EXCEPT ![t] = At("user")]
    BY <1>3 DEF timed_entry, mutexTimer_return, Entered, Finish
  <2>2. \/ UNCHANGED job
        \/ job' = [job EXCEPT ![t] = Idle]
    BY <1>3 DEF timed_entry, Held
  <2> QED
    BY <1>1, <2>1, <2>2, StepBegun, QuietBegun
<1>4. CASE queue_wait(t)
  <2>1. CASE eventTimer_wait(t, waitsAt(job[t].call), job[t].call.timer) /\ job[t].done = 0
    <3>1. PICK p : pc' = [pc EXCEPT ![t] = p]
      BY <2>1 DEF eventTimer_wait, Leave
    <3>2. job' = [job EXCEPT ![t] = job[t]]
      BY <1>4 DEF queue_wait, Held
    <3> QED
      BY <1>1, <2>1, <3>1, <3>2, StepBegun DEF AllBegun, Begun
  <2>2. CASE event_wait(t, waitsAt(job[t].call))
    <3>1. pc' = [pc EXCEPT ![t] = Inside("event_wait", waitsAt(job[t].call))]
      BY <2>2 DEF event_wait, Leave
    <3> QED
      BY <1>1, <1>4, <3>1, QuietBegun DEF queue_wait
  <2> QED
    BY <1>4, <2>1, <2>2 DEF queue_wait
<1>5. CASE timed_wait(t)
  <2>1. pc' = [pc EXCEPT ![t] = At("user")]
    BY <1>5 DEF timed_wait, eventTimer_return, Finish
  <2>2. PICK s : job' = [job EXCEPT ![t] = [job[t] EXCEPT !.at = s]]
    BY <1>5 DEF timed_wait
  <2> DEFINE j == [job[t] EXCEPT !.at = s]
  <2>3. j.call = job[t].call /\ job[t].at # "idle"
    BY <1>5 DEF timed_wait
  <2> HIDE DEF j
  <2> QED
    BY <1>1, <2>1, <2>2, <2>3, StepBegun DEF AllBegun, Begun, j
<1>6. CASE queue_leave(t)
  <2>1. PICK p \in {At("user"), At("yield")} : pc' = [pc EXCEPT ![t] = p]
    BY <1>6 DEF queue_leave, mutex_exitCritical, Finish
  <2>2. job' = [job EXCEPT ![t] = Idle]
    BY <1>6 DEF queue_leave
  <2> QED
    BY <1>1, <2>1, <2>2, StepBegun
<1> QED
  BY <1>2, <1>3, <1>4, <1>5, <1>6 DEF InCall

LEMMA NextBegun ==
  JobTypes /\ Held /\ AllBegun /\ [QueueNext]_queueVars => AllBegun'
<1> SUFFICES ASSUME JobTypes, Held, AllBegun, [QueueNext]_queueVars PROVE AllBegun'
  OBVIOUS
<1>1. CASE UNCHANGED <<pc, job>>
  BY <1>1 DEF AllBegun, Begun
<1>2. ASSUME UNCHANGED job, boot PROVE AllBegun'
  <2>1. PICK t \in Threads, label \in {"user", "run"} : pc' = [pc EXCEPT ![t] = At(label)]
    BY <1>2, KernelAssumption
       DEF boot, scheduler_add, scheduler_run, scheduler_run_return
  <2>2. At(label).at = label
    BY DEF At
  <2> QED
    BY <1>2, <2>1, <2>2, QuietBegun DEF Begins, TimedLabels
<1>3. ASSUME NEW t \in Threads, queue_move(t) PROVE AllBegun'
  <2>1. PICK j : /\ job' = [job EXCEPT ![t] = j] /\ j.call = job[t].call
                 /\ job[t].at = "moving"
    BY <1>3, MoveIs
  <2>2. pc[t].at = "user"
    BY <1>3 DEF queue_move, Doing, User
  <2>3. UNCHANGED pc \/ pc' = [pc EXCEPT ![t] = At("yield")]
    BY <1>3
       DEF queue_move, event_notify, ResumeFromPriorList, ResumeAndReturn, Return, Leave,
           kernelVars
  <2> QED
    BY <2>1, <2>3, <2>2 DEF At, Held, AllBegun, Begun, Begins, TimedLabels
<1>4. ASSUME NEW t \in Threads, InCall(t) PROVE AllBegun'
  BY <1>3, <1>4, CallBegun
<1>5. ASSUME NEW t \in Threads, rest(t) PROVE AllBegun'
  <2>1. PICK e : pc' = [pc EXCEPT ![t] = Inside("event_wait", e)]
    BY <1>5 DEF rest, event_wait, Leave
  <2>2. Inside("event_wait", e).at = "event_wait"
    BY DEF Inside
  <2> QED
    BY <1>5, <2>1, <2>2, QuietBegun DEF rest, Begins, TimedLabels
<1>6. ASSUME NEW t \in Threads, NEW c \in Calls[t], queue_enter(t, c) PROVE AllBegun'
  <2> DEFINE j == [at |-> "moving", call |-> c, done |-> 0]
  <2>1. job' = [job EXCEPT ![t] = j] /\ j.done = 0 /\ (Whole => j.call.from = 0)
    BY <1>6 DEF queue_enter, Whole
  <2> HIDE DEF j
  <2>2. PICK p : pc' = [pc EXCEPT ![t] = p]
    <3>1. pc = [pc EXCEPT ![t] = pc[t]]
      BY DEF Held
    <3> QED
      BY <1>6, <3>1
         DEF queue_enter, mutex_enter_free, mutex_enter_wait, mutexTimer_enter_wait, Leave, Return
  <2> QED
    BY <2>1, <2>2, StepBegun
<1>7. CASE tick \/ interrupt
  BY <1>1, <1>7
     DEF tick, timer_tick, interrupt, event_notifyISR, ResumeFromPriorListISR
<1>8. ASSUME NEW t \in Threads, setTimeout(t) PROVE AllBegun'
  BY <1>1, <1>8 DEF setTimeout, task_setTimeout, SetDue, Return
<1> QED
  BY <1>1, <1>2, <1>4, <1>5, <1>6, <1>7, <1>8 DEF QueueNext, queueVars, mutexVars

\* A thread in the middle of a call is the only one that moves bytes on its side.
LEMMA OnlyMidway ==
  ASSUME Held, AllBegun, JobTypes, NEW t \in Threads, NEW u \in Threads, NEW q, NEW puts,
         job[t].at = "moving", pc[t].at = "user" \/ job[t].done > 0,
         job[t].call.q = q, job[t].call.puts = puts, Midway(u, q, puts)
  PROVE  t = u
<1>1. side(job[t].call) = side(job[u].call)
  BY DEF Midway, side
<1>2. side(job[t].call) \in inside[t] /\ side(job[u].call) \in inside[u]
  BY DEF Held, HeldBy, Entering, AllBegun, Begun, Midway, Begins, TimedLabels
<1>3. side(job[t].call) \in Mutexes
  BY QueueAssumption DEF JobTypes, CallRecord, side
<1> QED
  BY <1>1, <1>2, <1>3 DEF Held, Owned, OwnerInside

\* So the middle of a call is that of one thread.
Sole ==
  \A q \in Queues, puts \in BOOLEAN :
    /\ \A t \in Threads : Midway(t, q, puts) => MidwayIn(q, puts) = t
    /\ (\A t \in Threads : ~ Midway(t, q, puts)) => MidwayIn(q, puts) = NULL

LEMMA MidwayIs == Held /\ AllBegun /\ JobTypes => Sole
<1> SUFFICES ASSUME Held, AllBegun, JobTypes, NEW q \in Queues, NEW puts \in BOOLEAN
             PROVE  /\ \A t \in Threads : Midway(t, q, puts) => MidwayIn(q, puts) = t
                    /\ (\A t \in Threads : ~ Midway(t, q, puts)) => MidwayIn(q, puts) = NULL
  BY DEF Sole
<1>1. ASSUME NEW t \in Threads, Midway(t, q, puts)
      PROVE  MidwayIn(q, puts) = t
  <2>1. MidwayIn(q, puts) \in Threads /\ Midway(MidwayIn(q, puts), q, puts)
    BY <1>1 DEF MidwayIn
  <2>2. job[t].at = "moving" /\ job[t].done > 0 /\ job[t].call.q = q /\ job[t].call.puts = puts
    BY <1>1 DEF Midway
  <2> QED
    BY <2>1, <2>2, OnlyMidway
<1> QED
  BY <1>1 DEF MidwayIn

MidCall == Held /\ AllBegun /\ JobTypes /\ Rings

\* A step in which no ring changes, and no call gets into its middle or out of it.
LEMMA CalmChannels ==
  ASSUME MidCall, MidCall', UNCHANGED ring,
         \A t \in Threads, q \in Queues, puts \in BOOLEAN :
           /\ Midway(t, q, puts)' <=> Midway(t, q, puts)
           /\ Midway(t, q, puts) => job'[t].done = job[t].done
  PROVE  UNCHANGED Promise!vars
<1>1. ASSUME NEW q \in Queues, NEW puts \in BOOLEAN
      PROVE  /\ MidwayIn(q, puts)' = MidwayIn(q, puts)
             /\ MidwayIn(q, puts) # NULL =>
                  job'[MidwayIn(q, puts)].done = job[MidwayIn(q, puts)].done
  <2>1. Sole /\ Sole'
    BY MidwayIs, PTL DEF MidCall
  <2> QED
    BY <2>1 DEF Sole
<1>2. ASSUME NEW q \in Queues
      PROVE  /\ Contents(q)' = Contents(q) /\ Writer(q)' = Writer(q)
             /\ MidwayIn(q, FALSE)' = MidwayIn(q, FALSE)
  <2>1. Contents(q)' = Contents(q)
    BY DEF Contents, nth, wrapped
  <2> QED
    BY <1>1, <2>1 DEF Writer
<1> QED
  BY <1>2 DEF Promise!vars

\* The steps of a call before its first byte and after its last.
LEMMA EdgeChannels ==
  ASSUME MidCall, MidCall', UNCHANGED ring, NEW t \in Threads, NEW j,
         job' = [job EXCEPT ![t] = j],
         job[t].at = "moving" => job[t].done = 0,
         j.at = "moving" => j.done = 0
  PROVE  UNCHANGED Promise!vars
<1>1. ASSUME NEW u \in Threads, NEW q \in Queues, NEW puts \in BOOLEAN
      PROVE  /\ Midway(u, q, puts)' <=> Midway(u, q, puts)
             /\ Midway(u, q, puts) => job'[u].done = job[u].done
  BY DEF MidCall, Held, Midway
<1> QED
  BY <1>1, CalmChannels

\* What a byte that is moved changes in the middle of the calls.
LEMMA MoveMidway ==
  ASSUME MidCall, MidCall', NEW t \in Threads, queue_move(t),
         NEW q \in Queues, NEW puts \in BOOLEAN, job[t].call.q = q, job[t].call.puts = puts
  PROVE  /\ MidwayIn(q, puts) \in {t, NULL}
         /\ puts => Writer(q).i = job[t].done /\ job'[t].done = job[t].done + 1
         /\ MidwayIn(q, puts)' = IF lastMove(t) THEN NULL ELSE t
         /\ \A r \in Queues, s \in BOOLEAN :
              q # r \/ puts # s =>
                /\ MidwayIn(r, s)' = MidwayIn(r, s)
                /\ MidwayIn(r, s) # NULL =>
                     job'[MidwayIn(r, s)].done = job[MidwayIn(r, s)].done
<1> DEFINE c == job[t].call
<1>1. PICK j \in Jobs :
        /\ job' = [job EXCEPT ![t] = j] /\ j.call = c
        /\ j.at = IF lastMove(t) THEN "leaving" ELSE "moving"
        /\ j.done = IF c.str /\ ~ c.puts THEN 1 ELSE job[t].done + 1
        /\ c \in CallRecord /\ job[t].at = "moving" /\ job[t].done \in Nat
  BY MoveIs DEF MidCall
<1>2. pc[t].at = "user"
  BY DEF queue_move, Doing, User
<1>3. Sole /\ Sole'
  BY MidwayIs, PTL DEF MidCall
<1>4. job'[t] = j /\ \A u \in Threads \ {t} : job'[u] = job[u]
  BY <1>1 DEF MidCall, Held
<1>5. ASSUME NEW u \in Threads \ {t} PROVE ~ Midway(u, q, puts)
  BY <1>1, <1>2, <1>5, OnlyMidway DEF MidCall
<1>6. MidwayIn(q, puts) = IF job[t].done > 0 THEN t ELSE NULL
  <2>1. Midway(t, q, puts) <=> job[t].done > 0
    BY <1>1 DEF Midway
  <2> QED
    BY <1>3, <1>5, <2>1 DEF Sole
<1>7. MidwayIn(q, puts)' = IF lastMove(t) THEN NULL ELSE t
  <2>1. j.done > 0
    BY <1>1
  <2>2. Midway(t, q, puts)' <=> ~ lastMove(t)
    BY <1>1, <1>4, <2>1 DEF Midway
  <2>3. ASSUME NEW u \in Threads \ {t} PROVE ~ Midway(u, q, puts)'
    <3>1. ~ Midway(u, q, puts)
      BY <1>5
    <3> QED
      BY <1>4, <3>1 DEF Midway
  <2> QED
    BY <1>3, <2>2, <2>3 DEF Sole
<1>8. ASSUME puts
      PROVE  Writer(q).i = job[t].done /\ job'[t].done = job[t].done + 1
  <2>1. puts = TRUE
    BY <1>8
  <2>2. Writer(q).i = IF MidwayIn(q, puts) = NULL THEN 0 ELSE job[MidwayIn(q, puts)].done
    BY <2>1 DEF Writer
  <2>3. t # NULL
    BY ListAssumption
  <2>4. j.done = job[t].done + 1 /\ job[t].done \in Nat
    BY <1>1, <1>8
  <2>5. Writer(q).i = job[t].done
    BY <1>6, <2>2, <2>3, <2>4
  <2> QED
    BY <1>4, <2>4, <2>5
<1>9. ASSUME NEW r \in Queues, NEW s \in BOOLEAN, q # r \/ puts # s
      PROVE  /\ MidwayIn(r, s)' = MidwayIn(r, s)
             /\ MidwayIn(r, s) # NULL =>
                  job'[MidwayIn(r, s)].done = job[MidwayIn(r, s)].done
  <2>1. ~ Midway(t, r, s) /\ ~ Midway(t, r, s)'
    BY <1>1, <1>4, <1>9 DEF Midway
  <2>2. ASSUME NEW u \in Threads \ {t} PROVE Midway(u, r, s)' <=> Midway(u, r, s)
    BY <1>4 DEF Midway
  <2> QED
    BY <1>3, <1>4, <2>1, <2>2 DEF Sole
<1> QED
  BY <1>6, <1>7, <1>8, <1>9

\* So a byte that is moved is put in a channel or got from one.
LEMMA MoveChannels ==
  ASSUME MidCall, MidCall', NEW t \in Threads, queue_move(t), job[t].call.from = 0
  PROVE  Promise!Next
<1> DEFINE c == job[t].call
<1>1. PICK q \in Queues, puts \in BOOLEAN : q = c.q /\ puts = c.puts
  BY MoveIs DEF MidCall, CallRecord
<1>2. /\ c.str \in BOOLEAN /\ job[t].done \in Nat /\ t # NULL
      /\ IsRing(q, ring[q]) /\ Sound(q, ring[q])
  <2>1. c \in CallRecord /\ job[t].done \in Nat
    BY MoveIs DEF MidCall
  <2> QED
    BY <2>1, ListAssumption DEF MidCall, Rings, RingsSound, CallRecord
<1>3. /\ MidwayIn(q, puts) \in {t, NULL}
      /\ puts => Writer(q).i = job[t].done /\ job'[t].done = job[t].done + 1
      /\ MidwayIn(q, puts)' = IF lastMove(t) THEN NULL ELSE t
      /\ \A r \in Queues, s \in BOOLEAN :
           q # r \/ puts # s =>
             /\ MidwayIn(r, s)' = MidwayIn(r, s)
             /\ MidwayIn(r, s) # NULL =>
                  job'[MidwayIn(r, s)].done = job[MidwayIn(r, s)].done
  BY <1>1, MoveMidway
<1> DEFINE chan == [r \in Queues |-> Contents(r)]
           writer == [r \in Queues |-> Writer(r)]
           reader == [r \in Queues |-> MidwayIn(r, FALSE)]
<1>4. /\ ring' = [ring EXCEPT ![q] = IF puts THEN put(q, nextByte(t)) ELSE get(q)]
      /\ puts => ~ isFull(q)
      /\ ~ puts => ~ isEmpty(q)
  BY <1>1 DEF queue_move, stuck
<1>5. ASSUME NEW r \in Queues \ {q} PROVE Contents(r)' = Contents(r)
  <2>1. ring'[r] = ring[r]
    BY <1>4 DEF MidCall, Rings
  <2> QED
    BY <2>1 DEF Contents, nth, wrapped
<1>6. Contents(q)' = BytesOf(q, ring'[q])
  BY DEF Contents, BytesOf, nth, wrapped
<1>7. ASSUME NEW r \in Queues, r # q \/ ~ puts PROVE Writer(r)' = Writer(r)
  <2>1. r # q \/ puts # TRUE
    BY <1>7
  <2> QED
    BY <1>3, <2>1 DEF Writer
<1>8. ASSUME NEW r \in Queues, r # q \/ puts PROVE MidwayIn(r, FALSE)' = MidwayIn(r, FALSE)
  BY <1>3, <1>8
<1>9. CASE puts
  <2>1. /\ Contents(q)' = Append(Contents(q), nextByte(t)) /\ Len(Contents(q)) < Size[q]
    <3>1. ring'[q] = put(q, nextByte(t))
      BY <1>4, <1>9 DEF MidCall, Rings
    <3> QED
      BY <1>2, <1>4, <1>6, <1>9, <3>1, PutContents
  <2>2. \E nul \in BOOLEAN : nextByte(t) = [by |-> t, i |-> Writer(q).i + 1, nul |-> nul]
    <3>1. c.from + (job[t].done + 1) = Writer(q).i + 1
      BY <1>2, <1>3, <1>9
    <3>2. (c.str /\ job[t].done + 1 = c.size) \in BOOLEAN
      OBVIOUS
    <3> QED
      BY <3>1, <3>2 DEF nextByte
  <2>3. Writer(q).by \in {t, NULL}
    <3>1. Writer(q).by = MidwayIn(q, TRUE) /\ puts = TRUE
      BY <1>9 DEF Writer
    <3> QED
      BY <1>3, <3>1
  <2>4. Writer(q)' \in {[by |-> t, i |-> Writer(q).i + 1], [by |-> NULL, i |-> 0]}
    <3>1. puts = TRUE
      BY <1>9
    <3>2. Writer(q)' = [by |-> MidwayIn(q, puts)',
                        i |-> IF MidwayIn(q, puts)' = NULL THEN 0
                              ELSE job'[MidwayIn(q, puts)'].done]
      BY <3>1 DEF Writer
    <3> QED
      BY <1>2, <1>3, <1>9, <3>2
  <2>5. chan' = [chan EXCEPT ![q] = Append(chan[q], nextByte(t))]
    BY <1>5, <2>1
  <2>6. \/ writer' = [writer EXCEPT ![q] = [by |-> t, i |-> writer[q].i + 1]]
        \/ writer' = [writer EXCEPT ![q] = [by |-> NULL, i |-> 0]]
    BY <1>7, <2>4
  <2>7. reader' = reader
    BY <1>8, <1>9
  <2>8. writer[q].by \in {t, NULL} /\ Len(chan[q]) < Size[q] /\ writer[q].i = Writer(q).i
    BY <2>1, <2>3
  <2> HIDE DEF chan, writer, reader
  <2>9. Promise!Put(q, t)
    BY <2>2, <2>5, <2>6, <2>7, <2>8 DEF Promise!Put, chan, writer, reader
  <2> QED
    BY <2>9 DEF Promise!Next
<1>10. CASE ~ puts
  <2>1. Contents(q)' = Tail(Contents(q)) /\ Contents(q) # << >>
    <3>1. ring'[q] = get(q)
      BY <1>4, <1>10 DEF MidCall, Rings
    <3> QED
      BY <1>2, <1>4, <1>6, <1>10, <3>1, GetContents
  <2>2. MidwayIn(q, FALSE) \in {t, NULL} /\ MidwayIn(q, FALSE)' \in {t, NULL}
    <3>1. puts = FALSE
      BY <1>10
    <3> QED
      BY <1>3, <3>1
  <2>3. chan' = [chan EXCEPT ![q] = Tail(chan[q])]
    BY <1>5, <2>1
  <2>4. writer' = writer
    BY <1>7, <1>10
  <2>5. \E r \in {t, NULL} : reader' = [reader EXCEPT ![q] = r]
    BY <1>8, <2>2
  <2>6. reader[q] \in {t, NULL} /\ chan[q] # << >>
    BY <2>1, <2>2
  <2>7. Promise!Get(q, t)
    BY <2>3, <2>4, <2>5, <2>6 DEF Promise!Get
  <2> QED
    BY <2>7 DEF Promise!Next
<1> QED
  BY <1>9, <1>10

LEMMA InitChannels == QueueInit => AllBegun /\ Promise!Init
<1> SUFFICES ASSUME QueueInit PROVE AllBegun /\ Promise!Init
  OBVIOUS
<1>1. job = [t \in Threads |-> Idle] /\ ring = [q \in Queues |-> queue_init(q)]
  BY DEF QueueInit
<1>2. Idle.at = "idle" /\ Idle.done = 0
  BY DEF Idle
<1>3. AllBegun
  BY <1>1, <1>2 DEF AllBegun, Begun
<1>4. ASSUME NEW q \in Queues, NEW puts \in BOOLEAN PROVE MidwayIn(q, puts) = NULL
  BY <1>1, <1>2 DEF MidwayIn, Midway
<1>5. ASSUME NEW q \in Queues
      PROVE  Contents(q) = << >> /\ Writer(q) = [by |-> NULL, i |-> 0]
  <2>1. Contents(q) = << >>
    <3>1. ring[q].qty = 0
      BY <1>1 DEF queue_init
    <3> QED
      BY <3>1 DEF Contents
  <2>2. MidwayIn(q, TRUE) = NULL
    BY <1>4
  <2> QED
    BY <2>1, <2>2 DEF Writer
<1> QED
  BY <1>3, <1>4, <1>5 DEF Promise!Init

LEMMA NextChannels ==
  Whole /\ MidCall /\ MidCall' /\ [QueueNext]_queueVars => [Promise!Next]_(Promise!vars)
<1> SUFFICES ASSUME Whole, MidCall, MidCall', [QueueNext]_queueVars
             PROVE  Promise!Next \/ UNCHANGED Promise!vars
  OBVIOUS
<1>1. CASE UNCHANGED <<ring, job>>
  <2>1. \A t \in Threads, q \in Queues, puts \in BOOLEAN :
          /\ Midway(t, q, puts)' <=> Midway(t, q, puts)
          /\ Midway(t, q, puts) => job'[t].done = job[t].done
    BY <1>1 DEF Midway
  <2> QED
    BY <1>1, <2>1, CalmChannels
<1>2. Idle.at = "idle" /\ Idle.done = 0
  BY DEF Idle
<1>3. ASSUME NEW t \in Threads, timed_entry(t) PROVE UNCHANGED Promise!vars
  <2>1. job[t].done = 0
    BY <1>3
       DEF timed_entry, mutexTimer_return, MidCall, AllBegun, Begun, Begins
  <2> QED
    BY <1>1, <1>2, <1>3, <2>1, EdgeChannels DEF timed_entry, MidCall, Held
<1>4. ASSUME NEW t \in Threads, timed_wait(t) PROVE UNCHANGED Promise!vars
  <2>1. PICK s : job' = [job EXCEPT ![t] = [job[t] EXCEPT !.at = s]] /\ UNCHANGED ring
    BY <1>4 DEF timed_wait
  <2> DEFINE j == [job[t] EXCEPT !.at = s]
  <2>2. job[t].done = 0 /\ j.done = job[t].done
    BY <1>4 DEF timed_wait, eventTimer_return, MidCall, AllBegun, Begun, Begins
  <2> HIDE DEF j
  <2> QED
    BY <2>1, <2>2, EdgeChannels DEF j
<1>5. ASSUME NEW t \in Threads, queue_leave(t) PROVE UNCHANGED Promise!vars
  BY <1>2, <1>5, EdgeChannels DEF queue_leave, Doing
<1>6. ASSUME NEW t \in Threads, queue_move(t) PROVE Promise!Next
  <2>1. job[t].call.from = 0
    BY <1>6 DEF queue_move, Doing, MidCall, AllBegun, Begun
  <2> QED
    BY <1>6, <2>1, MoveChannels
<1>7. ASSUME NEW t \in Threads, InCall(t) PROVE Promise!Next \/ UNCHANGED Promise!vars
  BY <1>1, <1>3, <1>4, <1>5, <1>6, <1>7 DEF InCall, queue_wait
<1>8. ASSUME NEW t \in Threads, NEW c \in Calls[t], queue_enter(t, c)
      PROVE  UNCHANGED Promise!vars
  <2> DEFINE j == [at |-> "moving", call |-> c, done |-> 0]
  <2>1. job' = [job EXCEPT ![t] = j] /\ j.done = 0 /\ job[t].at = "idle" /\ UNCHANGED ring
    BY <1>8 DEF queue_enter, Doing
  <2> HIDE DEF j
  <2> QED
    BY <2>1, EdgeChannels
<1> QED
  BY <1>1, <1>7, <1>8 DEF QueueNext, tick, interrupt, rest, setTimeout, queueVars

\* The queues deliver every byte once and in order, and keep the bytes of a call
\* together although the calls sleep between their bytes (queue.h:69-180), for
\* every number and size of the queues and every use of them in which each call
\* leaves the mutex it entered and is the whole of its message.
THEOREM QueuesAreChannels == LeavesItsSide /\ Whole => (QueueSpec => ImplementsChannel)
<1> SUFFICES ASSUME LeavesItsSide, Whole PROVE QueueSpec => ImplementsChannel
  OBVIOUS
<1>1. QueueInit => MidCall /\ Promise!Init
  BY InitHeld, InitJobTypes, InitRings, InitChannels DEF MidCall
<1>2. MidCall /\ RingTypes /\ [QueueNext]_queueVars => MidCall' /\ RingTypes'
  BY NextHeld, NextJobTypes, NextRings, NextBegun DEF MidCall
<1>3. MidCall /\ MidCall' /\ [QueueNext]_queueVars => [Promise!Next]_(Promise!vars)
  BY NextChannels
<1> QED
  BY <1>1, <1>2, <1>3, InitJobTypes, PTL DEF QueueSpec, ImplementsChannel, Promise!Spec

-----------------------------------------------------------------------------
(* The lists of the queues' mutexes and events *)

\* What the calls of the queues wait for, besides the events and timers of the clients.
QueueUses ==
  TimerUses \cup
    {u \in Threads \X SUBSET Lists :
       \E c \in Calls[u[1]] :
         u[2] = IF c.timer = NULL THEN {side(c)} ELSE {side(c), c.timer}}

\* Who calls with a timer has that side and its timer for itself, and who waits has its
\* priority for itself.
QueuesApart == Apart(QueueUses) /\ Abortable \subseteq TimerLabels

QueuesLinked == Below(MutexPoints) /\ Knit(QueueUses) /\ Freed

LEMMA QueuesFit ==
  ASSUME QueuesApart, QueuesLinked, Below(MutexPoints)'
  PROVE  MutexFit(MutexPoints, QueueUses)
BY MutexPointsSeated DEF QueuesLinked, Below, MutexFit, QueueUses, Fit, EntersIn, QueuesApart

\* A call enters its mutex, or waits for it.
LEMMA EnterSteps ==
  ASSUME MutexFit(MutexPoints, QueueUses),
         NEW t \in Threads, NEW c \in Calls[t], queue_enter(t, c)
  PROVE  MutexSteps(QueueUses)
<1> DEFINE P == MutexPoints
           U == QueueUses
<1>1. /\ c \in CallRecord /\ side(c) \in Mutexes /\ c.timer \in TickLists \cup {NULL}
      /\ side(c) \in Lists /\ TickLists \subseteq Lists
  BY QueueAssumption, MutexAssumption DEF CallRecord, side, Lists
<1>2. <<t, IF c.timer = NULL THEN {side(c)} ELSE {side(c), c.timer}>> \in U
  <2>1. (IF c.timer = NULL THEN {side(c)} ELSE {side(c), c.timer}) \in SUBSET Lists
    BY <1>1
  <2> QED
    BY <2>1 DEF QueueUses
<1>3. UNCHANGED <<now, due>>
  BY DEF queue_enter, mutexOnly
<1> HIDE DEF P, U
<1>4. CASE c.timer = NULL
  <2>1. <<t, {side(c)}>> \in U
    BY <1>2, <1>4
  <2>2. \/ mutex_enter_free(t, side(c), "mutex_enterCritical")
        \/ mutex_enter_wait(t, side(c), "mutex_enterCritical")
    BY <1>4 DEF queue_enter
  <2> QED
    BY <1>1, <1>3, <2>1, <2>2, EnterFreeStep, EnterWaitStep DEF P, U
<1>5. CASE c.timer # NULL
  <2>1. <<t, {side(c), c.timer}>> \in U /\ c.timer \in TickLists
    BY <1>1, <1>2, <1>5
  <2>2. \/ mutex_enter_free(t, side(c), "mutexTimer_enterCritical")
        \/ mutexTimer_enter_wait(t, side(c), c.timer, "mutexTimer_enterCritical")
    BY <1>5 DEF queue_enter
  <2> QED
    BY <1>1, <1>3, <2>1, <2>2, EnterFreeStep, TimedEnterStep DEF P, U
<1> QED
  BY <1>4, <1>5

LEMMA TimedOn ==
  ASSUME NEW p \in MutexPoints, p.at = "eventTimer_wait"
  PROVE  p.on \in Events
<1>1. p \in TimerPoints
  BY MutexPointParts DEF EnterLabels, TimedLabels
<1>2. p \notin EventPoints /\ p \notin [at : TimerLabels, on : TickLists, tmp : Times]
  <2>1. p \in KernelPoints => p.at # "eventTimer_wait"
    BY DEF KernelPoints, At
  <2>2. \A e : Inside("event_wait", e).at = "event_wait"
    BY DEF Inside
  <2> QED
    BY <2>1, <2>2 DEF EventPoints, TimerLabels
<1> QED
  BY <1>1, <1>2 DEF TimerPoints

\* The steps of a queue, on the kernel and its mutexes.
LEMMA QueueIs ==
  ASSUME JobTypes, Below(MutexPoints), QueueNext
  PROVE  \/ boot
         \/ TimerNext /\ UNCHANGED <<busy, inside>>
         \/ UNCHANGED mutexVars
         \/ \E t \in Threads :
              \/ Returns(t)
              \/ mutexTimer_return(t) /\ UNCHANGED <<now, due>>
              \/ \E m \in Mutexes : mutex_exitCritical(t, m) /\ UNCHANGED <<now, due>>
              \/ \E c \in Calls[t] : queue_enter(t, c)
<1> DEFINE Timer == TimerNext /\ UNCHANGED <<busy, inside>>
<1>1. \A e \in OtherEvents : e \in Events
  BY DEF OtherEvents
<1>2. ASSUME NEW t \in Threads, queue_wait(t) PROVE Timer
  <2> DEFINE c == job[t].call
  <2>1. c \in CallRecord /\ c.q \in Queues /\ c.timer \in TickLists \cup {NULL}
    BY <1>2 DEF queue_wait, Doing, JobTypes, CallRecord
  <2>2. waitsAt(c) \in Events
    BY <2>1, QueueAssumption DEF waitsAt
  <2>3. CASE event_wait(t, waitsAt(c)) /\ UNCHANGED mutexOnly
    BY <1>2, <2>2, <2>3 DEF queue_wait, timeOnly, mutexOnly, TimerNext, TimerThread, EventThread
  <2>4. CASE c.timer # NULL /\ eventTimer_wait(t, waitsAt(c), c.timer)
    BY <1>2, <2>1, <2>2, <2>4 DEF queue_wait, timeOnly, TimerNext, TimerThread
  <2> QED
    BY <1>2, <2>3, <2>4 DEF queue_wait
<1>3. ASSUME NEW t \in Threads, timed_wait(t) PROVE Timer
  <2>1. eventTimer_return(t) /\ UNCHANGED timeOnly /\ pc[t].at = "eventTimer_wait"
    BY <1>3 DEF timed_wait, eventTimer_return
  <2>2. pc[t].on \in Events
    BY <2>1, TimedOn DEF Below, Layer
  <2> QED
    BY <2>1, <2>2 DEF timeOnly, TimerNext, TimerThread
<1>4. ASSUME NEW t \in Threads, queue_move(t) PROVE Timer \/ UNCHANGED mutexVars
  <2> DEFINE c == job[t].call
  <2>1. c \in CallRecord /\ c.q \in Queues
    BY <1>4 DEF queue_move, Doing, JobTypes, CallRecord
  <2>2. tells(c) \in Events
    BY <2>1, QueueAssumption DEF tells
  <2> QED
    BY <1>4, <2>2
       DEF queue_move, aboveKernel, kernelVars, mutexVars, TimerNext, TimerThread, EventThread
<1>5. ASSUME NEW t \in Threads, queue_leave(t)
      PROVE  \E m \in Mutexes : mutex_exitCritical(t, m) /\ UNCHANGED <<now, due>>
  <2>1. job[t].call.exit \in Mutexes
    BY <1>5 DEF queue_leave, Doing, JobTypes, CallRecord
  <2> QED
    BY <1>5, <2>1 DEF queue_leave, mutexOnly
<1>6. ASSUME NEW t \in Threads, rest(t) PROVE Timer
  BY <1>1, <1>6 DEF rest, aboveKernel, TimerNext, TimerThread, EventThread
<1>7. ASSUME interrupt PROVE Timer
  BY <1>1, <1>7 DEF interrupt, aboveKernel, TimerNext, TimerInterrupt, EventInterrupt
<1>8. ASSUME NEW t \in Threads, setTimeout(t) PROVE Timer
  <2>1. PICK c \in Calls[t], d \in Delays : c.timer # NULL /\ task_setTimeout(t, c.timer, d)
    BY <1>8 DEF setTimeout
  <2>2. c.timer \in TickLists
    BY <2>1, QueueAssumption DEF CallRecord
  <2> QED
    BY <1>8, <2>1, <2>2 DEF setTimeout, timeOnly, TimerNext, TimerThread
<1>9. ASSUME tick PROVE Timer
  BY <1>9 DEF tick, timeOnly, TimerNext, TimerInterrupt
<1>10. ASSUME NEW t \in Threads, timed_entry(t)
       PROVE  mutexTimer_return(t) /\ UNCHANGED <<now, due>>
  BY <1>10 DEF timed_entry, mutexOnly
<1> HIDE DEF Timer
<1>11. ASSUME NEW t \in Threads, InCall(t)
       PROVE  \/ Timer \/ UNCHANGED mutexVars \/ Returns(t)
              \/ mutexTimer_return(t) /\ UNCHANGED <<now, due>>
              \/ \E m \in Mutexes : mutex_exitCritical(t, m) /\ UNCHANGED <<now, due>>
  BY <1>2, <1>3, <1>4, <1>5, <1>10, <1>11, Zenon DEF InCall
<1> QED
  BY <1>6, <1>7, <1>8, <1>9, <1>11, Zenon DEF QueueNext, Timer

LEMMA QueuesLinkedNext ==
  ASSUME QueuesApart, JobTypes, QueuesLinked, [QueueNext]_queueVars
  PROVE  QueuesLinked' /\ Stays
<1> DEFINE P == MutexPoints
           U == QueueUses
           Good == MutexSteps(U)
<1>1. Below(P)' /\ Below(P) /\ Abortable \subseteq TimerLabels
  BY NextBelow DEF QueuesLinked, QueuesApart
<1>2. MutexFit(P, U)
  BY <1>1, QueuesFit
<1> HIDE DEF P, U, Good
<1>3. ASSUME boot PROVE Good
  BY <1>1, <1>2, <1>3, BootStep DEF Good
<1>4. ASSUME TimerNext, UNCHANGED <<busy, inside>> PROVE Good
  BY <1>1, <1>2, <1>4, MutexBelowStep DEF Good
<1>5. ASSUME UNCHANGED mutexVars PROVE Good
  <2>1. UNCHANGED <<k, pc, now, due, busy, inside>>
    BY <1>5 DEF mutexVars
  <2> QED
    BY <1>1, <1>2, <2>1, MutexBelowStep DEF Good
<1>6. ASSUME NEW t \in Threads, Returns(t) PROVE Good
  BY <1>1, <1>2, <1>6, ReturnsStep DEF Good
<1>7. ASSUME NEW t \in Threads, mutexTimer_return(t), UNCHANGED <<now, due>> PROVE Good
  BY <1>2, <1>7, TimedReturnStep DEF Good
<1>8. ASSUME NEW t \in Threads, NEW m \in Mutexes, mutex_exitCritical(t, m),
             UNCHANGED <<now, due>>
      PROVE  Good
  BY <1>2, <1>8, ExitStep DEF Good
<1>9. ASSUME NEW t \in Threads, NEW c \in Calls[t], queue_enter(t, c) PROVE Good
  BY <1>2, <1>9, EnterSteps DEF Good, P, U
<1>10. UNCHANGED queueVars => UNCHANGED mutexVars
  BY DEF queueVars
<1>11. QueueNext => Good
  BY <1>1, <1>3, <1>4, <1>5, <1>6, <1>7, <1>8, <1>9, QueueIs DEF P
<1>12. Good
  BY <1>5, <1>10, <1>11
<1> QED
  BY <1>1, <1>12 DEF Good, MutexSteps, QueuesLinked, P, U

LEMMA InitQueuesLinked == QueueInit => QueuesLinked
BY InitBelow, InitKnit, InitFreed, MutexPointsEntry DEF QueuesLinked, QueueInit, MutexInit

-----------------------------------------------------------------------------
(* Who waits for the bytes of the other side *)

\* The event a side waits for, and what stops it.
Ev(q, puts)    == IF puts THEN Output[q] ELSE Input[q]
Stuck(q, puts) == IF puts THEN isFull(q) ELSE isEmpty(q)

SideEvents == {Ev(q, puts) : q \in Queues, puts \in BOOLEAN}

\* Every side of a queue has an event of its own.
EventsApart ==
  \A q \in Queues, r \in Queues, puts \in BOOLEAN, gets \in BOOLEAN :
    Ev(q, puts) = Ev(r, gets) => q = r /\ puts = gets

Waits(q, puts) == {t \in Threads \ Active(k) : Ev(q, puts) \in In(pc[t])}

\* Who waits for the event of a side, or was woken from it, is in a call of that side.
WaitsInside ==
  \A t \in Threads, q \in Queues, puts \in BOOLEAN :
    Ev(q, puts) \in In(pc[t]) =>
      /\ job[t].at = "moving" /\ job[t].call.q = q /\ job[t].call.puts = puts
      /\ pc[t].at \in {"event_wait", "eventTimer_wait"}

\* A call of the side is in its middle and goes on without a notification.
Relieved(q, puts) == \E u \in Threads \ Waits(q, puts) : Midway(u, q, puts)

\* While a side waits, the other one is not stopped by the ring, and it is in the
\* middle of a call, which notifies, once the first is not stopped either.
Awake ==
  \A q \in Queues, puts \in BOOLEAN :
    Waits(q, puts) # {} =>
      ~ Stuck(q, ~ puts) /\ (~ Stuck(q, puts) => Relieved(q, ~ puts))

LEMMA SidesAreEvents == SideEvents \subseteq Events
BY QueueAssumption DEF SideEvents, Ev

\* A step after which nobody waits for a queue who did not before, and which does not
\* take the call of anybody out of its middle.
Calm ==
  \/ UNCHANGED <<k, pc, job>>
  \/ Aside(SideEvents) /\ UNCHANGED job
  \/ /\ In(pc'[k.running]) \cap SideEvents = {}
     /\ \A u \in Threads \ {k.running} : pc'[u] = pc[u] /\ job'[u] = job[u]
     /\ \/ job'[k.running] = job[k.running]
        \/ job[k.running].at # "moving" \/ ~ job[k.running].done > 0

LEMMA CalmWaits ==
  ASSUME Stays, NEW q \in Queues, NEW puts \in BOOLEAN,
         \/ UNCHANGED <<k, pc>>
         \/ Aside(SideEvents)
         \/ /\ Ev(q, puts) \notin In(pc'[k.running])
            /\ \A u \in Threads \ {k.running} : pc'[u] = pc[u]
  PROVE  Waits(q, puts)' \subseteq Waits(q, puts)
<1>1. Ev(q, puts) \in SideEvents /\ Ev(q, puts)' = Ev(q, puts)
  BY DEF SideEvents, Ev
<1> SUFFICES ASSUME NEW t \in Threads, t \notin Active(k'), Ev(q, puts) \in In(pc'[t])
             PROVE  t \notin Active(k) /\ Ev(q, puts) \in In(pc[t])
  BY <1>1 DEF Waits
<1>2. CASE UNCHANGED <<k, pc>>
  BY <1>2
<1>3. CASE Aside(SideEvents)
  BY <1>1, <1>3 DEF Aside
<1>4. CASE /\ Ev(q, puts) \notin In(pc'[k.running])
           /\ \A u \in Threads \ {k.running} : pc'[u] = pc[u]
  BY <1>4 DEF Stays
<1> QED
  BY <1>2, <1>3, <1>4

LEMMA CalmInside ==
  ASSUME Stays, Calm, WaitsInside
  PROVE  /\ WaitsInside'
         /\ \A q \in Queues, puts \in BOOLEAN : Waits(q, puts)' \subseteq Waits(q, puts)
<1>1. WaitsInside'
  <2> SUFFICES ASSUME NEW t \in Threads, NEW q \in Queues, NEW puts \in BOOLEAN,
                      Ev(q, puts) \in In(pc'[t])
               PROVE  pc'[t] = pc[t] /\ job'[t] = job[t]
    BY DEF WaitsInside, Ev
  <2>1. Ev(q, puts) \in SideEvents
    BY DEF SideEvents
  <2> QED
    BY <2>1 DEF Calm, Aside
<1>2. ASSUME NEW q \in Queues, NEW puts \in BOOLEAN
      PROVE  Waits(q, puts)' \subseteq Waits(q, puts)
  <2>1. Ev(q, puts) \in SideEvents
    BY DEF SideEvents
  <2> QED
    BY <2>1, CalmWaits DEF Calm
<1> QED
  BY <1>1, <1>2

LEMMA CalmAwake ==
  ASSUME Stays, Calm, UNCHANGED ring, WaitsInside, Awake
  PROVE  WaitsInside' /\ Awake'
<1>1. WaitsInside'
  BY CalmInside
<1>2. ASSUME NEW q \in Queues, NEW puts \in BOOLEAN
      PROVE  Waits(q, puts)' \subseteq Waits(q, puts)
  BY CalmInside
<1>3. ASSUME NEW q \in Queues, NEW puts \in BOOLEAN, NEW t \in Threads, Midway(t, q, puts)
      PROVE  Midway(t, q, puts)'
  <2>1. job'[t] = job[t]
    BY <1>3 DEF Calm, Midway
  <2> QED
    BY <1>3, <2>1 DEF Midway
<1>4. ASSUME NEW q \in Queues, NEW puts \in BOOLEAN
      PROVE  /\ Stuck(q, puts)' = Stuck(q, puts)
             /\ Relieved(q, puts) => Relieved(q, puts)'
  BY <1>2, <1>3 DEF Stuck, isFull, isEmpty, Relieved
<1>5. ASSUME NEW puts \in BOOLEAN PROVE (~ puts) \in BOOLEAN
  OBVIOUS
<1> QED
  BY <1>1, <1>2, <1>4, <1>5 DEF Awake

\* A thread goes to a point where it does not wait for a queue.
LEMMA CalmPoint ==
  ASSUME NEW t \in Threads, t = k.running,
         \/ UNCHANGED pc /\ In(pc[t]) \cap SideEvents = {}
         \/ \E p : pc' = [pc EXCEPT ![t] = p] /\ In(p) \cap SideEvents = {},
         pc = [u \in Threads |-> pc[u]],
         \/ UNCHANGED job
         \/ /\ \E j : job' = [job EXCEPT ![t] = j]
            /\ job[t].at # "moving" \/ ~ job[t].done > 0,
         JobTypes
  PROVE  Calm
<1>1. /\ In(pc'[t]) \cap SideEvents = {}
      /\ \A u \in Threads \ {t} : pc'[u] = pc[u]
  BY DEF In
<1>2. \A u \in Threads \ {t} : job'[u] = job[u]
  BY DEF JobTypes
<1> QED
  BY <1>1, <1>2 DEF Calm

LEMMA CalmUser ==
  ASSUME NEW t \in Threads, t = k.running,
         NEW label, pc' = [pc EXCEPT ![t] = At(label)],
         pc = [u \in Threads |-> pc[u]],
         \/ UNCHANGED job
         \/ /\ \E j : job' = [job EXCEPT ![t] = j]
            /\ job[t].at # "moving" \/ ~ job[t].done > 0,
         JobTypes
  PROVE  Calm
<1>1. In(At(label)) \cap SideEvents = {}
  BY NotIn
<1>2. \E p : pc' = [pc EXCEPT ![t] = p] /\ In(p) \cap SideEvents = {}
  BY <1>1
<1> QED
  BY <1>2, CalmPoint

\* Points of the kernel and its mutexes, where nobody waits for a queue.
LEMMA CalmPoints ==
  /\ \A label : In(At(label)) \cap SideEvents = {}
  /\ \A l \in Lists \ SideEvents : \A label : In(Inside(label, l)) \cap SideEvents = {}
  /\ \A m \in Mutexes, tm \in TickLists : \A label :
       In([at |-> label, on |-> m, timer |-> tm]) \cap SideEvents = {}
  /\ Mutexes \cap SideEvents = {} /\ Mutexes \subseteq Lists
<1>1. Mutexes \cap Events = {} /\ TickLists \cap Events = {} /\ Mutexes \subseteq Lists
  BY MutexAssumption, EventAssumption, ListAssumption DEF Lists
<1>2. \A m \in Mutexes, tm \in TickLists : \A label :
        In([at |-> label, on |-> m, timer |-> tm]) = {m, tm}
  BY DEF In
<1> QED
  BY <1>1, <1>2, NotIn, InsideIn, SidesAreEvents

LEMMA CalmReturns ==
  ASSUME Below(MutexPoints), JobTypes, NEW t \in Threads, Returns(t), UNCHANGED job
  PROVE  Calm
<1>1. pc = [u \in Threads |-> pc[u]] /\ pc[t] \in MutexPoints
  BY DEF Below, Layer
<1>2. CASE \E labels : checkIRQ(t, labels)
  BY <1>2 DEF checkIRQ, Calm
<1>3. CASE t = k.running /\ pc' = [pc EXCEPT ![t] = At("user")]
  BY <1>1, <1>3, CalmUser
<1>4. CASE mutex_enter_retry(t)
  <2>1. t = k.running /\ pc[t].at \in EnterLabels
    BY <1>4 DEF mutex_enter_retry
  <2>2. pc' = [pc EXCEPT ![t] = At("user")] \/ UNCHANGED pc
    BY <1>4 DEF mutex_enter_retry, Entered, Finish
  <2>3. In(pc[t]) \cap SideEvents = {}
    <3>1. In(pc[t]) = {pc[t].on} /\ pc[t].on \in Mutexes
      BY <1>1, <2>1, MutexPointsSeated DEF EntersIn, EntryPoints
    <3> QED
      BY <3>1, CalmPoints
  <2> QED
    BY <1>1, <1>3, <2>1, <2>2, <2>3, CalmPoint
<1> QED
  BY <1>2, <1>3, <1>4 DEF Returns, yield_return, event_wait_return, timer_return, Finish

LEMMA CalmCall ==
  ASSUME Below(MutexPoints), AllBegun, JobTypes, NEW t \in Threads, InCall(t),
         ~ queue_wait(t), ~ queue_move(t)
  PROVE  Calm /\ UNCHANGED ring
<1>1. pc = [u \in Threads |-> pc[u]]
  BY DEF Below, Layer
<1>2. CASE Returns(t) /\ UNCHANGED <<ring, job>>
  BY <1>2, CalmReturns
<1>3. CASE timed_entry(t)
  <2>1. /\ t = k.running /\ pc[t].at \in TimedLabels /\ UNCHANGED ring
        /\ pc' = [pc EXCEPT ![t] = At("user")]
        /\ \E j : job' = [job EXCEPT ![t] = j]
    BY <1>3 DEF timed_entry, mutexTimer_return, Entered, Finish
  <2>2. ~ job[t].done > 0
    <3>1. job[t].done = 0
      BY <2>1 DEF AllBegun, Begun, Begins
    <3> QED
      BY <3>1
  <2> QED
    BY <1>1, <2>1, <2>2, CalmUser
<1>4. CASE timed_wait(t)
  <2>1. /\ t = k.running /\ pc[t].at = "eventTimer_wait" /\ UNCHANGED ring
        /\ pc' = [pc EXCEPT ![t] = At("user")]
    BY <1>4 DEF timed_wait, eventTimer_return, Finish
  <2>2. PICK s : job' = [job EXCEPT ![t].at = s]
    BY <1>4 DEF timed_wait
  <2>3. \E j : job' = [job EXCEPT ![t] = j]
    BY <2>2
  <2>4. ~ job[t].done > 0
    <3>1. job[t].done = 0
      BY <2>1 DEF AllBegun, Begun, Begins
    <3> QED
      BY <3>1
  <2> QED
    BY <1>1, <2>1, <2>3, <2>4, CalmUser
<1>5. CASE queue_leave(t)
  <2>1. /\ t = k.running /\ job[t].at = "leaving" /\ UNCHANGED ring
        /\ \E label : pc' = [pc EXCEPT ![t] = At(label)]
        /\ \E j : job' = [job EXCEPT ![t] = j]
    BY <1>5 DEF queue_leave, Doing, User, mutex_exitCritical, Finish
  <2> QED
    BY <1>1, <2>1, CalmUser
<1> QED
  BY <1>2, <1>3, <1>4, <1>5 DEF InCall

LEMMA CalmEnter ==
  ASSUME Below(MutexPoints), JobTypes, NEW t \in Threads, NEW c \in Calls[t], queue_enter(t, c)
  PROVE  Calm /\ UNCHANGED ring
<1>1. pc = [u \in Threads |-> pc[u]] /\ pc[t] \in MutexPoints
  BY DEF Below, Layer
<1>2. /\ t = k.running /\ pc[t].at = "user" /\ job[t].at = "idle" /\ UNCHANGED ring
      /\ \E j : job' = [job EXCEPT ![t] = j]
  BY DEF queue_enter, Doing, User
<1>3. In(pc[t]) \cap SideEvents = {}
  <2>1. In(pc[t]) = {}
    BY <1>1, <1>2, MutexPointsSeated DEF EntersIn, Seated, Home
  <2> QED
    BY <2>1
<1>4. side(c) \in Mutexes /\ (c.timer # NULL => c.timer \in TickLists)
  BY QueueAssumption DEF CallRecord, side
<1>5. \/ UNCHANGED pc
      \/ \E p : pc' = [pc EXCEPT ![t] = p] /\ In(p) \cap SideEvents = {}
  <2>1. ASSUME NEW label, mutex_enter_free(t, side(c), label)
        PROVE  UNCHANGED pc \/ pc' = [pc EXCEPT ![t] = At("user")]
    BY <2>1 DEF mutex_enter_free, Leave, Return
  <2>2. ASSUME NEW label, mutex_enter_wait(t, side(c), label)
        PROVE  pc' = [pc EXCEPT ![t] = Inside(label, side(c))]
    BY <2>2 DEF mutex_enter_wait, Leave
  <2>3. ASSUME NEW label, mutexTimer_enter_wait(t, side(c), c.timer, label)
        PROVE  pc' = [pc EXCEPT ![t] = [at |-> label, on |-> side(c), timer |-> c.timer]]
    BY <2>3 DEF mutexTimer_enter_wait, Leave
  <2> QED
    BY <1>4, <2>1, <2>2, <2>3, CalmPoints DEF queue_enter
<1> QED
  BY <1>1, <1>2, <1>3, <1>5, CalmPoint

LEMMA CalmRest ==
  ASSUME Below(MutexPoints), JobTypes, NEW t \in Threads, rest(t) \/ setTimeout(t)
  PROVE  Calm /\ UNCHANGED ring
<1>1. pc = [u \in Threads |-> pc[u]] /\ pc[t] \in MutexPoints
  BY DEF Below, Layer
<1>2. CASE rest(t)
  <2>1. PICK e \in OtherEvents : event_wait(t, e)
    BY <1>2 DEF rest
  <2>2. /\ t = k.running /\ UNCHANGED <<ring, job>>
        /\ pc' = [pc EXCEPT ![t] = Inside("event_wait", e)]
    BY <1>2, <2>1 DEF rest, event_wait, User, Leave
  <2>3. e \in Lists \ SideEvents
    BY EventAssumption DEF OtherEvents, SideEvents, Ev, Lists
  <2> QED
    BY <1>1, <2>2, <2>3, CalmPoint, CalmPoints
<1>3. CASE setTimeout(t)
  <2>1. t = k.running /\ pc[t].at = "user" /\ UNCHANGED <<pc, ring, job>>
    BY <1>3 DEF setTimeout, Doing, User, task_setTimeout, SetDue, Return
  <2>2. In(pc[t]) = {}
    BY <1>1, <2>1, MutexPointsSeated DEF EntersIn, Seated, Home
  <2> QED
    BY <1>1, <2>1, <2>2, CalmPoint
<1> QED
  BY <1>2, <1>3

LEMMA CalmAside ==
  ASSUME MutexFit(MutexPoints, QueueUses),
         (boot /\ UNCHANGED <<ring, job>>) \/ tick \/ interrupt
  PROVE  Calm /\ UNCHANGED ring
<1>1. Fit(MutexPoints, QueueUses)
  BY MutexFitParts
<1>2. CASE boot /\ UNCHANGED <<ring, job>>
  BY <1>1, <1>2, StartStep DEF boot, aboveKernel, Steps, Calm
<1>3. CASE tick
  BY <1>1, <1>3, TickStep DEF tick, Steps, Calm
<1>4. CASE interrupt
  <2>1. PICK t \in Threads, e \in OtherEvents : event_notifyISR(t, e)
    BY <1>4 DEF interrupt
  <2>2. e \in PriorLists /\ UNCHANGED <<now, due, ring, job>>
    BY <1>4, EventAssumption DEF interrupt, OtherEvents, aboveKernel
  <2> QED
    BY <1>1, <2>1, <2>2, NotifyStep DEF event_notifyISR, Steps, Calm
<1> QED
  BY <1>2, <1>3, <1>4

\* Only a wait in a call and a byte that is moved are news to the other side.
LEMMA NextCalm ==
  ASSUME MutexFit(MutexPoints, QueueUses), Below(MutexPoints), JobTypes, AllBegun,
         [QueueNext]_queueVars
  PROVE  \/ Calm /\ UNCHANGED ring
         \/ \E t \in Threads : queue_wait(t) \/ queue_move(t)
<1>1. CASE UNCHANGED queueVars
  BY <1>1 DEF queueVars, mutexVars, Calm
<1> QED
  BY <1>1, CalmCall, CalmRest, CalmEnter, CalmAside DEF QueueNext

\* One thread is past the mutex of a side.
LEMMA OneInside ==
  ASSUME Held, JobTypes, NEW t \in Threads, NEW u \in Threads,
         job[t].at # "idle", job[u].at # "idle",
         job[t].call.q = job[u].call.q, job[t].call.puts = job[u].call.puts,
         \A v \in {t, u} :
           pc[v].at \notin {"mutex_enterCritical", "mutexTimer_enterCritical"}
  PROVE  t = u
<1>1. side(job[t].call) = side(job[u].call)
  BY DEF side
<1>2. side(job[t].call) \in inside[t] /\ side(job[u].call) \in inside[u]
  BY DEF Held, HeldBy, Entering
<1>3. side(job[t].call) \in Mutexes
  BY QueueAssumption DEF JobTypes, CallRecord, side
<1> QED
  BY <1>1, <1>2, <1>3 DEF Held, Owned, OwnerInside

\* A thread waits for its side, within the mutex and because of the ring.
LEMMA WaitInside ==
  ASSUME EventsApart, Below(MutexPoints), JobTypes, Stays, WaitsInside,
         NEW t \in Threads, queue_wait(t), NEW c, c = job[t].call
  PROVE  /\ WaitsInside' /\ UNCHANGED ring
         /\ Stuck(c.q, c.puts) /\ c.q \in Queues /\ c.puts \in BOOLEAN
         /\ \A q \in Queues, puts \in BOOLEAN :
              q # c.q \/ puts # c.puts => Waits(q, puts)' \subseteq Waits(q, puts)
<1>1. /\ c \in CallRecord /\ c.q \in Queues /\ c.puts \in BOOLEAN /\ t = k.running
      /\ job[t].at = "moving" /\ UNCHANGED <<ring, job>>
      /\ pc = [u \in Threads |-> pc[u]]
  BY DEF queue_wait, Doing, User, JobTypes, CallRecord, Below, Layer
<1>2. waitsAt(c) = Ev(c.q, c.puts) /\ stuck(c) /\ (stuck(c) <=> Stuck(c.q, c.puts))
  BY DEF waitsAt, Ev, queue_wait, stuck, Stuck
<1>3. PICK p : /\ pc' = [pc EXCEPT ![t] = p] /\ In(p) \cap SideEvents \subseteq {Ev(c.q, c.puts)}
               /\ p.at \in {"event_wait", "eventTimer_wait"}
  <2>1. waitsAt(c) \in Lists
    BY <1>1, EventAssumption, QueueAssumption DEF waitsAt, Lists
  <2>2. CASE event_wait(t, waitsAt(c))
    <3>1. pc' = [pc EXCEPT ![t] = Inside("event_wait", waitsAt(c))]
      BY <2>2 DEF event_wait, Leave
    <3>2. /\ In(Inside("event_wait", waitsAt(c))) = {Ev(c.q, c.puts)}
          /\ Inside("event_wait", waitsAt(c)).at = "event_wait"
      BY ONLY <1>2, <2>1, InsideIn
    <3> QED
      BY <3>1, <3>2
  <2>3. CASE c.timer # NULL /\ eventTimer_wait(t, waitsAt(c), c.timer)
    <3> DEFINE p == [at |-> "eventTimer_wait", on |-> waitsAt(c), timer |-> c.timer]
    <3>1. pc' = [pc EXCEPT ![t] = p]
      BY <2>3 DEF eventTimer_wait, Leave
    <3>2. In(p) = {waitsAt(c), c.timer} /\ p.at = "eventTimer_wait"
      BY DEF In
    <3>3. c.timer \notin SideEvents
      BY <1>1, <2>3, SidesAreEvents, EventAssumption, ListAssumption DEF CallRecord
    <3> QED
      BY <1>2, <3>1, <3>2, <3>3
  <2> QED
    BY <2>2, <2>3 DEF queue_wait
<1>4. ASSUME NEW q \in Queues, NEW puts \in BOOLEAN, Ev(q, puts) \in In(pc'[t])
      PROVE  q = c.q /\ puts = c.puts
  <2>1. Ev(q, puts) \in In(p) \cap SideEvents
    BY <1>1, <1>3, <1>4 DEF SideEvents
  <2> QED
    BY <1>1, <1>3, <2>1 DEF EventsApart
<1>5. WaitsInside'
  <2> SUFFICES ASSUME NEW u \in Threads, NEW q \in Queues, NEW puts \in BOOLEAN,
                      Ev(q, puts) \in In(pc'[u])
               PROVE  /\ job'[u].at = "moving" /\ job'[u].call.q = q /\ job'[u].call.puts = puts
                      /\ pc'[u].at \in {"event_wait", "eventTimer_wait"}
    BY DEF WaitsInside, Ev
  <2>1. CASE u = t
    BY <1>1, <1>3, <1>4, <2>1
  <2>2. CASE u # t
    BY <1>1, <1>3, <2>2 DEF WaitsInside
  <2> QED
    BY <2>1, <2>2
<1>6. ASSUME NEW q \in Queues, NEW puts \in BOOLEAN, q # c.q \/ puts # c.puts
      PROVE  Waits(q, puts)' \subseteq Waits(q, puts)
  <2>1. Ev(q, puts) \notin In(pc'[k.running])
    BY <1>1, <1>4, <1>6
  <2> QED
    BY <1>1, <1>3, <2>1, CalmWaits
<1> QED
  BY <1>1, <1>2, <1>5, <1>6

LEMMA WaitAwake ==
  ASSUME \A q \in Queues : Size[q] > 1, EventsApart, Below(MutexPoints), JobTypes, Stays,
         WaitsInside, Awake, NEW t \in Threads, queue_wait(t)
  PROVE  WaitsInside' /\ Awake'
<1> PICK c : c = job[t].call
  OBVIOUS
<1>1. /\ c.q \in Queues /\ c.puts \in BOOLEAN /\ WaitsInside' /\ Stuck(c.q, c.puts)
      /\ UNCHANGED <<ring, job>>
  BY WaitInside DEF queue_wait
<1>2. ASSUME NEW q \in Queues, NEW puts \in BOOLEAN, q # c.q \/ puts # c.puts
      PROVE  Waits(q, puts)' \subseteq Waits(q, puts)
  BY <1>2, WaitInside
<1>3. ASSUME NEW q \in Queues, NEW puts \in BOOLEAN
      PROVE  /\ Stuck(q, puts)' = Stuck(q, puts)
             /\ \A u \in Threads : Midway(u, q, puts)' = Midway(u, q, puts)
  BY <1>1 DEF Stuck, isFull, isEmpty, Midway
<1>4. ~ Stuck(c.q, ~ c.puts)
  <2>1. Size[c.q] \in Nat /\ Size[c.q] > 1
    BY <1>1, QueueAssumption
  <2> QED
    BY <1>1, <2>1 DEF Stuck, isFull, isEmpty
<1>5. ASSUME NEW q \in Queues, NEW puts \in BOOLEAN, q # c.q \/ puts # c.puts, Waits(q, puts)' # {}
      PROVE  ~ Stuck(q, ~ puts) /\ (~ Stuck(q, puts) => Relieved(q, ~ puts)')
  <2>1. ~ Stuck(q, ~ puts) /\ (~ Stuck(q, puts) => Relieved(q, ~ puts))
    BY <1>2, <1>5 DEF Awake
  <2>2. q # c.q
    BY <1>1, <1>5, <2>1
  <2>3. (~ puts) \in BOOLEAN
    OBVIOUS
  <2>4. Waits(q, ~ puts)' \subseteq Waits(q, ~ puts)
    BY <1>2, <2>2, <2>3
  <2> QED
    BY <1>3, <2>1, <2>3, <2>4 DEF Relieved
<1>6. Awake'
  <2> SUFFICES ASSUME NEW q \in Queues, NEW puts \in BOOLEAN, Waits(q, puts)' # {}
               PROVE  ~ Stuck(q, ~ puts)' /\ (~ Stuck(q, puts)' => Relieved(q, ~ puts)')
    BY DEF Awake
  <2>1. (~ puts) \in BOOLEAN
    OBVIOUS
  <2>2. CASE q = c.q /\ puts = c.puts
    BY <1>1, <1>3, <1>4, <2>1, <2>2
  <2>3. CASE q # c.q \/ puts # c.puts
    BY <1>3, <1>5, <2>1, <2>3
  <2> QED
    BY <2>2, <2>3
<1> QED
  BY <1>1, <1>6

\* Nobody waits on the side of a thread that is past its mutex and runs.
LEMMA NoneBeside ==
  ASSUME Held, JobTypes, WaitsInside, NEW t \in Threads, t = k.running,
         job[t].at = "moving", pc[t].at = "user"
  PROVE  Waits(job[t].call.q, job[t].call.puts) = {}
<1> SUFFICES ASSUME NEW u \in Waits(job[t].call.q, job[t].call.puts) PROVE FALSE
  OBVIOUS
<1>1. u \in Threads \ Active(k) /\ Ev(job[t].call.q, job[t].call.puts) \in In(pc[u])
  BY DEF Waits
<1>2. job[t].call.q \in Queues /\ job[t].call.puts \in BOOLEAN
  BY DEF JobTypes, CallRecord
<1>3. /\ job[u].at = "moving" /\ job[u].call.q = job[t].call.q /\ job[u].call.puts = job[t].call.puts
      /\ pc[u].at \in {"event_wait", "eventTimer_wait"}
  BY <1>1, <1>2 DEF WaitsInside
<1>4. t = u
  BY <1>1, <1>3, OneInside
<1> QED
  BY <1>1, <1>4 DEF Active

\* At most one thread waits on a side.
LEMMA OneWaits ==
  ASSUME Held, JobTypes, WaitsInside, NEW q \in Queues, NEW puts \in BOOLEAN,
         NEW t \in Waits(q, puts), NEW u \in Waits(q, puts)
  PROVE  t = u
<1>1. t \in Threads /\ u \in Threads /\ Ev(q, puts) \in In(pc[t]) /\ Ev(q, puts) \in In(pc[u])
  BY DEF Waits
<1>2. \A v \in {t, u} :
        /\ job[v].at = "moving" /\ job[v].call.q = q /\ job[v].call.puts = puts
        /\ pc[v].at \in {"event_wait", "eventTimer_wait"}
  BY <1>1 DEF WaitsInside
<1> QED
  BY <1>1, <1>2, OneInside

\* Who waits is in the list of the event.
LEMMA WaitersAre ==
  ASSUME NEW U, Knit(U), NEW q \in Queues, NEW puts \in BOOLEAN
  PROVE  Waiters(Ev(q, puts)) = Waits(q, puts)
<1>1. Ev(q, puts) \in PriorLists /\ Ev(q, puts) \in Lists
  BY QueueAssumption, EventAssumption DEF Ev, Lists
<1>2. On(k, Ev(q, puts)) = {u \in Threads : u \notin Active(k) /\ Ev(q, puts) \in Waiting[u]}
  BY <1>1, HeldOn DEF Knit
<1> QED
  BY <1>1, <1>2, OnLists DEF Waits, Waiting

\* A notification leaves nobody waiting for the event of a side.
LEMMA NotifyEmpties ==
  ASSUME Fit(MutexPoints, QueueUses), Held, JobTypes, WaitsInside,
         NEW q \in Queues, NEW puts \in BOOLEAN, NEW t,
         event_notify(t, Ev(q, puts)) \/ event_notifyISR(t, Ev(q, puts)),
         UNCHANGED <<now, due>>, Waits(q, puts)' \subseteq Waits(q, puts)
  PROVE  Waits(q, puts)' = {}
<1> SUFFICES ASSUME NEW w \in Waits(q, puts)' PROVE FALSE
  OBVIOUS
<1> DEFINE l == Ev(q, puts)
<1>1. l \in PriorLists
  BY QueueAssumption, EventAssumption DEF Ev
<1>2. Waiters(l) = Waits(q, puts)
  BY WaitersAre DEF Fit
<1>3. k.head[l] # NULL
  <2>1. ASSUME k.head[l] = NULL PROVE Waiters(l) = {}
    BY <2>1, ChainNull DEF Waiters
  <2> QED
    BY <1>2, <2>1
<1>4. k.head[l] \in Threads /\ k.head[l] \in Active(k')
  BY <1>1, <1>3, NotifyStep DEF event_notify, event_notifyISR
<1>5. k.head[l] \in Waits(q, puts)
  BY <1>2, <1>4, ChainStart DEF Waiters
<1>6. w = k.head[l]
  BY <1>5, OneWaits
<1> QED
  BY <1>4, <1>6 DEF Waits

LEMMA MoveQty ==
  ASSUME Rings, JobTypes, NEW t \in Threads, queue_move(t), NEW c, c = job[t].call
  PROVE  /\ ring'[c.q].qty = IF c.puts THEN ring[c.q].qty + 1 ELSE ring[c.q].qty - 1
         /\ ring[c.q].qty \in Nat
         /\ \A q \in Queues \ {c.q} : ring'[q] = ring[q]
<1>1. c.q \in Queues /\ ring[c.q].qty \in Nat /\ Sound(c.q, ring[c.q]) /\ IsRing(c.q, ring[c.q])
  <2>1. c.q \in Queues
    BY DEF queue_move, Doing, JobTypes, CallRecord
  <2> QED
    BY <2>1, QueueAssumption DEF Rings, RingsSound, Sound
<1>2. /\ ring' = [ring EXCEPT ![c.q] = IF c.puts THEN put(c.q, nextByte(t)) ELSE get(c.q)]
      /\ IF c.puts THEN ~ isFull(c.q) ELSE ~ isEmpty(c.q)
  BY DEF queue_move, stuck
<1>3. /\ ring'[c.q] = IF c.puts THEN put(c.q, nextByte(t)) ELSE get(c.q)
      /\ \A q \in Queues \ {c.q} : ring'[q] = ring[q]
  BY <1>1, <1>2 DEF Rings
<1>4. c.puts => put(c.q, nextByte(t)).qty = ring[c.q].qty + 1
  <2>1. 1 \in Nat \ {0}
    OBVIOUS
  <2> QED
    BY <1>1, <1>2, <2>1, PutAppends
<1>5. ~ c.puts => get(c.q).qty = ring[c.q].qty - 1
  <2>1. 1 \in Nat \ {0}
    OBVIOUS
  <2> QED
    BY <1>1, <1>2, <2>1, GetTakesFirst
<1> QED
  BY <1>1, <1>3, <1>4, <1>5

\* A byte that is moved leaves nobody waiting for a queue who did not.
LEMMA MoveInside ==
  ASSUME EventsApart, MutexFit(MutexPoints, QueueUses), JobTypes, Held, Stays, WaitsInside,
         NEW t \in Threads, queue_move(t)
  PROVE  /\ WaitsInside'
         /\ \A q \in Queues, puts \in BOOLEAN : Waits(q, puts)' \subseteq Waits(q, puts)
<1> PICK c : c = job[t].call
  OBVIOUS
<1>1. /\ c \in CallRecord /\ c.q \in Queues /\ c.puts \in BOOLEAN /\ t = k.running
      /\ job[t].at = "moving" /\ pc[t].at = "user" /\ pc = [u \in Threads |-> pc[u]]
  BY DEF queue_move, Doing, User, JobTypes, CallRecord, Held
<1>2. UNCHANGED pc \/ \E label : pc' = [pc EXCEPT ![t] = At(label)]
  BY DEF queue_move, event_notify, ResumeFromPriorList, ResumeAndReturn, Return, Leave, kernelVars
<1>3. In(pc'[t]) \cap SideEvents = {} /\ \A u \in Threads \ {t} : pc'[u] = pc[u]
  <2>1. In(pc[t]) = {}
    BY <1>1, MutexFitParts, UserPoint DEF User
  <2> QED
    BY <1>1, <1>2, <2>1, NotIn
<1>4. PICK j : /\ job' = [job EXCEPT ![t] = j] /\ j.call = c
               /\ j.at = IF lastMove(t) THEN "leaving" ELSE "moving"
               /\ j.done = IF c.str /\ ~ c.puts THEN 1 ELSE job[t].done + 1
               /\ job[t].done \in Nat
  BY MoveIs
<1>5. /\ job'[t] = j /\ \A u \in Threads \ {t} : job'[u] = job[u]
  BY <1>4 DEF Held
<1>6. WaitsInside'
  <2> SUFFICES ASSUME NEW u \in Threads, NEW q \in Queues, NEW puts \in BOOLEAN,
                      Ev(q, puts) \in In(pc'[u])
               PROVE  pc'[u] = pc[u] /\ job'[u] = job[u]
    BY DEF WaitsInside, Ev
  <2>1. Ev(q, puts) \in SideEvents
    BY DEF SideEvents
  <2> QED
    BY <1>3, <1>5, <2>1
<1>7. ASSUME NEW q \in Queues, NEW puts \in BOOLEAN
      PROVE  Waits(q, puts)' \subseteq Waits(q, puts)
  <2>1. Ev(q, puts) \in SideEvents
    BY DEF SideEvents
  <2> QED
    BY <1>1, <1>3, <2>1, CalmWaits
<1> QED
  BY <1>6, <1>7

\* A thread moves a byte.  When that is news to the other side it notifies it; when not,
\* it is in the middle of its call.
LEMMA MoveAwake ==
  ASSUME \A q \in Queues : Size[q] > 1, EventsApart, MutexFit(MutexPoints, QueueUses),
         MidCall, Stays, WaitsInside, Awake, NEW t \in Threads, queue_move(t)
  PROVE  WaitsInside' /\ Awake'
<1> PICK c : c = job[t].call
  OBVIOUS
<1>1. /\ c \in CallRecord /\ c.q \in Queues /\ c.puts \in BOOLEAN /\ t = k.running
      /\ job[t].at = "moving" /\ pc[t].at = "user" /\ pc = [u \in Threads |-> pc[u]]
      /\ ~ stuck(c) /\ UNCHANGED <<now, due>> /\ Size[c.q] \in Nat /\ Size[c.q] > 1
  BY QueueAssumption
     DEF queue_move, Doing, User, JobTypes, CallRecord, MidCall, Held, aboveKernel
<1>2. tells(c) = Ev(c.q, ~ c.puts) /\ (stuck(c) <=> Stuck(c.q, c.puts))
  BY <1>1 DEF tells, Ev, stuck, Stuck
<1>3. IF informs(t) THEN event_notify(t, Ev(c.q, ~ c.puts)) ELSE UNCHANGED kernelVars
  BY <1>2 DEF queue_move
<1>4. PICK j : /\ job' = [job EXCEPT ![t] = j] /\ j.call = c
               /\ j.at = IF lastMove(t) THEN "leaving" ELSE "moving"
               /\ j.done = IF c.str /\ ~ c.puts THEN 1 ELSE job[t].done + 1
               /\ job[t].done \in Nat
  BY MoveIs DEF MidCall
<1>5. /\ job'[t] = j /\ \A u \in Threads \ {t} : job'[u] = job[u]
  BY <1>4 DEF MidCall, Held
<1>6. WaitsInside' /\ \A q \in Queues, puts \in BOOLEAN : Waits(q, puts)' \subseteq Waits(q, puts)
  BY MoveInside DEF MidCall
<1>7. ASSUME NEW q \in Queues, NEW puts \in BOOLEAN
      PROVE  Waits(q, puts)' \subseteq Waits(q, puts)
  BY <1>6
<1>8. Waits(c.q, c.puts) = {} /\ Waits(c.q, c.puts)' = {}
  BY <1>1, <1>7, NoneBeside DEF MidCall
<1>9. (~ c.puts) \in BOOLEAN /\ ~ ~ c.puts = c.puts
  BY <1>1
<1>10. informs(t) => Waits(c.q, ~ c.puts)' = {}
  <2>1. Fit(MutexPoints, QueueUses)
    BY MutexFitParts
  <2> QED
    BY <1>1, <1>3, <1>7, <1>9, <2>1, NotifyEmpties DEF MidCall
<1>11. ASSUME ~ informs(t), Waits(c.q, ~ c.puts)' # {}
       PROVE  ~ Stuck(c.q, c.puts)' /\ Relieved(c.q, c.puts)'
  <2>1. Midway(t, c.q, c.puts)'
    <3>1. ~ lastMove(t)
      BY <1>11 DEF informs
    <3> QED
      BY <1>4, <1>5, <3>1 DEF Midway
  <2>2. Relieved(c.q, c.puts)'
    BY <1>8, <2>1 DEF Relieved
  <2> DEFINE stuckNext == IF c.puts THEN ring[c.q].qty + 1 >= Size[c.q] ELSE ring[c.q].qty = 1
  <2>3. /\ ring[c.q].qty \in Nat
        /\ ring'[c.q].qty = IF c.puts THEN ring[c.q].qty + 1 ELSE ring[c.q].qty - 1
    BY MoveQty DEF MidCall
  <2>4. ASSUME stuckNext PROVE FALSE
    <3>1. job[t].done = 0
      BY <1>11, <2>4 DEF informs
    <3>2. ~ Stuck(c.q, ~ c.puts)
      BY <1>1, <2>3, <2>4 DEF Stuck, isFull, isEmpty
    <3>3. Waits(c.q, ~ c.puts) # {}
      BY <1>1, <1>7, <1>9, <1>11
    <3>4. Relieved(c.q, c.puts)
      BY <1>1, <1>9, <3>2, <3>3 DEF Awake
    <3>5. PICK u \in Threads : Midway(u, c.q, c.puts)
      BY <3>4 DEF Relieved
    <3>6. u = t
      BY <1>1, <3>5, OnlyMidway DEF MidCall
    <3> QED
      BY <3>1, <3>5, <3>6 DEF Midway
  <2>5. ~ Stuck(c.q, c.puts)'
    BY <1>1, <1>2, <2>3, <2>4 DEF Stuck, isFull, isEmpty
  <2> QED
    BY <2>2, <2>5
<1>12. ASSUME NEW q \in Queues, q # c.q, NEW puts \in BOOLEAN
       PROVE  /\ Stuck(q, puts)' = Stuck(q, puts)
              /\ Relieved(q, puts) => Relieved(q, puts)'
  <2>1. ring'[q] = ring[q]
    BY <1>1, <1>12, MoveQty DEF MidCall
  <2>2. \A u \in Threads : Midway(u, q, puts) => Midway(u, q, puts)'
    <3>1. ASSUME NEW u \in Threads, Midway(u, q, puts) PROVE job'[u] = job[u]
      BY <1>5, <1>12, <3>1 DEF Midway
    <3> QED
      BY <3>1 DEF Midway
  <2> QED
    BY <1>7, <2>1, <2>2 DEF Stuck, isFull, isEmpty, Relieved
<1>13. Awake'
  <2> SUFFICES ASSUME NEW q \in Queues, NEW puts \in BOOLEAN, Waits(q, puts)' # {}
               PROVE  ~ Stuck(q, ~ puts)' /\ (~ Stuck(q, puts)' => Relieved(q, ~ puts)')
    BY DEF Awake
  <2>1. (~ puts) \in BOOLEAN
    OBVIOUS
  <2>2. CASE q # c.q
    <3>1. ~ Stuck(q, ~ puts) /\ (~ Stuck(q, puts) => Relieved(q, ~ puts))
      BY <1>7 DEF Awake
    <3> QED
      BY <1>12, <2>1, <2>2, <3>1
  <2>3. CASE q = c.q /\ puts = c.puts
    BY <1>8, <2>3
  <2>4. CASE q = c.q /\ puts # c.puts
    <3>1. puts = (~ c.puts) /\ (~ puts) = c.puts
      BY <1>1, <2>4
    <3> QED
      BY <1>10, <1>11, <2>4, <3>1
  <2> QED
    BY <2>2, <2>3, <2>4
<1> QED
  BY <1>6, <1>13

\* Who waits for a queue did so before, or begins it since the ring stops it.
LEMMA NextInside ==
  ASSUME EventsApart, MutexFit(MutexPoints, QueueUses), Below(MutexPoints), JobTypes, Held,
         AllBegun, WaitsInside, Stays, [QueueNext]_queueVars
  PROVE  /\ WaitsInside'
         /\ \A q \in Queues, puts \in BOOLEAN :
              Waits(q, puts)' \subseteq Waits(q, puts) \/ (Stuck(q, puts) /\ UNCHANGED ring)
<1>1. ASSUME NEW t \in Threads, queue_wait(t)
      PROVE  /\ WaitsInside'
             /\ \A q \in Queues, puts \in BOOLEAN :
                  Waits(q, puts)' \subseteq Waits(q, puts) \/ (Stuck(q, puts) /\ UNCHANGED ring)
  <2> PICK c : c = job[t].call
    OBVIOUS
  <2> QED
    BY <1>1, WaitInside
<1> QED
  BY <1>1, NextCalm, CalmInside, MoveInside

\* What keeps a side that waits from being left alone.
Attended ==
  /\ QueuesLinked /\ RingTypes /\ MidCall
  /\ WaitsInside /\ Awake

LEMMA InitAttended == QueueInit => Attended
<1> SUFFICES ASSUME QueueInit PROVE WaitsInside /\ Awake
  BY InitQueuesLinked, InitJobTypes, InitHeld, InitChannels, InitRings DEF Attended, MidCall
<1>1. \A t \in Threads : In(pc[t]) = {}
  BY DEF QueueInit, MutexInit, TimerInit, KernelInit, In, At
<1> QED
  BY <1>1 DEF WaitsInside, Awake, Waits

LEMMA NextAttended ==
  ASSUME QueuesApart, EventsApart, LeavesItsSide, \A q \in Queues : Size[q] > 1,
         Attended, [QueueNext]_queueVars
  PROVE  Attended'
<1>1. /\ QueuesLinked' /\ Stays /\ RingTypes' /\ MidCall'
  BY QueuesLinkedNext, NextJobTypes, NextHeld, NextBegun, NextRings DEF Attended, MidCall
<1>2. /\ Below(MutexPoints) /\ MutexFit(MutexPoints, QueueUses)
      /\ JobTypes /\ Held /\ AllBegun /\ WaitsInside /\ Awake
  BY <1>1, QueuesFit DEF Attended, QueuesLinked, MidCall
<1>3. WaitsInside' /\ Awake'
  BY <1>1, <1>2, NextCalm, CalmAwake, WaitAwake, MoveAwake DEF Attended
<1> QED
  BY <1>1, <1>3 DEF Attended

\* Nobody waits for a notification that will not come (queue.c:73, 113): the first byte
\* of a timed call is not told, and a notification wakes one thread, but that suffices
\* as long as a queue has more than one byte and every side an event of its own.
THEOREM NoSideIsStranded ==
  ASSUME QueuesApart, EventsApart, LeavesItsSide, \A q \in Queues : Size[q] > 1
  PROVE  QueueSpec => []NobodyStranded
<1>1. Attended => NobodyStranded
  <2> SUFFICES ASSUME Attended, NEW q \in Queues
               PROVE  /\ Waiters(Output[q]) # {} /\ ~ isFull(q) =>
                           \E u \in Threads \ Waiters(Input[q]) : Midway(u, q, FALSE)
                      /\ Waiters(Input[q]) # {} /\ ~ isEmpty(q) =>
                           \E u \in Threads \ Waiters(Output[q]) : Midway(u, q, TRUE)
    BY DEF NobodyStranded
  <2>1. Ev(q, TRUE) = Output[q] /\ Ev(q, FALSE) = Input[q]
    BY DEF Ev
  <2>2. Waiters(Output[q]) = Waits(q, TRUE) /\ Waiters(Input[q]) = Waits(q, FALSE)
    BY <2>1, WaitersAre DEF Attended, QueuesLinked
  <2>3. (Stuck(q, TRUE) <=> isFull(q)) /\ (Stuck(q, FALSE) <=> isEmpty(q))
    BY DEF Stuck
  <2>4. /\ Waits(q, TRUE) # {} /\ ~ Stuck(q, TRUE) => Relieved(q, FALSE)
        /\ Waits(q, FALSE) # {} /\ ~ Stuck(q, FALSE) => Relieved(q, TRUE)
    BY DEF Attended, Awake
  <2> QED
    BY <2>2, <2>3, <2>4 DEF Relieved
<1>2. QueueInit => Attended
  BY InitAttended
<1>3. Attended /\ [QueueNext]_queueVars => Attended'
  BY NextAttended
<1> QED
  BY <1>1, <1>2, <1>3, PTL DEF QueueSpec

=============================================================================
