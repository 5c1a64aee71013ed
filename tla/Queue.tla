-------------------------------- MODULE Queue --------------------------------
(***************************************************************************)
(* The byte queues of queue.c: a ring of bytes, a mutex and an event for   *)
(* the side that puts and the same for the side that gets.  A call enters  *)
(* the mutex of its side and a critical section, moves its bytes one by    *)
(* one, waits inside of both for the event of its side when it cannot go   *)
(* on, and notifies the event of the other side.                           *)
(*                                                                         *)
(* job[t] is the call thread t is inside of.  Between two kernel calls the *)
(* code runs with interrupts disabled and nobody else looks at the ring,   *)
(* so a byte and the notification that follows it are one step.            *)
(*                                                                         *)
(* The calls differ in few points, which a call record names: the side,    *)
(* how many bytes (or until the terminator of a string), the timer, and    *)
(* the number of bytes of the message that earlier calls put.              *)
(***************************************************************************)
EXTENDS Client

CONSTANTS
  Queues,           \* the queues
  Size,             \* Size[q]: the bytes of its memory
  Putting, Getting, \* the mutexes of each queue
  Input, Output,    \* the events of each queue
  Calls             \* Calls[t]: the calls thread t makes

\* What a call is made of: see call below.
CallRecord ==
  [q : Queues, puts : BOOLEAN, size : Nat, str : BOOLEAN, timer : TickLists \cup {NULL},
   from : Nat, exit : Mutexes]

ASSUME QueueAssumption ==
  /\ Calls \in [Threads -> SUBSET CallRecord]
  /\ Size \in [Queues -> Nat \ {0}]
  /\ Putting \in [Queues -> Mutexes] /\ Getting \in [Queues -> Mutexes]
  /\ Input \in [Queues -> Events] /\ Output \in [Queues -> Events]

VARIABLES
  ring,  \* ring[q]: the memory of a queue, first, last and qty
  job    \* job[t]: the call of t and how far it is

queueVars == <<mutexVars, ring, job>>

-----------------------------------------------------------------------------
(* The ring *)

queue_init(q) ==
  [data |-> [i \in 0 .. Size[q] - 1 |-> NULL], first |-> 0, last |-> 0, qty |-> 0]

\* Mutant: full one byte too late.
isFull_late(q) == ring[q].qty > Size[q]

isFull(q)  == ring[q].qty >= Size[q]
isEmpty(q) == ring[q].qty = 0

following(q, i) == IF i + 1 >= Size[q] THEN 0 ELSE i + 1

\* Mutant: writes one slot after the last byte.
put_shifted(q, byte) ==
  [ring[q] EXCEPT !.data[following(q, ring[q].last)] = byte,
                  !.last = following(q, @), !.qty = @ + 1]

\* The ring after a byte was put in it.
put(q, byte) ==
  [ring[q] EXCEPT !.data[ring[q].last] = byte,
                  !.last = following(q, @), !.qty = @ + 1]

\* The byte at the front, and the ring without it.
front(q) == ring[q].data[ring[q].first]

get(q) == [ring[q] EXCEPT !.first = following(q, @), !.qty = @ - 1]

\* The n-th byte of the ring r of q, from the front.
wrapped(q, i) == IF i >= Size[q] THEN i - Size[q] ELSE i
nth(q, r, n)  == r.data[wrapped(q, r.first + n - 1)]

-----------------------------------------------------------------------------
(* The calls.  A block has n bytes, a string n with its terminator; a string   *)
(* is got until its terminator.  The calls with no bytes return at once.       *)

call(q, puts, n, str, tm) ==
  [q |-> q, puts |-> puts, size |-> n, str |-> str, timer |-> tm, from |-> 0,
   exit |-> IF puts THEN Putting[q] ELSE Getting[q]]

queue_put(q, n)           == call(q, TRUE, n, FALSE, NULL)
queue_get(q, n)           == call(q, FALSE, n, FALSE, NULL)
queue_put8(q)             == call(q, TRUE, 1, FALSE, NULL)
queue_get8(q)             == call(q, FALSE, 1, FALSE, NULL)
queue_putStr(q, n)        == call(q, TRUE, n, TRUE, NULL)
queue_getStr(q)           == call(q, FALSE, 0, TRUE, NULL)
queueTimer_get(q, n, tm)  == call(q, FALSE, n, FALSE, tm)
queueTimer_put(q, n, tm)  == call(q, TRUE, n, FALSE, tm)
\* This one leaves the mutex of the other side.
queueTimer_put8(q, tm)    == [call(q, TRUE, 1, FALSE, tm) EXCEPT !.exit = Getting[q]]
queueTimer_get8(q, tm)    == call(q, FALSE, 1, FALSE, tm)
queueTimer_putStr(q, n, tm) == call(q, TRUE, n, TRUE, tm)
queueTimer_getStr(q, tm)  == call(q, FALSE, 0, TRUE, tm)

Idle == [at |-> "idle", call |-> NULL, done |-> 0]

\* The objects of the side of a call, the event it tells, and what stops it.
side(c)    == IF c.puts THEN Putting[c.q] ELSE Getting[c.q]
waitsAt(c) == IF c.puts THEN Output[c.q] ELSE Input[c.q]
tells(c)   == IF c.puts THEN Input[c.q] ELSE Output[c.q]
stuck(c)   == IF c.puts THEN isFull(c.q) ELSE isEmpty(c.q)

QueueInit ==
  /\ MutexInit
  /\ ring = [q \in Queues |-> queue_init(q)]
  /\ job = [t \in Threads |-> Idle]

\* t is inside a call, at a step of it, and runs.
Doing(t, step) == User(t) /\ job[t].at = step

\* A call enters its mutex: at once, or later in Returns or timed_entry.
queue_enter(t, c) ==
  /\ Doing(t, "idle")
  /\ IF c.timer = NULL
     THEN \/ mutex_enter_free(t, side(c), "mutex_enterCritical")
          \/ mutex_enter_wait(t, side(c), "mutex_enterCritical")
     ELSE \/ mutex_enter_free(t, side(c), "mutexTimer_enterCritical")
          \/ mutexTimer_enter_wait(t, side(c), c.timer, "mutexTimer_enterCritical")
  /\ job' = [job EXCEPT ![t] = [at |-> "moving", call |-> c, done |-> 0]]
  /\ UNCHANGED <<mutexOnly, ring>>

\* The timed entry returns; when it failed, so does the call.
timed_entry(t) ==
  /\ mutexTimer_return(t)
  /\ job' = [job EXCEPT ![t] = IF TimedEntry(t) THEN @ ELSE Idle]
  /\ UNCHANGED <<mutexOnly, ring>>

\* Only the first byte of a timed call is waited for with the timer.
queue_wait(t) ==
  LET c == job[t].call IN
  /\ Doing(t, "moving") /\ stuck(c)
  /\ IF c.timer # NULL /\ job[t].done = 0
     THEN eventTimer_wait(t, waitsAt(c), c.timer)
     ELSE event_wait(t, waitsAt(c)) /\ UNCHANGED mutexOnly
  /\ UNCHANGED <<timeOnly, ring, job>>

\* The timed wait returns; after a time-out the call moves nothing.
timed_wait(t) ==
  /\ job[t].at = "moving" /\ eventTimer_return(t)
  /\ job' = [job EXCEPT ![t].at = IF TimedResult(t) THEN "moving" ELSE "leaving"]
  /\ UNCHANGED <<timeOnly, ring>>

\* What t puts next: a byte that tells its message, its place and if it is 0.
nextByte(t) ==
  LET c == job[t].call
      i == job[t].done + 1
  IN  [by |-> t, i |-> c.from + i, nul |-> c.str /\ i = c.size]

\* Whether the byte t moves next is its last.
lastMove(t) ==
  LET c == job[t].call
  IN  IF c.str /\ ~ c.puts THEN front(c.q).nul ELSE job[t].done + 1 = c.size

\* Mutant: tells the other side at the end of the call only.
informs_end(t) == lastMove(t)

\* The other side is told at the end, and when the ring got full or empty, but
\* not after the first byte of a timed call.
informs(t) ==
  LET c == job[t].call
      r == ring[c.q]
      stuckNext == IF c.puts THEN r.qty + 1 >= Size[c.q] ELSE r.qty = 1
  IN  lastMove(t) \/ (stuckNext /\ ~ (c.timer # NULL /\ job[t].done = 0))

queue_move(t) ==
  LET c == job[t].call IN
  /\ Doing(t, "moving") /\ ~ stuck(c)
  /\ ring' = [ring EXCEPT ![c.q] = IF c.puts THEN put(c.q, nextByte(t)) ELSE get(c.q)]
  /\ job' = [job EXCEPT ![t].done = IF c.str /\ ~ c.puts THEN 1 ELSE @ + 1,
                        ![t].at = IF lastMove(t) THEN "leaving" ELSE @]
  /\ IF informs(t) THEN event_notify(t, tells(c)) ELSE UNCHANGED kernelVars
  /\ UNCHANGED aboveKernel

queue_leave(t) ==
  /\ Doing(t, "leaving")
  /\ mutex_exitCritical(t, job[t].call.exit)
  /\ job' = [job EXCEPT ![t] = Idle]
  /\ UNCHANGED <<mutexOnly, ring>>

\* What a thread does inside a call.
InCall(t) ==
  \/ Returns(t) /\ UNCHANGED <<ring, job>>
  \/ timed_entry(t)
  \/ queue_wait(t)
  \/ timed_wait(t)
  \/ queue_move(t)
  \/ queue_leave(t)

-----------------------------------------------------------------------------
(* The calls of interrupt routines, which yield when the queue advises it *)

\* event_notifyISR, and task_yieldISR when told to.
notifyISR(t, e) ==
  IF k.head[e] = NULL
  THEN InterruptsEnabled(t) /\ UNCHANGED kernelVars
  ELSE event_notifyISR(t, e)

\* A full queue gives QUEUE_ERROR and drops the byte.
queue_put8ISR(t, q, byte) ==
  /\ IF isFull(q)
     THEN InterruptsEnabled(t) /\ UNCHANGED <<kernelVars, ring>>
     ELSE notifyISR(t, Input[q]) /\ ring' = [ring EXCEPT ![q] = put(q, byte)]
  /\ UNCHANGED <<aboveKernel, job>>

queue_get8ISR(t, q) ==
  /\ ~ isEmpty(q) /\ notifyISR(t, Output[q])
  /\ ring' = [ring EXCEPT ![q] = get(q)]
  /\ UNCHANGED <<aboveKernel, job>>

\* Mutant: notifies only below the threshold.
queue_get8ThdISR_below(t, q, thd) ==
  /\ ~ isEmpty(q) /\ ring' = [ring EXCEPT ![q] = get(q)]
  /\ IF ring[q].qty - 1 < thd
     THEN notifyISR(t, Output[q])
     ELSE InterruptsEnabled(t) /\ UNCHANGED kernelVars
  /\ UNCHANGED <<aboveKernel, job>>

\* Notifies only when no more than thd bytes are left.
queue_get8ThdISR(t, q, thd) ==
  /\ ~ isEmpty(q) /\ ring' = [ring EXCEPT ![q] = get(q)]
  /\ IF ring[q].qty - 1 <= thd
     THEN notifyISR(t, Output[q])
     ELSE InterruptsEnabled(t) /\ UNCHANGED kernelVars
  /\ UNCHANGED <<aboveKernel, job>>

-----------------------------------------------------------------------------
(* Clients that call the queues in any order, and that between the calls     *)
(* set their time-outs and wait for events of other interrupts.              *)

OtherEvents == {e \in Events : \A q \in Queues : e \notin {Input[q], Output[q]}}

rest(t) ==
  /\ Doing(t, "idle") /\ \E e \in OtherEvents : event_wait(t, e)
  /\ UNCHANGED <<aboveKernel, ring, job>>

interrupt ==
  /\ \E t \in Threads, e \in OtherEvents : event_notifyISR(t, e)
  /\ UNCHANGED <<aboveKernel, ring, job>>

setTimeout(t) ==
  /\ Doing(t, "idle") /\ UNCHANGED <<timeOnly, ring, job>>
  /\ \E c \in Calls[t], d \in Delays :
       c.timer # NULL /\ task_setTimeout(t, c.timer, d)

tick ==
  /\ \E t \in Threads, tm \in TickLists : timer_tick(t, tm)
  /\ UNCHANGED <<timeOnly, ring, job>>

QueueNext ==
  \/ boot /\ UNCHANGED <<ring, job>>
  \/ tick
  \/ interrupt
  \/ \E t \in Threads :
       \/ InCall(t)
       \/ rest(t)
       \/ setTimeout(t)
       \/ \E c \in Calls[t] : queue_enter(t, c)

QueueSpec == QueueInit /\ [][QueueNext]_queueVars

-----------------------------------------------------------------------------
(* Properties *)

Bytes == [by : Threads \cup {NULL}, i : Nat, nul : BOOLEAN]

\* The indices of a ring agree with the number of its bytes.
Sound(q, r) ==
  /\ r.qty \in 0 .. Size[q] /\ r.first \in 0 .. Size[q] - 1
  /\ r.last = wrapped(q, r.first + r.qty)

RingsSound == \A q \in Queues : Sound(q, ring[q])

\* Types of the calls and the rings, whose indices agree.
QueueTypeOK ==
  /\ MutexTypeOK
  /\ RingsSound
  /\ \A q \in Queues : ring[q].data \in [0 .. Size[q] - 1 -> Bytes \cup {NULL}]
  /\ \A t \in Threads :
       /\ job[t].at \in {"idle", "moving", "leaving"}
       /\ job[t].at = "idle" <=> job[t] = Idle

\* A call of t is in the middle of its bytes.
Midway(t, q, puts) ==
  /\ job[t].at = "moving" /\ job[t].done > 0
  /\ job[t].call.q = q /\ job[t].call.puts = puts

\* Nobody waits for a notification that will not come (queue.c:73,113): a side
\* waits for its event only while the ring stops it, or while a call of the
\* other side is about to notify it.
NobodyStranded ==
  \A q \in Queues :
    /\ Waiters(Output[q]) # {} /\ ~ isFull(q) =>
         \E u \in Threads \ Waiters(Input[q]) : Midway(u, q, FALSE)
    /\ Waiters(Input[q]) # {} /\ ~ isEmpty(q) =>
         \E u \in Threads \ Waiters(Output[q]) : Midway(u, q, TRUE)

=============================================================================
