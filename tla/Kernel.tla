-------------------------------- MODULE Kernel --------------------------------
(***************************************************************************)
(* The scheduler and the task control of anyRTOS.c:49-243 on the single    *)
(* core of the port: one thread runs, the others wait in lists.            *)
(*                                                                         *)
(* The kernel protects itself by masking interrupts.  A call that does not *)
(* switch context is therefore one step, and a call that does is cut where *)
(* another context can run:                                                *)
(*                                                                         *)
(*    call ... _jump()      | eint()                | dint() ... return    *)
(*    one step, leaves the  | checkIRQ: pending     | one step, back in    *)
(*    thread at pc = label  | interrupts are served | the client's code    *)
(*                                                                         *)
(* pc[t] is where t goes on when it next gets the processor: "user" in the *)
(* client's code, else the call it is inside of.  sr[t] is the interrupt   *)
(* flag in the status register of t: the processor's own while t runs, the *)
(* copy in its context otherwise (portable_changeContext saves it with     *)
(* setjmp and restores it with longjmp).  An interrupt routine that yields *)
(* is one step; the reti of the routine a thread was preempted in is part  *)
(* of the step that runs the thread again, so sr keeps the value that reti *)
(* restores.                                                               *)
(***************************************************************************)
EXTENDS ThreadList

CONSTANTS
  Background,  \* _background: the thread that calls scheduler_run
  Prior,       \* the priority in the threadInfo_t of every other thread
  NewPriors,   \* the priorities clients pass to task_setPriority
  Suspenders,  \* the threads that call task_suspend
  MaxNest      \* BOUND: how deep clients nest task_enterCritical

ASSUME KernelAssumption ==
  /\ Background \in Threads
  /\ Prior \in [Threads \ {Background} -> 0 .. Lowest - 1]
  /\ NewPriors \subseteq 0 .. Lowest - 1
  /\ Suspenders \subseteq Threads \ {Background}
  /\ MaxNest \in Nat

VARIABLES
  k,         \* the memory of the lists and the running thread
  critical,  \* critical[t]: the depth of critical sections of t
  sr,        \* sr[t]: the interrupt flag of t
  pc         \* pc[t]: where t goes on, and the object it is using there

kernelVars == <<k, critical, sr, pc>>

At(label) == [at |-> label, on |-> NULL]

KernelPoints == {At(label) : label \in
                   {"new", "boot", "run", "user", "yield", "suspend"}}

\* scheduler_init: the background thread runs with interrupts disabled.
KernelInit ==
  /\ k = [running |-> Background,
          first   |-> [p \in Priors |-> NULL],
          last    |-> [p \in Priors |-> NULL],
          head    |-> [l \in Lists |-> NULL],
          nextPr  |-> [th \in Threads |-> NULL],
          nextTk  |-> [th \in Threads |-> NULL],
          prevPr  |-> [th \in Threads |-> NULL],
          prevTk  |-> [th \in Threads |-> NULL],
          prior   |-> [th \in Threads |-> IF th = Background THEN Lowest ELSE 0],
          tick    |-> [th \in Threads |-> 0]]
  /\ critical = [th \in Threads |-> IF th = Background THEN 1 ELSE 0]
  /\ sr = [th \in Threads |-> FALSE]
  /\ pc = [th \in Threads |-> IF th = Background THEN At("boot") ELSE At("new")]

-----------------------------------------------------------------------------
(* The internal functions of the scheduler, on the memory. *)

\* Change context to the highest priority ready thread.
jump(m) == [threadQueueArray_get(m) EXCEPT !.running = threadQueueArray_first(m)]

\* Mutant: forgets to set the running thread in the ready list.
yieldISR_unready(m) == jump(m)

\* Sets the running thread in the ready list and jumps.
yieldISR(m) == jump(threadQueueArray_put(m, m.running))

\* Mutant: compares the wrong way round.
preempts_inverted(m, th) == m.prior[th] > m.prior[m.running]

\* Puts a thread in its ready queue and yields if it has a higher priority.
preempts(m, th) == m.prior[th] < m.prior[m.running]
resume(m, th) ==
  LET q == threadQueueArray_put(m, th)
  IN  IF preempts(m, th) THEN yieldISR(q) ELSE q

-----------------------------------------------------------------------------
(* How a call changes the counter, the flag and the place of its thread. *)

\* t runs the client's code.
User(t) == k.running = t /\ pc[t].at = "user"

\* Mutant: _exitCritical enables interrupts without looking at the counter.
Return_enabled(t) ==
  /\ sr' = [sr EXCEPT ![t] = TRUE]
  /\ UNCHANGED <<critical, pc>>

\* _enterCritical ... _exitCritical with no context switch between them.
Return(t) ==
  /\ sr' = [sr EXCEPT ![t] = (critical[t] = 0)]
  /\ UNCHANGED <<critical, pc>>

\* Mutant: does not count the section of the call.
Leave_uncounted(t, point) ==
  /\ sr' = [sr EXCEPT ![t] = FALSE]
  /\ pc' = [pc EXCEPT ![t] = point]
  /\ UNCHANGED critical

\* _enterCritical, then a context switch that leaves t at a point of its call.
Leave(t, point) ==
  /\ critical' = [critical EXCEPT ![t] = @ + 1]
  /\ sr' = [sr EXCEPT ![t] = FALSE]
  /\ pc' = [pc EXCEPT ![t] = point]

\* _exitCritical at the end of a call that gave up the processor.
Finish(t) ==
  /\ critical' = [critical EXCEPT ![t] = @ - 1]
  /\ sr' = [sr EXCEPT ![t] = (critical[t] = 1)]
  /\ pc' = [pc EXCEPT ![t] = At("user")]

\* Calls _resume(th) in a critical section of its own, from the memory m.
ResumeAndReturn(t, m, th) ==
  /\ k' = resume(m, th)
  /\ IF preempts(m, th) THEN Leave(t, At("yield")) ELSE Return(t)

-----------------------------------------------------------------------------
(* Scheduler control *)

\* main adds its threads before it runs the scheduler.
scheduler_add(th) ==
  /\ pc[Background].at = "boot" /\ k.running = Background
  /\ pc[th].at = "new"
  /\ k' = threadQueueArray_put(thread_init(k, th, Prior[th]), th)
  /\ critical' = [critical EXCEPT ![th] = 0]
  /\ sr' = [sr EXCEPT ![th] = TRUE]              \* context->sr = GIE
  /\ pc' = [pc EXCEPT ![th] = At("user")]

scheduler_run ==
  /\ pc[Background].at = "boot" /\ k.running = Background
  /\ k' = yieldISR(k)
  /\ pc' = [pc EXCEPT ![Background] = At("run")]
  /\ UNCHANGED <<critical, sr>>

scheduler_run_return ==
  /\ k.running = Background /\ pc[Background].at = "run" /\ sr[Background]
  /\ critical' = [critical EXCEPT ![Background] = 0]
  /\ pc' = [pc EXCEPT ![Background] = At("user")]
  /\ UNCHANGED <<k, sr>>                         \* dint, then eint

\* The eint of _checkIRQ: until the dint, pending interrupts are served.
checkIRQ(t, labels) ==
  /\ k.running = t /\ pc[t].at \in labels /\ ~ sr[t]
  /\ sr' = [sr EXCEPT ![t] = TRUE]
  /\ UNCHANGED <<k, critical, pc>>

-----------------------------------------------------------------------------
(* Task control *)

task_enterCritical(t) ==
  /\ User(t) /\ critical[t] < MaxNest
  /\ critical' = [critical EXCEPT ![t] = @ + 1]
  /\ sr' = [sr EXCEPT ![t] = FALSE]
  /\ UNCHANGED <<k, pc>>

\* Mutant: enables interrupts when a nested section ends.
task_exitCritical_enabled(t) ==
  /\ User(t) /\ critical[t] > 0
  /\ critical' = [critical EXCEPT ![t] = @ - 1]
  /\ sr' = [sr EXCEPT ![t] = TRUE]
  /\ UNCHANGED <<k, pc>>

task_exitCritical(t) ==
  /\ User(t) /\ critical[t] > 0
  /\ critical' = [critical EXCEPT ![t] = @ - 1]
  /\ sr' = [sr EXCEPT ![t] = @ \/ critical[t] = 1]
  /\ UNCHANGED <<k, pc>>

task_setPriority(t, prior) ==
  /\ User(t) /\ t # Background
  /\ k' = [k EXCEPT !.prior[t] = prior]
  /\ Return(t)

task_yield(t) ==
  /\ User(t)
  /\ k' = yieldISR(k)
  /\ Leave(t, At("yield"))

\* The dint of _checkIRQ and the _exitCritical that follows every _yield.
yield_return(t) ==
  /\ k.running = t /\ pc[t].at = "yield" /\ sr[t]
  /\ Finish(t)
  /\ UNCHANGED k

\* The background thread never blocks: somebody must always be ready.
task_suspend(t) ==
  /\ User(t) /\ t \in Suspenders
  /\ k' = jump(k)
  /\ Leave(t, At("suspend"))

\* No _checkIRQ here, unlike every other call that switches.
suspend_return(t) ==
  /\ k.running = t /\ pc[t].at = "suspend"
  /\ Finish(t)
  /\ UNCHANGED k

\* The ready queue of a priority, as a set.
Ready(p) == Chain(k.nextPr, k.first[p])

\* What task.h asks of the argument of task_resume.
Suspended(th) ==
  /\ pc[th].at = "suspend" /\ th # k.running
  /\ \A p \in Priors : th \notin Ready(p)

task_resume(t, th) ==
  /\ User(t) /\ Suspended(th)
  /\ ResumeAndReturn(t, k, th)

\* An interrupt routine that ends in task_yieldISR preempts t.
InterruptsEnabled(t) == k.running = t /\ sr[t]

task_yieldISR(t) ==
  /\ InterruptsEnabled(t)
  /\ k' = yieldISR(k)
  /\ UNCHANGED <<critical, sr, pc>>

-----------------------------------------------------------------------------

\* The steps of the code of threads, and those of interrupt routines.
KernelThread ==
  \/ scheduler_run
  \/ scheduler_run_return
  \/ \E th \in Threads : scheduler_add(th)
  \/ \E t \in Threads :
       \/ checkIRQ(t, {"run", "yield"})
       \/ task_enterCritical(t)
       \/ task_exitCritical(t)
       \/ \E prior \in NewPriors : task_setPriority(t, prior)
       \/ task_yield(t)
       \/ yield_return(t)
       \/ task_suspend(t)
       \/ suspend_return(t)
       \/ \E th \in Threads : task_resume(t, th)

KernelInterrupt == \E t \in Threads : task_yieldISR(t)

KernelNext == KernelThread \/ KernelInterrupt

KernelSpec == KernelInit /\ [][KernelNext]_kernelVars

-----------------------------------------------------------------------------
(* Fairness for threads that cooperate: the thread that runs makes its      *)
(* pending call return, and calls task_yield again and again.               *)

Cooperate(t) ==
  \/ t = Background /\ (scheduler_run \/ scheduler_run_return)
  \/ checkIRQ(t, {"run", "yield"})
  \/ yield_return(t)
  \/ suspend_return(t)
  \/ task_yield(t)

CooperativeSpec == KernelSpec /\ \A t \in Threads : WF_kernelVars(Cooperate(t))

-----------------------------------------------------------------------------
(* Properties *)

\* Types: every pointer, address and counter of the kernel has its type.
KernelTypes ==
  /\ k \in Memory
  /\ critical \in [Threads -> Nat]
  /\ sr \in [Threads -> BOOLEAN]

KernelTypeOK == KernelTypes /\ pc \in [Threads -> KernelPoints]

\* Nobody jumps through a null context: whatever blocks, is resumed or yields,
\* in threads and interrupts, some thread is left to run (anyRTOS.c:66-69).
NeverJumpsToNull == k.running # NULL

\* The interrupt mask follows the critical sections (anyRTOS.c:145-153): the
\* running client has interrupts enabled exactly when it is in none, whatever
\* context switches its calls and the interrupts made in between, and
\* a thread inside a call always is in the section of that call.
InterruptMask ==
  \A t \in Threads :
    /\ User(t) => (sr[t] <=> critical[t] = 0)
    /\ pc[t].at \notin {"new", "user"} => critical[t] > 0

\* Where a thread is: the places that hold it (anyRTOS.c:44-47).
QueuesHolding(t) == {p \in Priors : t \in Ready(p)}

\* Every ready queue is a list that ends at its last pointer and holds threads
\* of its priority only (thread-list.h:348-457).
QueuesWellFormed ==
  \A p \in Priors :
    /\ Terminates(k.nextPr, k.first[p])
    /\ k.first[p] # NULL => k.last[p] \in Ready(p) /\ k.nextPr[k.last[p]] = NULL
    /\ \A t \in Ready(p) : k.prior[t] = p

\* t is in exactly one place: it runs, or is in the ready queue of its priority,
\* or is in the lists its call put it in, or has suspended itself (or is new).
\* held are the lists that hold t, waits those that its call put it in.
Accounted(t, held, waits) ==
  LET queues == QueuesHolding(t) IN
  \/ t = k.running /\ queues = {} /\ held = {}
  \/ t # k.running /\ queues = {k.prior[t]} /\ held = {}
  \/ t # k.running /\ queues = {} /\ held = {} /\ pc[t].at \in {"suspend", "new"}
  \/ t # k.running /\ queues = {} /\ held # {} /\ held = waits

\* No thread is lost and none is twice in the system, whatever the order of
\* yields, suspensions, resumptions and preemptions (anyRTOS.c:65-93).
NoThreadLost == QueuesWellFormed /\ \A t \in Threads : Accounted(t, {}, {})

\* Preemptive priority scheduling (scheduler.h, task.h:66): once the scheduler
\* runs, no ready thread has a higher priority than the running one.
PreemptivePriority ==
  pc[Background].at # "boot" =>
    \A p \in ReadyPriors(k) : k.prior[k.running] <= p

\* A critical section of a client is left alone (task.h:33-38): while a thread
\* is in client code inside one, nested or not, it loses the processor only by
\* a call it makes itself, never by an interrupt.
ClientSectionHeld ==
  [][\A t \in Threads :
       User(t) /\ critical[t] > 0 /\ k'.running # t => pc'[t].at # "user"]_kernelVars

\* Threads of equal priority take turns (task.h:66): among cooperating threads,
\* a ready thread eventually gets the processor, or one above it does.
TakesTurns ==
  \A t \in Threads \ {Background} :
    (\E p \in Priors : t \in Ready(p))
      ~> (k.running = t \/ k.prior[k.running] < k.prior[t])

=============================================================================
