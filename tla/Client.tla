-------------------------------- MODULE Client --------------------------------
(***************************************************************************)
(* What the code above the kernel shares: how main starts its threads, and *)
(* the second halves of the kernel calls.  A module of that code gives     *)
(* every thread a variable that says which of its own statements comes     *)
(* next.  A statement is a kernel call, guarded by that variable, together *)
(* with the code up to the next call; it happens when the thread runs its  *)
(* own code, User(t), and what the kernel still has to do in a call comes  *)
(* between, as Returns(t).                                                 *)
(***************************************************************************)
EXTENDS Mutex

\* The parts of the memory that the calls of a layer leave alone.
mutexOnly == <<now, due>>
timeOnly  == <<busy, inside>>
aboveKernel == <<now, due, busy, inside>>

\* main adds all its threads, in any order, and runs the scheduler.
boot ==
  /\ \/ \E th \in Threads : scheduler_add(th)
     \/ (\A th \in Threads : pc[th].at # "new") /\ scheduler_run
     \/ scheduler_run_return
  /\ UNCHANGED aboveKernel

\* The second half of a call of t that returns nothing.
Returns(t) ==
  \/ /\ \/ checkIRQ(t, {"run", "yield", "event_wait"} \cup EnterLabels \cup TimerLabels)
        \/ yield_return(t)
        \/ event_wait_return(t)
     /\ UNCHANGED aboveKernel
  \/ timer_return(t) /\ UNCHANGED timeOnly
  \/ mutex_enter_retry(t) /\ UNCHANGED mutexOnly

\* An interrupt routine that calls event_notify, not event_notifyISR: when it
\* yields, it does so inside of the routine, and t ends the routine when it gets
\* the processor.
notifyInISR(t, e) ==
  /\ InterruptsEnabled(t) /\ k.head[e] # NULL
  /\ k' = resume(priorList_get(k, e), k.head[e])
  /\ IF preempts(k, k.head[e])
     THEN Leave(t, [at |-> "isr", on |-> NULL, back |-> pc[t]])
     ELSE UNCHANGED <<critical, sr, pc>>

notifyInISR_end(t) ==
  /\ k.running = t /\ pc[t].at = "isr" /\ sr[t]
  /\ critical' = [critical EXCEPT ![t] = @ - 1]
  /\ pc' = [pc EXCEPT ![t] = pc[t].back]
  /\ UNCHANGED <<k, sr>>

=============================================================================
