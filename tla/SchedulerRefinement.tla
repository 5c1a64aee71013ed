------------------------- MODULE SchedulerRefinement -------------------------
(***************************************************************************)
(* The pointer-level scheduler implements the abstract one: a ready queue  *)
(* is the sequence that a walk from its first pointer along nextPr reads.  *)
(* The calls of tasks and timers are part of it.  The objects with lists   *)
(* of waiters are not: event_notifyAll and mutex_exit set all waiters      *)
(* ready and compare only the first of them with the running thread        *)
(* (anyRTOS.c:109-116), which is no step of the abstract scheduler when    *)
(* the first is not the highest.                                           *)
(***************************************************************************)
EXTENDS Kernel, Sequences

\* What a walk of a ready queue reads, cut at the number of threads, so that
\* a list that loops maps to a queue that holds some thread twice.
ReadySeq(p) ==
  LET size == Cardinality(Threads)
      walk[n \in 0 .. size] ==
        IF n = 0 THEN << >>
        ELSE LET s  == walk[n - 1]
                 th == IF n = 1 THEN k.first[p]
                       ELSE IF s = << >> THEN NULL ELSE k.nextPr[s[Len(s)]]
             IN  IF Len(s) < n - 1 \/ th = NULL THEN s ELSE Append(s, th)
  IN  walk[size]

Abs == INSTANCE AbstractScheduler WITH
  on    <- pc[Background].at # "boot",
  run   <- k.running,
  ready <- [p \in Priors |-> ReadySeq(p)],
  prior <- k.prior

\* The linked ready queues and the context switches of anyRTOS.c implement priority
\* scheduling with one FIFO queue per priority: every step is a step of the abstract
\* scheduler or changes nothing it sees, while threads yield, are suspended and resumed,
\* change their priority, wait for timers, and are woken by ticks and aborts.
ImplementsScheduler == Abs!Spec

=============================================================================
