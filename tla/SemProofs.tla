------------------------------ MODULE SemProofs ------------------------------
(***************************************************************************)
(* Semaphores, for every set of threads, semaphores and timers: what       *)
(* KernelProofs and ListProofs show of the calls below, for those of a     *)
(* semaphore.  Interrupt routines that are interrupted before they yield,  *)
(* too, leave somebody to run and the lists whole, and no signal is lost.  *)
(***************************************************************************)
EXTENDS Sem, ListProofs

\* The points of the semaphore calls, among those of a layer.
SemEntryPoints(P) ==
  /\ Timed(P) /\ SemPoints \subseteq P
  /\ \A x \in P : x.at \in {"sem_wait", "semTimer_wait"} => x.on \in Sems

SemTypes ==
  /\ state \in [Sems -> {"RED", "GREEN"}]
  /\ frame \in [Threads -> {"none", "end", "yield"}]

LEMMA TurnTypes ==
  ASSUME SemTypes, NEW s, NEW colour \in {"RED", "GREEN"}, turn(s, colour), UNCHANGED frame
  PROVE  SemTypes'
BY DEF SemTypes, turn

-----------------------------------------------------------------------------
(* The interrupt mask *)

LEMMA SemMask ==
  ASSUME Mask, NEW t \in Threads,
         \/ sem_wait_return(t) \/ semTimer_return(t) \/ isr_end(t)
         \/ \E s : \/ sem_wait_green(t, s) \/ sem_wait_red(t, s)
                   \/ sem_signal(t, s) \/ sem_signalISR(t, s)
                   \/ \E tm : semTimer_wait_red(t, s, tm)
  PROVE  Mask'
<1>1. CASE sem_wait_return(t) \/ semTimer_return(t)
  BY <1>1, FinishMask DEF sem_wait_return, semTimer_return
<1>2. ASSUME NEW s, sem_signal(t, s) PROVE Mask'
  BY <1>2, ReturnMask, ResumeMask DEF sem_signal, ResumeFromPriorList, User
<1>3. ASSUME NEW s, isr_end(t) \/ sem_signalISR(t, s) PROVE Mask'
  BY <1>3, SameMask DEF isr_end, sem_signalISR
<1> QED
  BY <1>1, <1>2, <1>3, LeaveMask, ReturnMask
     DEF isr_end, sem_wait_green, sem_wait_red, semTimer_wait_red, User, sem_signalISR

LEMMA NextSemMask == Mask /\ [SemNext]_semVars => Mask'
<1> SUFFICES ASSUME Mask, [SemNext]_semVars PROVE Mask'
  OBVIOUS
<1>1. CASE TimerNext
  BY <1>1, TimerMask
<1>2. ASSUME NEW t \in Threads, checkIRQ(t, {"sem_wait"}) PROVE Mask'
  BY <1>2, OpenMask
<1>3. CASE UNCHANGED semVars
  BY <1>3, SameMask DEF semVars
<1> QED
  BY <1>1, <1>2, <1>3, SemMask DEF SemNext, SemThread, SemInterrupt, TimerNext

-----------------------------------------------------------------------------
(* Types *)

LEMMA SemWaitLayer ==
  ASSUME NEW P, SemEntryPoints(P), Layer(P), SemTypes, UNCHANGED <<now, due, frame>>,
         NEW t \in Threads, NEW s \in Sems,
         \/ sem_wait_green(t, s) \/ sem_wait_red(t, s)
         \/ \E tm \in TickLists : semTimer_wait_red(t, s, tm)
  PROVE  Layer(P)' /\ SemTypes'
<1>1. /\ KernelPoints \subseteq P /\ s \in PriorLists /\ Fenced(k)
  BY SemAssumption DEF SemEntryPoints, Timed, TimerPoints, EventPoints, Layer
<1>2. CASE sem_wait_green(t, s)
  BY <1>1, <1>2, CalmLayer, CallMoved, TurnTypes DEF sem_wait_green
<1>3. CASE sem_wait_red(t, s)
  <2>1. /\ t \in Threads \ {Background} /\ k.running = t
        /\ Leave(t, Inside("sem_wait", s)) /\ k' = waitInPriorList(k, s) /\ UNCHANGED state
    BY <1>3, SemAssumption DEF sem_wait_red, User
  <2>2. Inside("sem_wait", s) \in P /\ Inside("sem_wait", s).at # "new"
    BY DEF SemEntryPoints, SemPoints, Inside
  <2>3. Moved(P)
    BY <2>1, <2>2, LeaveMoved
  <2> QED
    BY <1>1, <2>1, <2>3, WaitLayer DEF SemTypes
<1>4. ASSUME NEW tm \in TickLists, semTimer_wait_red(t, s, tm)
      PROVE  Layer(P)' /\ SemTypes'
  <2> DEFINE p == [at |-> "semTimer_wait", on |-> s, timer |-> tm]
  <2>1. /\ t \in Threads \ {Background} /\ k.running = t /\ Leave(t, p) /\ UNCHANGED state
        /\ k' = jump(tickList_put(priorList_put(k, s, t), tm, t))
    BY <1>4, SemAssumption DEF semTimer_wait_red, User
  <2>2. p \in P /\ p.at # "new"
    BY DEF SemEntryPoints, SemPoints
  <2> HIDE DEF p
  <2>3. Moved(P)
    BY <2>1, <2>2, LeaveMoved
  <2> QED
    BY <1>1, <2>1, <2>3, BothListsLayer DEF SemTypes
<1> QED
  BY <1>2, <1>3, <1>4

LEMMA SemReturnLayer ==
  ASSUME NEW P, SemEntryPoints(P), Layer(P), SemTypes, UNCHANGED <<now, due, frame>>,
         NEW t \in Threads, sem_wait_return(t) \/ semTimer_return(t)
  PROVE  Layer(P)' /\ SemTypes'
<1>1. KernelPoints \subseteq P /\ Fenced(k)
  BY DEF SemEntryPoints, Timed, TimerPoints, EventPoints, Layer
<1>2. UNCHANGED k /\ Finish(t) /\ (turn(pc[t].on, "RED") \/ UNCHANGED state)
  BY DEF sem_wait_return, semTimer_return
<1>3. SemTypes'
  BY <1>2, TurnTypes DEF SemTypes
<1> QED
  BY <1>1, <1>2, <1>3, CalmLayer, CallMoved

\* The routine wakes the first thread, and yields at once or when it ends.
LEMMA SignalISRLayer ==
  ASSUME NEW P, SemEntryPoints(P), Layer(P), SemTypes, UNCHANGED <<now, due>>,
         NEW t \in Threads, NEW s \in Sems, sem_signalISR(t, s)
  PROVE  Layer(P)' /\ SemTypes'
<1> DEFINE th    == k.head[s]
           m     == priorList_get(k, s)
           woken == IF th = NULL THEN k ELSE threadQueueArray_put(m, th)
<1>1. s \in PriorLists /\ Fenced(k)
  BY SemAssumption DEF Layer
<1>2. Fenced(woken) /\ woken.tick = k.tick
  <2>1. CASE th = NULL
    BY <1>1, <2>1
  <2>2. CASE th # NULL
    <3>1. Fenced(m) /\ SameRunners(k, m) /\ th \in Threads \ {Background}
      BY <1>1, <2>2, priorListGetFenced
    <3>2. woken = threadQueueArray_put(m, th)
      BY <2>2
    <3> HIDE DEF m, th, woken
    <3> QED
      BY <3>1, <3>2, PutFenced DEF SameRunners, SameElsewhere
  <2> QED
    BY <2>1, <2>2
<1>3. k' = woken \/ k' = yieldISR(woken)
  BY DEF sem_signalISR
<1>4. /\ UNCHANGED pc /\ turn(s, "GREEN")
      /\ frame' = frame \/ \E f \in {"yield", "end"} : frame' = [frame EXCEPT ![t] = f]
  BY DEF sem_signalISR
<1> HIDE DEF woken
<1>5. Fenced(k') /\ k'.tick = k.tick
  BY <1>2, <1>3, YieldFenced DEF SameElsewhere
<1>6. SemTypes'
  BY <1>4 DEF turn, SemTypes
<1> QED
  BY <1>4, <1>5, <1>6, CalmLayer DEF Moved

LEMMA IsrEndLayer ==
  ASSUME NEW P, Layer(P), SemTypes, UNCHANGED <<now, due>>, NEW t \in Threads, isr_end(t)
  PROVE  Layer(P)' /\ SemTypes'
<1>1. Layer(P)'
  BY YieldISRLayer, CalmLayer DEF isr_end, Layer, Moved
<1> QED
  BY <1>1 DEF isr_end, SemTypes

LEMMA SemLayer ==
  ASSUME NEW P, SemEntryPoints(P), Layer(P), SemTypes, SemNext
  PROVE  Layer(P)' /\ SemTypes'
<1>1. KernelPoints \subseteq P /\ Sems \subseteq PriorLists
  BY SemAssumption DEF SemEntryPoints, Timed, TimerPoints, EventPoints
<1>2. CASE TimerNext /\ UNCHANGED <<state, frame>>
  BY <1>2, TimerLayer DEF SemEntryPoints, SemTypes
<1>3. ASSUME NEW t \in Threads, checkIRQ(t, {"sem_wait"}), UNCHANGED <<now, due, state, frame>>
      PROVE  Layer(P)' /\ SemTypes'
  BY <1>3, OpenLayer DEF SemTypes
<1>4. ASSUME NEW t \in Threads, NEW s \in Sems, sem_signal(t, s), UNCHANGED <<now, due, frame>>
      PROVE  Layer(P)' /\ SemTypes'
  BY <1>1, <1>4, FromPriorListLayer, TurnTypes DEF sem_signal
<1> QED
  BY <1>2, <1>3, <1>4, SemWaitLayer, SemReturnLayer, SignalISRLayer, IsrEndLayer
     DEF SemNext, SemThread, SemInterrupt, TimerNext

LEMMA SemPointsEntry == SemEntryPoints(SemPoints)
BY DEF SemEntryPoints, SemPoints, Timed, TimerPoints, EventPoints, KernelPoints, At, Inside,
       TimerLabels

LEMMA SemInvariant == SemSpec => [](Layer(SemPoints) /\ Mask /\ SemTypes)
<1>1. SemInit => Layer(SemPoints) /\ Mask /\ SemTypes
  BY InitLayer, InitMask, SemPointsEntry DEF SemEntryPoints, SemInit, TimerInit, SemTypes
<1>2. /\ Layer(SemPoints) /\ Mask /\ SemTypes /\ [SemNext]_semVars
      => (Layer(SemPoints) /\ Mask /\ SemTypes)'
  <2> SUFFICES ASSUME Layer(SemPoints), Mask, SemTypes, [SemNext]_semVars
               PROVE  Layer(SemPoints)' /\ Mask' /\ SemTypes'
    OBVIOUS
  <2>1. Mask'
    BY NextSemMask
  <2>2. CASE SemNext
    BY <2>1, <2>2, SemLayer, SemPointsEntry
  <2>3. CASE UNCHANGED semVars
    BY <2>1, <2>3 DEF semVars, Layer, SemTypes
  <2> QED
    BY <2>2, <2>3
<1> QED
  BY <1>1, <1>2, PTL DEF SemSpec

\* Whoever waits, signals, or signals from an interrupt routine that another one
\* interrupts before it yields: the memory of the lists and the semaphores keep
\* their types (anyRTOS.c:436-473, 538-554).
THEOREM SemTypesCorrect == SemSpec => []SemTypeOK
<1>1. Layer(SemPoints) /\ Mask /\ SemTypes => SemTypeOK
  BY LayerTypes DEF SemTypeOK, SemTypes
<1> QED
  BY <1>1, SemInvariant, PTL

-----------------------------------------------------------------------------
(* Lists *)

\* What the clients of semaphores wait for, besides those of the layers below.
SemUses ==
  TimerUses \cup {<<u[1], {u[2]}>> : u \in SemUsers}
            \cup {<<u[1], {u[2], u[3]}>> : u \in TimedSems}

\* Who has timed waits shares no list with anybody, and who waits in prior lists has
\* its priority for itself.
SemsApart == Apart(SemUses) /\ Abortable \subseteq TimerLabels

\* Who waits at a green semaphore is behind one that was woken and has not passed.
Signal(s) ==
  state[s] = "GREEN" /\ (\E w \in Threads \ Active(k) : s \in In(pc[w])) =>
    \E t \in Active(k) : s \in In(pc[t])
Signals == \A s \in Sems : Signal(s)

\* A ready thread has a higher priority only while a routine is to yield for it.
Prompted ==
  Meek /\ pc[Background].at # "boot" /\ frame[k.running] # "yield" => Highest(k)

SemKnit  == Layer(SemPoints) /\ SemTypes /\ Knit(SemUses) /\ Signals /\ Prompted
SemSteps == Knit(SemUses)' /\ Signals' /\ Prompted'

LEMMA SemPointsSeated == Seated(SemPoints)
<1>1. \A p \in [at : {"sem_wait"}, on : Sems] :
        p.at = "sem_wait" /\ In(p) = {p.on} /\ p.on \in Sems /\ "timer" \notin DOMAIN p
  BY SemAssumption, ListAssumption DEF In
<1>2. \A p \in [at : {"semTimer_wait"}, on : Sems, timer : TickLists] :
        p.at = "semTimer_wait" /\ In(p) = {p.on, p.timer} /\ p.on \in Sems /\ p.timer \in TickLists
  BY DEF In
<1>3. Sems \subseteq PriorLists /\ PriorLists \subseteq Lists /\ TickLists \subseteq Lists
  BY SemAssumption DEF Lists
<1>4. Timed(SemPoints)
  BY SemPointsEntry DEF SemEntryPoints
<1>5. ASSUME NEW p \in SemPoints
      PROVE  /\ In(p) \subseteq Lists
             /\ p.at \in Home \cup {"new", "suspend"} => In(p) = {}
             /\ p.at \in {"event_wait", "eventTimer_wait"} \cup TimerLabels => In(p) \subseteq Events \cup TickLists
             /\ p.at \in TimerLabels => In(p) = {p.on}
             /\ "timer" \in DOMAIN p => p.on \in PriorLists /\ p.timer \in TickLists
  <2>1. CASE p \in TimerPoints
    BY <2>1, TimerPointsSeated DEF Seated
  <2>2. CASE p \in [at : {"sem_wait"}, on : Sems]
    BY <1>1, <1>3, <2>2 DEF Home, TimerLabels
  <2>3. CASE p \in [at : {"semTimer_wait"}, on : Sems, timer : TickLists]
    BY <1>2, <1>3, <2>3 DEF Home, TimerLabels
  <2> QED
    BY <2>1, <2>2, <2>3 DEF SemPoints
<1> QED
  BY <1>4, <1>5 DEF Seated

LEMMA AsideSignal ==
  ASSUME NEW M, NEW s \in M, Signal(s), Aside(M), state'[s] = state[s]
  PROVE  Signal(s)'
<1> SUFFICES ASSUME state'[s] = "GREEN", NEW w \in Threads \ Active(k'), s \in In(pc'[w])
             PROVE  \E t \in Active(k') : s \in In(pc'[t])
  BY DEF Signal
<1>1. w \notin Active(k) /\ s \in In(pc[w])
  BY DEF Aside
<1>2. PICK t \in Active(k) : s \in In(pc[t])
  BY <1>1 DEF Signal
<1>3. t \in Threads
  BY <1>2 DEF Active
<1>4. t \in Active(k') /\ s \in In(pc'[t])
  BY <1>2, <1>3 DEF Aside
<1> QED
  BY <1>4

\* A step that is about the semaphores of O at most.
LEMMA AsideSignals ==
  ASSUME Signals, NEW O, Aside(Sems \ O), \A s \in Sems \ O : state'[s] = state[s],
         \A s \in O \cap Sems : Signal(s)'
  PROVE  Signals'
<1>1. ASSUME NEW s \in Sems \ O PROVE Signal(s)'
  BY <1>1, AsideSignal DEF Signals
<1> QED
  BY <1>1 DEF Signals

LEMMA StillPrompted ==
  ASSUME Prompted, Preempts, UNCHANGED frame
  PROVE  Prompted'
BY DEF Prompted, Preempts, Ordered

\* What a step has, and what is known of the layer.
LEMMA SemFit ==
  ASSUME SemsApart, SemKnit, Layer(SemPoints)'
  PROVE  /\ Fit(SemPoints, SemUses) /\ TimerUses \subseteq SemUses
         /\ \A O : Above(Sems \ O)
         /\ Sems \subseteq PriorLists /\ Sems \subseteq Lists
<1>1. Sems \cap (Events \cup TickLists) = {} /\ Sems \subseteq PriorLists
  BY SemAssumption, ListAssumption
<1> QED
  BY <1>1, SemPointsSeated DEF Fit, SemsApart, SemKnit, SemUses, Above, Lists

-----------------------------------------------------------------------------
(* The calls *)

LEMMA SemBelowStep ==
  ASSUME SemsApart, SemKnit, Layer(SemPoints)', UNCHANGED <<state, frame>>,
         \/ TimerNext
         \/ UNCHANGED <<now, due>> /\ \E t \in Threads : checkIRQ(t, {"sem_wait"})
         \/ UNCHANGED <<k, pc, now, due>>
  PROVE  SemSteps
<1>1. Fit(SemPoints, SemUses) /\ TimerUses \subseteq SemUses /\ Above(Sems \ {})
  BY SemFit
<1>2. Steps(SemUses, Sems \ {})
  BY <1>1, TimerStep, OpenStep, StutterStep DEF SemsApart
<1>3. Signals'
  BY <1>2, AsideSignals DEF SemKnit, Steps
<1> QED
  BY <1>2, <1>3, StillPrompted DEF SemSteps, Steps, SemKnit

\* A call that turns the semaphore red, or finds it red.
LEMMA RedStep ==
  ASSUME SemKnit, NEW s \in Sems, Knit(SemUses)', Aside(Sems \ {s}), Preempts, UNCHANGED frame,
         turn(s, "RED") \/ (UNCHANGED state /\ state[s] = "RED")
  PROVE  SemSteps
<1>1. state \in [Sems -> {"RED", "GREEN"}]
  BY DEF SemKnit, SemTypes
<1>2. state'[s] = "RED" /\ \A o \in Sems \ {s} : state'[o] = state[o]
  BY <1>1 DEF turn
<1>3. Signals'
  BY <1>2, AsideSignals DEF SemKnit, Signal
<1> QED
  BY <1>3, StillPrompted DEF SemSteps, SemKnit

LEMMA SemWaitStep ==
  ASSUME SemsApart, SemKnit, Layer(SemPoints)', UNCHANGED <<now, due, frame>>,
         NEW t \in Threads, NEW s \in Sems,
         sem_wait_green(t, s) \/ sem_wait_red(t, s)
  PROVE  SemSteps
<1>1. Fit(SemPoints, SemUses) /\ s \in PriorLists /\ s \in Lists
  BY SemFit
<1>2. CASE sem_wait_green(t, s)
  <2>1. UNCHANGED k /\ Passes(SemPoints, Sems \ {s}) /\ turn(s, "RED")
    BY <1>1, <1>2, UserMoves DEF sem_wait_green
  <2>2. Steps(SemUses, Sems \ {s})
    BY <1>1, <2>1, StillStep
  <2> QED
    BY <2>1, <2>2, RedStep DEF Steps
<1>3. CASE sem_wait_red(t, s)
  <2> DEFINE p == Inside("sem_wait", s)
  <2>1. /\ User(t) /\ t = k.running /\ t # Background /\ In(pc[t]) = {} /\ <<t, s>> \in SemUsers
        /\ k' = waitInPriorList(k, s) /\ pc' = [pc EXCEPT ![t] = p]
        /\ UNCHANGED state /\ state[s] = "RED"
    BY <1>1, <1>3, UserPoint, SemAssumption DEF sem_wait_red, Leave
  <2>2. p \in SemPoints /\ p.at # "new" /\ In(p) = {s}
    BY <1>1, InsideIn DEF SemPoints, Inside
  <2>3. <<t, {s}>> \in SemUses
    <3>1. <<t, s>>[1] = t /\ <<t, s>>[2] = s
      OBVIOUS
    <3>2. <<t, {s}>> \in {<<u[1], {u[2]}>> : u \in SemUsers}
      BY <2>1, <3>1
    <3> QED
      BY <3>2 DEF SemUses
  <2>4. (In(pc[t]) \cup In(p)) \cap (Sems \ {s}) = {}
    BY <2>1, <2>2
  <2> HIDE DEF p
  <2>5. Blocks(SemUses, Sems \ {s}, t, p)
    BY <1>1, <2>1, <2>2, <2>3, WaitStep
  <2> QED
    BY <2>1, <2>4, <2>5, RedStep DEF Blocks
<1> QED
  BY <1>2, <1>3

LEMMA SemTimedStep ==
  ASSUME SemsApart, SemKnit, Layer(SemPoints)', UNCHANGED <<now, due, frame>>,
         NEW t \in Threads, NEW s \in Sems, NEW tm \in TickLists, semTimer_wait_red(t, s, tm)
  PROVE  SemSteps
<1> DEFINE p == [at |-> "semTimer_wait", on |-> s, timer |-> tm]
<1>1. Fit(SemPoints, SemUses) /\ s \in PriorLists /\ s \in Lists
  BY SemFit
<1>2. /\ User(t) /\ t = k.running /\ t # Background /\ In(pc[t]) = {} /\ <<t, s, tm>> \in TimedSems
      /\ k' = jump(tickList_put(priorList_put(k, s, t), tm, t)) /\ pc' = [pc EXCEPT ![t] = p]
      /\ InWindow(due[t], tm) /\ UNCHANGED state /\ state[s] = "RED"
  BY <1>1, UserPoint, SemAssumption DEF semTimer_wait_red, Leave
<1>3. p \in SemPoints /\ p.at # "new" /\ p.on = s /\ "timer" \in DOMAIN p /\ p.timer = tm
  BY DEF SemPoints
<1>4. <<t, {s, tm}>> \in SemUses
  <2>1. <<t, s, tm>>[1] = t /\ <<t, s, tm>>[2] = s /\ <<t, s, tm>>[3] = tm
    OBVIOUS
  <2>2. <<t, {s, tm}>> \in {<<u[1], {u[2], u[3]}>> : u \in TimedSems}
    BY <1>2, <2>1
  <2> QED
    BY <2>2 DEF SemUses
<1>5. (In(pc[t]) \cup In(p)) \cap (Sems \ {s}) = {}
  BY <1>2, <1>3, SemAssumption, ListAssumption DEF In
<1> HIDE DEF p
<1>6. Blocks(SemUses, Sems \ {s}, t, p)
  BY <1>1, <1>2, <1>3, <1>4, BothStep
<1> QED
  BY <1>2, <1>5, <1>6, RedStep DEF Blocks

LEMMA SemCallPoints ==
  ASSUME NEW p \in SemPoints
  PROVE  /\ p.at = "sem_wait" => p \in [at : {"sem_wait"}, on : Sems]
         /\ p.at = "semTimer_wait" => p \in [at : {"semTimer_wait"}, on : Sems, timer : TickLists]
<1>1. ASSUME p \in TimerPoints PROVE p.at \notin {"sem_wait", "semTimer_wait"}
  BY <1>1 DEF TimerPoints, EventPoints, KernelPoints, At, Inside, TimerLabels
<1>2. p.at = "sem_wait" => p \notin [at : {"semTimer_wait"}, on : Sems, timer : TickLists]
  OBVIOUS
<1>3. p.at = "semTimer_wait" => p \notin [at : {"sem_wait"}, on : Sems]
  OBVIOUS
<1> QED
  BY <1>1, <1>2, <1>3 DEF SemPoints

LEMMA SemReturnStep ==
  ASSUME SemsApart, SemKnit, Layer(SemPoints)', UNCHANGED <<now, due, frame>>,
         NEW t \in Threads, sem_wait_return(t) \/ semTimer_return(t), NEW s, s = pc[t].on
  PROVE  SemSteps
<1>1. /\ Fit(SemPoints, SemUses) /\ pc[t] \in SemPoints /\ t \in Active(k) /\ t = k.running
      /\ Finish(t) /\ UNCHANGED <<k, now, due>> /\ pc[t].at \in {"sem_wait", "semTimer_wait"}
  BY SemFit, FitParts DEF sem_wait_return, semTimer_return
<1>2. s \in Sems
  BY <1>1, SemPointsEntry DEF SemEntryPoints
<1>3. In(pc[t]) \cap (Sems \ {s}) = {} /\ pc[t].at # "boot"
  <2>1. pc[t] \in [at : {"sem_wait"}, on : Sems]
          \/ pc[t] \in [at : {"semTimer_wait"}, on : Sems, timer : TickLists]
    BY <1>1, SemCallPoints
  <2> QED
    BY <1>1, <2>1, SemAssumption, ListAssumption DEF In
<1>4. Steps(SemUses, Sems \ {s})
  BY <1>1, <1>3, FinishStep
<1>5. CASE turn(s, "RED")
  BY <1>2, <1>4, <1>5, RedStep DEF Steps
<1>6. CASE ~ turn(s, "RED")
  <2>1. pc[t].at = "semTimer_wait" /\ UNCHANGED state
    BY <1>6 DEF sem_wait_return, semTimer_return
  <2>2. pc[t] \in [at : {"semTimer_wait"}, on : Sems, timer : TickLists]
    BY <1>1, <2>1, SemCallPoints
  <2>3. In(pc[t]) = {s, pc[t].timer} /\ pc[t].timer \in TickLists /\ s \in PriorLists
    BY <2>2, SemAssumption DEF In
  <2>4. <<t, {s, pc[t].timer}>> \in SemUses
    <3>1. Waiting[t] = {s, pc[t].timer}
      BY <2>3 DEF Waiting
    <3> QED
      BY <3>1 DEF SemKnit, Knit
  <2>5. Nobody(Pending(k, Waiting), s, pc[t].timer)
    BY <1>1, <2>3, <2>4, AloneBoth
  <2>6. \A w \in Threads \ Active(k) : s \notin In(pc[w])
    BY <2>5 DEF Nobody, Pending, Waiting
  <2>7. pc' = [pc EXCEPT ![t] = At("user")] /\ UNCHANGED k
    BY <1>1 DEF Finish
  <2>8. Signal(s)'
    <3>1. \A w \in Threads \ Active(k) : pc'[w] = pc[w]
      BY <1>1, <2>7, FitParts
    <3>2. Active(k') = Active(k)
      BY <2>7
    <3>3. \A w \in Threads \ Active(k') : s \notin In(pc'[w])
      BY <2>6, <3>1, <3>2
    <3> QED
      BY <3>3 DEF Signal
  <2>9. Signals'
    BY <1>4, <2>1, <2>8, AsideSignals DEF SemKnit, Steps
  <2> QED
    BY <1>4, <2>9, StillPrompted DEF SemSteps, SemKnit, Steps
<1> QED
  BY <1>5, <1>6

\* The thread that a signal wakes has not passed, and if it wakes none nobody waits.
LEMMA GreenSignal ==
  ASSUME SemKnit, NEW s \in Sems, Aside(Sems),
         IF k.head[s] = NULL THEN UNCHANGED <<k, pc>>
         ELSE k.head[s] \in Active(k') /\ s \in Waiting[k.head[s]]
  PROVE  Signal(s)'
<1>1. s \in Lists /\ s \in PriorLists
  BY SemAssumption DEF Lists
<1>2. CASE k.head[s] = NULL
  <2>1. On(k, s) = {}
    BY <1>2, ChainNull DEF On
  <2>2. \A w \in Threads \ Active(k) : s \notin Waiting[w]
    BY <1>1, <2>1, HeldOn DEF SemKnit, Knit
  <2> QED
    BY <1>2, <2>2 DEF Signal, Waiting
<1>3. CASE k.head[s] # NULL
  <2>1. k.head[s] \in Threads /\ s \in In(pc[k.head[s]]) /\ k.head[s] \in Active(k')
    BY <1>3 DEF Active, Waiting
  <2>2. pc'[k.head[s]] = pc[k.head[s]]
    BY <2>1 DEF Aside
  <2> QED
    BY <2>1, <2>2 DEF Signal
<1> QED
  BY <1>2, <1>3

LEMMA SignalStep ==
  ASSUME SemKnit, NEW s \in Sems, turn(s, "GREEN"), Knit(SemUses)', Aside(Sems),
         IF k.head[s] = NULL THEN UNCHANGED <<k, pc>>
         ELSE k.head[s] \in Active(k') /\ s \in Waiting[k.head[s]]
  PROVE  Knit(SemUses)' /\ Signals'
<1>1. Signal(s)'
  BY GreenSignal
<1>2. \A o \in Sems \ {s} : state'[o] = state[o]
  BY DEF SemKnit, SemTypes, turn
<1>3. Aside(Sems \ {s})
  BY DEF Aside
<1> QED
  BY <1>1, <1>2, <1>3, AsideSignals DEF SemKnit

LEMMA SemSignalStep ==
  ASSUME SemsApart, SemKnit, Layer(SemPoints)', UNCHANGED <<now, due, frame>>,
         NEW t \in Threads, NEW s \in Sems, sem_signal(t, s)
  PROVE  SemSteps
<1>1. Fit(SemPoints, SemUses) /\ s \in PriorLists
  BY SemFit
<1>2. User(t) /\ ResumeFromPriorList(t, s) /\ turn(s, "GREEN")
  BY DEF sem_signal
<1>3. /\ Steps(SemUses, Sems)
      /\ k.head[s] # NULL => k.head[s] \in Active(k') /\ s \in Waiting[k.head[s]]
  BY <1>1, <1>2, NotifyStep
<1>4. k.head[s] = NULL => UNCHANGED <<k, pc>>
  BY <1>2 DEF ResumeFromPriorList, Return
<1>5. Knit(SemUses)' /\ Signals'
  BY <1>2, <1>3, <1>4, SignalStep DEF Steps
<1> QED
  BY <1>3, <1>5, StillPrompted DEF SemSteps, SemKnit, Steps

-----------------------------------------------------------------------------
(* The interrupt routine *)

LEMMA SignalISRStep ==
  ASSUME SemsApart, SemKnit, Layer(SemPoints)', UNCHANGED <<now, due>>,
         NEW t \in Threads, NEW s \in Sems, sem_signalISR(t, s)
  PROVE  SemSteps
<1> DEFINE th    == k.head[s]
           woken == IF th = NULL THEN k ELSE threadQueueArray_put(priorList_get(k, s), th)
           yield == th # NULL /\ preempts(k, th)
<1>1. /\ Fit(SemPoints, SemUses) /\ s \in PriorLists /\ frame \in [Threads -> {"none", "end", "yield"}]
  BY SemFit DEF SemKnit, SemTypes
<1>2. /\ k.running = t /\ sr[t] /\ frame[t] = "none" /\ turn(s, "GREEN") /\ UNCHANGED pc
      /\ UNCHANGED <<critical, sr, pc, now, due>>
  BY DEF sem_signalISR, InterruptsEnabled
<1>3. \/ /\ k' = woken
         /\ frame' = [frame EXCEPT ![t] = IF yield THEN "yield" ELSE "end"]
      \/ k' = (IF yield THEN yieldISR(woken) ELSE woken) /\ UNCHANGED frame
  BY DEF sem_signalISR
<1>4. CASE th = NULL
  <2>1. UNCHANGED k /\ \A u \in Threads : frame'[u] = "yield" => frame[u] = "yield"
    BY <1>1, <1>3, <1>4
  <2>2. Passes(SemPoints, Sems)
    BY <1>2 DEF Passes
  <2>3. Steps(SemUses, Sems)
    BY <1>1, <1>2, <2>1, <2>2, StillStep
  <2>4. Knit(SemUses)' /\ Signals'
    BY <1>2, <1>4, <2>1, <2>3, SignalStep DEF Steps
  <2>5. frame[t] # "yield" /\ UNCHANGED pc /\ k'.running = t
    BY <1>2, <2>1
  <2>6. Prompted'
    BY <1>2, <2>1, <2>5 DEF Prompted, SemKnit
  <2> QED
    BY <2>4, <2>6 DEF SemSteps
<1>5. CASE th # NULL /\ k' = threadQueueArray_put(priorList_get(k, s), th) /\ frame'[t] = "yield"
  <2>1. /\ Knit(SemUses)' /\ Aside(Sems) /\ k'.running = k.running
        /\ th \in Active(k') /\ s \in Waiting[th]
    BY <1>1, <1>2, <1>5, WokenStep
  <2>2. Knit(SemUses)' /\ Signals'
    BY <1>2, <1>5, <2>1, SignalStep
  <2>3. Prompted'
    BY <1>2, <1>5, <2>1 DEF Prompted
  <2> QED
    BY <2>2, <2>3 DEF SemSteps
<1>6. CASE th # NULL /\ k' = resume(priorList_get(k, s), th)
           /\ (UNCHANGED frame \/ frame' = [frame EXCEPT ![t] = "end"])
  <2>1. ResumeFromPriorListISR(t, s)
    BY <1>2, <1>6 DEF ResumeFromPriorListISR, InterruptsEnabled
  <2>2. /\ Steps(SemUses, Sems) /\ th \in Active(k') /\ s \in Waiting[th]
    BY <1>1, <1>2, <1>6, <2>1, NotifyStep
  <2>3. Knit(SemUses)' /\ Signals'
    BY <1>2, <1>6, <2>2, SignalStep DEF Steps
  <2>4. \A u \in Threads : frame'[u] = "yield" => frame[u] = "yield"
    BY <1>1, <1>6
  <2>5. Prompted'
    <3>1. Preempts /\ frame[t] # "yield" /\ UNCHANGED pc
      BY <1>2, <2>2 DEF Steps
    <3> QED
      BY <1>2, <3>1 DEF Prompted, Preempts, Ordered, SemKnit
  <2> QED
    BY <2>3, <2>5 DEF SemSteps
<1>7. th # NULL => resume(priorList_get(k, s), th) = IF yield THEN yieldISR(woken) ELSE woken
  <2> SUFFICES ASSUME th # NULL
               PROVE  resume(priorList_get(k, s), th) = IF yield THEN yieldISR(woken) ELSE woken
    OBVIOUS
  <2>1. SameRunners(k, priorList_get(k, s))
    BY <1>1, priorListGetFenced DEF Fit, Layer
  <2> QED
    BY <2>1 DEF resume, preempts, SameRunners
<1>8. CASE th # NULL
  <2>1. woken = threadQueueArray_put(priorList_get(k, s), th)
    BY <1>8
  <2> HIDE DEF woken, yield
  <2>2. frame' = [frame EXCEPT ![t] = IF yield THEN "yield" ELSE "end"] => (yield => frame'[t] = "yield")
    BY <1>1
  <2> QED
    BY <1>3, <1>5, <1>6, <1>7, <1>8, <2>1, <2>2
<1> QED
  BY <1>4, <1>8

LEMMA IsrEndStep ==
  ASSUME SemsApart, SemKnit, Layer(SemPoints)', UNCHANGED <<now, due>>,
         NEW t \in Threads, isr_end(t)
  PROVE  SemSteps
<1>1. /\ Fit(SemPoints, SemUses) /\ k.running = t /\ UNCHANGED <<pc, now, due, state>>
      /\ frame \in [Threads -> {"none", "end", "yield"}]
      /\ frame' = [frame EXCEPT ![t] = "none"]
  BY SemFit DEF isr_end, SemKnit, SemTypes
<1>2. Passes(SemPoints, Sems)
  BY <1>1 DEF Passes
<1>3. CASE frame[t] = "yield"
  <2>1. k' = yieldISR(k)
    BY <1>3 DEF isr_end
  <2>2. Highest(k')
    BY <1>1, <2>1, FitParts, YieldStrung
  <2>3. Steps(SemUses, Sems)
    BY <1>1, <1>2, <2>1, YieldStep
  <2>4. Signals'
    <3>1. Aside(Sems \ {}) /\ \A s \in Sems \ {} : state'[s] = state[s]
      BY <1>1, <2>3 DEF Steps
    <3> QED
      BY <3>1, AsideSignals DEF SemKnit
  <2> QED
    BY <2>2, <2>3, <2>4 DEF SemSteps, Steps, Prompted
<1>4. CASE frame[t] # "yield"
  <2>1. UNCHANGED k
    BY <1>4 DEF isr_end
  <2>2. Steps(SemUses, Sems)
    BY <1>1, <1>2, <2>1, StillStep
  <2>3. Signals' /\ Prompted'
    BY <1>1, <1>4, <2>1 DEF Signals, Signal, Prompted, SemKnit
  <2> QED
    BY <2>2, <2>3 DEF SemSteps, Steps
<1> QED
  BY <1>3, <1>4

-----------------------------------------------------------------------------
(* The steps *)

LEMMA SemStep ==
  ASSUME SemsApart, SemKnit, Layer(SemPoints)', [SemNext]_semVars
  PROVE  SemSteps
<1>1. CASE TimerNext /\ UNCHANGED <<state, frame>>
  BY <1>1, SemBelowStep
<1>2. CASE UNCHANGED semVars
  BY <1>2, SemBelowStep DEF semVars
<1>3. ASSUME NEW t \in Threads, checkIRQ(t, {"sem_wait"}), UNCHANGED <<now, due, state, frame>>
      PROVE  SemSteps
  BY <1>3, SemBelowStep
<1> QED
  BY <1>1, <1>2, <1>3, SemWaitStep, SemTimedStep, SemReturnStep, SemSignalStep, SignalISRStep, IsrEndStep
     DEF SemNext, SemThread, SemInterrupt, TimerNext

LEMMA SemLists ==
  ASSUME SemsApart
  PROVE  SemSpec => []SemKnit
<1>1. SemInit => SemKnit
  <2> SUFFICES ASSUME SemInit PROVE SemKnit
    OBVIOUS
  <2>1. Layer(SemPoints) /\ SemTypes /\ Knit(SemUses)
    BY InitLayer, InitKnit, SemPointsEntry DEF SemEntryPoints, SemInit, SemTypes
  <2>2. \A t \in Threads : In(pc[t]) = {}
    BY DEF SemInit, TimerInit, KernelInit, In, At
  <2>3. pc[Background].at = "boot"
    BY KernelAssumption DEF SemInit, TimerInit, KernelInit, At
  <2> QED
    BY <2>1, <2>2, <2>3 DEF SemKnit, Signals, Signal, Prompted
<1>2. SemKnit /\ [SemNext]_semVars => SemKnit'
  <2> SUFFICES ASSUME SemKnit, [SemNext]_semVars PROVE SemKnit'
    OBVIOUS
  <2>1. Layer(SemPoints)' /\ SemTypes'
    <3>1. CASE SemNext
      BY <3>1, SemLayer, SemPointsEntry DEF SemKnit
    <3>2. CASE UNCHANGED semVars
      BY <3>2 DEF semVars, Layer, SemTypes, SemKnit
    <3> QED
      BY <3>1, <3>2
  <2>2. SemSteps
    BY <2>1, SemStep
  <2> QED
    BY <2>1, <2>2 DEF SemKnit, SemSteps
<1> QED
  BY <1>1, <1>2, PTL DEF SemSpec

\* What a call of the semaphores waits for.
LEMMA SemIn ==
  ASSUME NEW p \in SemPoints
  PROVE  /\ In(p) \subseteq Sems \cup Events \cup TickLists
         /\ p \notin TimerPoints /\ p.at # "semTimer_wait" => In(p) = {p.on}
         /\ p \notin TimerPoints /\ p.at = "semTimer_wait" => In(p) = {p.on, p.timer}
         /\ \A s \in Sems : s \in In(p) => p.at \in {"sem_wait", "semTimer_wait"} /\ p.on = s
<1>1. Sems \cap (Events \cup TickLists) = {} /\ NULL \notin Sems
  BY SemAssumption, ListAssumption
<1>2. CASE p \in TimerPoints
  BY <1>1, <1>2, TimerIn
<1>3. CASE p \in [at : {"sem_wait"}, on : Sems]
  BY <1>1, <1>3 DEF In
<1>4. CASE p \in [at : {"semTimer_wait"}, on : Sems, timer : TickLists]
  BY <1>1, <1>4 DEF In
<1> QED
  BY <1>2, <1>3, <1>4 DEF SemPoints

\* Whoever waits and signals, and whichever routine interrupts which before it
\* yields: no thread is lost, none is in two places, and one that waits with a
\* timeout is in both its lists or in none (anyRTOS.c:436-473, 538-554).
THEOREM SemaphoresLoseNoThread ==
  ASSUME SemsApart
  PROVE  SemSpec => []SemLosesNoThread
<1>1. SemKnit => SemLosesNoThread
  <2> SUFFICES ASSUME SemKnit PROVE SemLosesNoThread
    OBVIOUS
  <2>1. /\ Strung(k, Waiting, Ranked(SemUses) \cap Added, Added) /\ Knit(SemUses)
        /\ pc \in [Threads -> SemPoints]
    BY DEF SemKnit, Knit, Layer
  <2>2. /\ Events \subseteq PriorLists /\ Sems \subseteq PriorLists
        /\ Lists = PriorLists \cup TickLists
    BY EventAssumption, SemAssumption DEF Lists
  <2>3. ASSUME NEW t \in Threads
        PROVE  Accounted(t, {s \in Sems : t \in Waiters(s)} \cup ListsHolding(t), SemWaitLists(t))
    <3> DEFINE held == {l \in Lists : t \in On(k, l)}
    <3>1. Accounted(t, held, Waiting[t])
      BY <2>1, KnitAccounts
    <3>2. Waiting[t] \subseteq Sems \cup Events \cup TickLists
      BY <2>1, SemIn DEF Waiting
    <3>3. \A l \in Lists : t \in On(k, l) => l \in Waiting[t]
      BY <2>1, HeldOn
    <3>4. held = {s \in Sems : t \in Waiters(s)} \cup ListsHolding(t)
      BY <2>2, <3>2, <3>3, OnLists DEF ListsHolding
    <3>5. Waiting[t] # {} => SemWaitLists(t) = Waiting[t]
      <4> SUFFICES ASSUME Waiting[t] # {} PROVE SemWaitLists(t) = Waiting[t]
        OBVIOUS
      <4>1. CASE pc[t] \in TimerPoints
        <5>1. pc[t].at # "semTimer_wait"
          BY <4>1 DEF TimerPoints, EventPoints, KernelPoints, At, Inside, TimerLabels
        <5> QED
          BY <4>1, <5>1, TimerWaitLists DEF SemWaitLists
      <4>2. CASE pc[t] \notin TimerPoints
        <5>1. pc[t].at # "eventTimer_wait"
          BY <2>1, <4>2 DEF SemPoints
        <5> QED
          BY <2>1, <4>2, <5>1, SemIn DEF SemWaitLists, WaitLists, Waiting
      <4> QED
        BY <4>1, <4>2
    <3>6. Waiting[t] = {} => held = {}
      BY <3>3
    <3> HIDE DEF held
    <3>7. Accounted(t, held, SemWaitLists(t))
      BY <3>1, <3>5, <3>6 DEF Accounted
    <3> QED
      BY <3>4, <3>7
  <2> QED
    BY <2>1, <2>3, QueuesAreWell DEF SemLosesNoThread
<1> QED
  BY <1>1, SemLists, PTL

\* A signal is not lost: whoever waits at a green semaphore does so because another
\* thread was woken for it and has not passed yet (anyRTOS.c:458-471).
THEOREM SignalsAreNotLost ==
  ASSUME SemsApart
  PROVE  SemSpec => []NoLostSignal
<1>1. SemKnit => NoLostSignal
  <2> SUFFICES ASSUME SemKnit, NEW s \in Sems, state[s] = "GREEN", Waiters(s) # {}
               PROVE  \E t \in Threads \ Waiters(s) :
                        pc[t].at \in {"sem_wait", "semTimer_wait"} /\ pc[t].on = s
    BY DEF NoLostSignal
  <2>1. s \in Lists /\ s \in PriorLists
    BY SemAssumption DEF Lists
  <2>2. Waiters(s) = {u \in Threads : u \notin Active(k) /\ s \in In(pc[u])}
    BY <2>1, HeldOn, OnLists DEF SemKnit, Knit, Waiting
  <2>3. PICK t \in Active(k) : s \in In(pc[t])
    BY <2>2 DEF SemKnit, Signals, Signal
  <2>4. t \in Threads \ Waiters(s) /\ pc[t] \in SemPoints
    BY <2>2, <2>3 DEF Active, SemKnit, Layer
  <2>5. pc[t].at \in {"sem_wait", "semTimer_wait"} /\ pc[t].on = s
    BY <2>3, <2>4, SemIn
  <2> QED
    BY <2>4, <2>5
<1> QED
  BY <1>1, SemLists, PTL

\* In any order of waits, signals, notifications and time-outs the waiters of an event
\* and of a semaphore are sorted by priority behind the first of them, with which a
\* put compares nobody (thread-list.h:191, 227-237).
THEOREM ListsStaySorted ==
  ASSUME SemsApart
  PROVE  SemSpec => []ListsSorted
<1>1. SemKnit => ListsSorted
  <2> SUFFICES ASSUME SemKnit, NEW l \in PriorLists PROVE SortedBehindFirst(l)
    BY DEF ListsSorted
  <2>1. LineSorted(k, l)
    BY DEF SemKnit, Knit, Strung, Hung, InOrder, Lists
  <2>2. Links(k, l) = k.nextPr /\ On(k, l) = Waiters(l)
    BY ListAssumption DEF Links, On, Waiters
  <2> QED
    BY <2>1, <2>2 DEF LineSorted, SortedBehindFirst
<1> QED
  BY <1>1, SemLists, PTL

\* A thread of higher priority is ready only until the routine that woke it ends,
\* whichever other routines come in between, as long as nobody lowers its own
\* priority or notifies all the waiters of an event.
THEOREM InterruptsKeepPriorities ==
  ASSUME SemsApart, Meek
  PROVE  SemSpec => []PreemptiveAfterInterrupts
<1>1. SemKnit => PreemptiveAfterInterrupts
  BY DEF SemKnit, Prompted, PreemptiveAfterInterrupts, Highest
<1> QED
  BY <1>1, SemLists, PTL

===============================================================================
