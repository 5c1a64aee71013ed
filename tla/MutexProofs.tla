------------------------------ MODULE MutexProofs ------------------------------
(***************************************************************************)
(* Mutual exclusion for every set of threads, mutexes and timers, and      *)
(* whatever the lists do: the argument needs the owner alone.  A mutex is  *)
(* taken only when it has none, and is left only by the thread inside.     *)
(* Then what KernelProofs and ListProofs show of the calls below, for      *)
(* those of a mutex: the mask follows the sections, the memory keeps its   *)
(* types, no thread is lost, and nobody waits for a mutex that is free.    *)
(***************************************************************************)
EXTENDS Client, ListProofs

\* A thread is inside a mutex exactly when it owns it.
OwnerInside ==
  \A m \in Mutexes : \A t \in Threads : m \in inside[t] <=> busy[m] = t

Owned ==
  /\ busy \in [Mutexes -> Threads \cup {NULL}]
  /\ inside = [t \in Threads |-> inside[t]]
  /\ OwnerInside

LEMMA OwnedExcludes == Owned => MutualExclusion
BY ListAssumption DEF Owned, OwnerInside, MutualExclusion

LEMMA InitOwned == MutexInit => Owned
BY ListAssumption DEF MutexInit, Owned, OwnerInside

\* A thread that takes a free mutex becomes its owner and the only one inside.
LEMMA TakeOwned ==
  ASSUME Owned, NEW t \in Threads, NEW m, busy[m] = NULL, Take(t, m)
  PROVE  Owned'
<1>1. /\ busy' = [busy EXCEPT ![m] = t]
      /\ inside' = [inside EXCEPT ![t] = inside[t] \cup {m}]
  BY DEF Take
<1>2. /\ busy' \in [Mutexes -> Threads \cup {NULL}]
      /\ inside' = [th \in Threads |-> inside'[th]]
  BY <1>1 DEF Owned
<1>3. ASSUME NEW x \in Mutexes, NEW th \in Threads
      PROVE  x \in inside'[th] <=> busy'[x] = th
  <2>1. busy'[x] = IF x = m THEN t ELSE busy[x]
    BY <1>1 DEF Owned
  <2>2. inside'[th] = IF th = t THEN inside[t] \cup {m} ELSE inside[th]
    BY <1>1 DEF Owned
  <2>3. x \in inside[th] <=> busy[x] = th
    BY DEF Owned, OwnerInside
  <2>4. NULL # th
    BY ListAssumption
  <2> QED BY <2>1, <2>2, <2>3, <2>4
<1> QED BY <1>2, <1>3 DEF Owned, OwnerInside

\* A thread that leaves the mutex it is inside of leaves it without an owner.
LEMMA ReleaseOwned ==
  ASSUME Owned, NEW t \in Threads, NEW m, m \in inside[t], Release(t, m)
  PROVE  Owned'
<1>1. /\ busy' = [busy EXCEPT ![m] = NULL]
      /\ inside' = [inside EXCEPT ![t] = inside[t] \ {m}]
  BY DEF Release
<1>2. /\ busy' \in [Mutexes -> Threads \cup {NULL}]
      /\ inside' = [th \in Threads |-> inside'[th]]
  BY <1>1 DEF Owned
<1>3. ASSUME NEW x \in Mutexes, NEW th \in Threads
      PROVE  x \in inside'[th] <=> busy'[x] = th
  <2>1. busy'[x] = IF x = m THEN NULL ELSE busy[x]
    BY <1>1 DEF Owned
  <2>2. inside'[th] = IF th = t THEN inside[t] \ {m} ELSE inside[th]
    BY <1>1 DEF Owned
  <2>3. (x \in inside[th] <=> busy[x] = th) /\ (x = m => busy[m] = t)
    BY DEF Owned, OwnerInside
  <2>4. NULL # th
    BY ListAssumption
  <2> QED BY <2>1, <2>2, <2>3, <2>4
<1> QED BY <1>2, <1>3 DEF Owned, OwnerInside

LEMMA NextOwned == Owned /\ [MutexNext]_mutexVars => Owned'
<1> SUFFICES ASSUME Owned, [MutexNext]_mutexVars
             PROVE  Owned'
  OBVIOUS
<1>1. CASE UNCHANGED <<busy, inside>>
  BY <1>1 DEF Owned, OwnerInside
<1>2. ASSUME NEW t \in Threads, mutex_enter_retry(t)
      PROVE  Owned'
  BY <1>1, <1>2, TakeOwned DEF mutex_enter_retry
<1>3. ASSUME NEW t \in Threads, mutexTimer_return(t)
      PROVE  Owned'
  BY <1>1, <1>3, TakeOwned DEF mutexTimer_return, TimedEntry
<1>4. ASSUME NEW t \in Threads, NEW m \in Mutexes, m \in inside[t],
             mutex_exit(t, m) \/ mutex_exitCritical(t, m)
      PROVE  Owned'
  BY <1>4, ReleaseOwned DEF mutex_exit, mutex_exitCritical
<1>5. ASSUME NEW t \in Threads, NEW m \in Mutexes, NEW label \in MutexCalls,
             mutex_enter_free(t, m, label)
      PROVE  Owned'
  BY <1>5, TakeOwned DEF mutex_enter_free
<1>6. ASSUME NEW t \in Threads, NEW m \in Mutexes, NEW label \in MutexCalls,
             \/ mutex_enter_wait(t, m, label)
             \/ \E tm \in TickLists : mutexTimer_enter_wait(t, m, tm, label)
      PROVE  Owned'
  BY <1>1, <1>6 DEF mutex_enter_wait, mutexTimer_enter_wait
<1>7. CASE MutexThread
  BY <1>1, <1>2, <1>3, <1>4, <1>5, <1>6, <1>7 DEF MutexThread
<1>8. CASE TimerInterrupt /\ UNCHANGED <<busy, inside>>
  BY <1>1, <1>8
<1>9. CASE UNCHANGED mutexVars
  BY <1>1, <1>9 DEF mutexVars
<1> QED
  BY <1>7, <1>8, <1>9 DEF MutexNext

\* Mutual exclusion (mutex.h:48-62), whoever enters with a call that waits, with a
\* timed one or with one that keeps interrupts disabled, and whoever wakes it.
THEOREM MutexExcludes == MutexSpec => []MutualExclusion
<1>1. MutexSpec => []Owned
  BY InitOwned, NextOwned, PTL DEF MutexSpec
<1> QED
  BY <1>1, OwnedExcludes, PTL
-----------------------------------------------------------------------------
(* The interrupt mask *)

LEMMA EnteredMask ==
  ASSUME Mask, NEW t \in Threads, pc[t].at \notin {"new", "user"}, Entered(t)
  PROVE  Mask'
<1>1. At("user").at = "user"
  BY DEF At
<1>2. CASE Finish(t)
  BY <1>2, FinishMask
<1>3. CASE /\ pc' = [pc EXCEPT ![t] = At("user")]
           /\ sr' = [sr EXCEPT ![t] = FALSE]
           /\ UNCHANGED critical
  BY <1>1, <1>3 DEF Mask, Masked
<1> QED BY <1>2, <1>3 DEF Entered

LEMMA EnterMask ==
  ASSUME Mask, NEW t \in Threads,
         \/ mutex_enter_retry(t) \/ mutexTimer_return(t)
         \/ \E m, label : mutex_enter_free(t, m, label) \/ mutex_enter_wait(t, m, label)
         \/ \E m, tm, label : mutexTimer_enter_wait(t, m, tm, label)
  PROVE  Mask'
<1>1. CASE mutex_enter_retry(t)
  <2>1. pc[t].at \notin {"new", "user"}
    BY <1>1 DEF mutex_enter_retry, EnterLabels
  <2>2. CASE sr' = [sr EXCEPT ![t] = FALSE] /\ UNCHANGED <<critical, pc>>
    BY <2>1, <2>2 DEF Mask, Masked
  <2> QED BY <1>1, <2>1, <2>2, EnteredMask DEF mutex_enter_retry
<1>2. CASE mutexTimer_return(t)
  <2>1. pc[t].at \notin {"new", "user"}
    BY <1>2 DEF mutexTimer_return, TimedLabels
  <2> QED BY <1>2, <2>1, EnteredMask, FinishMask DEF mutexTimer_return
<1> QED
  BY <1>1, <1>2, LeaveMask, ReturnMask
     DEF mutex_enter_free, mutex_enter_wait, mutexTimer_enter_wait, MayEnter, User

LEMMA ExitMask ==
  ASSUME Mask, NEW t \in Threads, NEW m, mutex_exit(t, m) \/ mutex_exitCritical(t, m)
  PROVE  Mask'
<1>1. CASE mutex_exit(t, m)
  BY <1>1, LeaveMask, ReturnMask DEF mutex_exit, Release, ResumeFullPriorList, User
<1>2. CASE mutex_exitCritical(t, m)
  <2>1. critical[t] > 0
    BY <1>2 DEF mutex_exitCritical
  <2>2. CASE pc' = [pc EXCEPT ![t] = At("yield")] /\ UNCHANGED <<critical, sr>>
    <3>1. At("yield").at = "yield"
      BY DEF At
    <3> QED BY <2>1, <2>2, <3>1 DEF Mask, Masked
  <2> QED BY <1>2, <2>1, <2>2, FinishMask DEF mutex_exitCritical
<1> QED BY <1>1, <1>2

LEMMA NextMask == Mask /\ [MutexNext]_mutexVars => Mask'
<1> SUFFICES ASSUME Mask, [MutexNext]_mutexVars PROVE Mask'
  OBVIOUS
<1>1. CASE TimerNext
  BY <1>1, TimerMask
<1>2. ASSUME NEW t \in Threads, checkIRQ(t, EnterLabels) PROVE Mask'
  BY <1>2, OpenMask DEF EnterLabels
<1>3. CASE UNCHANGED mutexVars
  BY <1>3, SameMask DEF mutexVars
<1> QED
  BY <1>1, <1>2, <1>3, EnterMask, ExitMask DEF MutexNext, MutexThread, TimerNext

\* The interrupt mask follows the critical sections (anyRTOS.c:145-153) through every
\* call of the kernel: events, timers, timed waits and the mutexes that keep
\* interrupts disabled when they are entered and that are left with a section open.
THEOREM MaskFollowsCalls == MutexSpec => []InterruptMask
<1>1. MutexInit => Mask
  BY InitMask DEF MutexInit, TimerInit
<1>2. MutexSpec => []Mask
  BY <1>1, NextMask, PTL DEF MutexSpec
<1> QED BY <1>2, MaskIsInterruptMask, PTL
-----------------------------------------------------------------------------
(* Types *)

\* The points of the mutex calls, among those of a layer.
EntryPoints(P) ==
  /\ Timed(P) /\ MutexPoints \subseteq P
  /\ \A x \in P : x.at \in EnterLabels \cup TimedLabels => x.on \in Mutexes

MutexTypes ==
  /\ busy \in [Mutexes -> Threads \cup {NULL}]
  /\ inside \in [Threads -> SUBSET Mutexes]

LEMMA TakeTypes ==
  ASSUME MutexTypes, NEW t \in Threads, NEW m \in Mutexes, Take(t, m)
  PROVE  MutexTypes'
BY DEF MutexTypes, Take

LEMMA ReleaseTypes ==
  ASSUME MutexTypes, NEW t, NEW m, Release(t, m)
  PROVE  MutexTypes'
BY DEF MutexTypes, Release

LEMMA EnteredMoved ==
  ASSUME NEW P, KernelPoints \subseteq P, NEW t \in Threads, Entered(t)
  PROVE  Moved(P)
<1>1. At("user") \in P /\ At("user").at = "user"
  BY PointsAreLabels
<1> QED
  BY <1>1, CallMoved DEF Entered, Moved, Home

\* A call that gets into the mutex writes no memory of the lists.
LEMMA EnterLayer ==
  ASSUME NEW P, EntryPoints(P), Layer(P), MutexTypes, NEW t \in Threads,
         UNCHANGED <<now, due>>,
         \/ mutex_enter_retry(t) \/ mutexTimer_return(t)
         \/ \E m \in Mutexes, label \in MutexCalls : mutex_enter_free(t, m, label)
  PROVE  Layer(P)' /\ MutexTypes'
<1>1. /\ KernelPoints \subseteq P /\ Fenced(k) /\ Mutexes \subseteq PriorLists
      /\ At("user") \in P /\ At("user").at = "user"
  BY PointsAreLabels, MutexAssumption DEF EntryPoints, Timed, TimerPoints, EventPoints, Layer
<1>2. ASSUME UNCHANGED k, Moved(P), NEW m \in Mutexes,
             Take(t, m) \/ UNCHANGED <<busy, inside>>
      PROVE  Layer(P)' /\ MutexTypes'
  BY <1>1, <1>2, CalmLayer, TakeTypes DEF MutexTypes
<1>3. CASE mutex_enter_retry(t)
  <2>1. pc[t] \in P /\ pc[t].at \in EnterLabels /\ k.running = t
    BY <1>3 DEF mutex_enter_retry, Layer
  <2>2. pc[t].on \in Mutexes /\ t # Background
    BY <2>1 DEF EntryPoints, EnterLabels, Layer, Home
  <2>3. CASE Take(t, pc[t].on) /\ Entered(t)
    BY <1>1, <1>2, <2>2, <2>3, EnteredMoved DEF Take
  <2>4. CASE k' = waitInPriorList(k, pc[t].on) /\ UNCHANGED <<pc, busy, inside>>
    BY <1>1, <2>1, <2>2, <2>4, WaitLayer DEF Moved, MutexTypes
  <2> QED
    BY <1>3, <2>3, <2>4 DEF mutex_enter_retry
<1>4. CASE mutexTimer_return(t)
  <2>1. pc[t].on \in Mutexes
    BY <1>4 DEF mutexTimer_return, EntryPoints, Layer
  <2>2. \/ Take(t, pc[t].on) /\ Entered(t)
        \/ Finish(t) /\ UNCHANGED <<k, busy, inside>>
    BY <1>4 DEF mutexTimer_return
  <2> QED
    BY <1>1, <1>2, <2>1, <2>2, EnteredMoved, CallMoved DEF Take
<1>5. ASSUME NEW m \in Mutexes, NEW label \in MutexCalls, mutex_enter_free(t, m, label)
      PROVE  Layer(P)' /\ MutexTypes'
  <2>1. Take(t, m) /\ t # Background /\ (Leave(t, At("user")) \/ Return(t))
    BY <1>5 DEF mutex_enter_free, MayEnter
  <2>2. Moved(P)
    BY <1>1, <2>1, LeaveMoved, CallMoved
  <2> QED
    BY <1>2, <2>1, <2>2 DEF Take
<1> QED
  BY <1>3, <1>4, <1>5

LEMMA EnterWaitLayer ==
  ASSUME NEW P, EntryPoints(P), Layer(P), MutexTypes, NEW t \in Threads,
         UNCHANGED <<now, due>>, NEW m \in Mutexes, NEW label,
         \/ mutex_enter_wait(t, m, label)
         \/ \E tm \in TickLists : mutexTimer_enter_wait(t, m, tm, label)
  PROVE  Layer(P)' /\ MutexTypes'
<1>1. /\ t \in Threads \ {Background} /\ k.running = t /\ m \in PriorLists
      /\ UNCHANGED <<busy, inside>> /\ MutexTypes'
  BY MutexAssumption DEF mutex_enter_wait, mutexTimer_enter_wait, MayEnter, User, MutexTypes
<1>2. CASE mutex_enter_wait(t, m, label)
  <2>1. Inside(label, m) \in P /\ Inside(label, m).at # "new"
    BY <1>2 DEF mutex_enter_wait, EntryPoints, MutexPoints, Inside, EnterLabels
  <2>2. Moved(P)
    BY <1>1, <1>2, <2>1, LeaveMoved DEF mutex_enter_wait
  <2> QED
    BY <1>1, <1>2, <2>2, WaitLayer DEF mutex_enter_wait
<1>3. ASSUME NEW tm \in TickLists, mutexTimer_enter_wait(t, m, tm, label)
      PROVE  Layer(P)'
  <2> DEFINE p == [at |-> label, on |-> m, timer |-> tm]
  <2>1. p \in P /\ p.at # "new" /\ Leave(t, p)
    BY <1>3 DEF mutexTimer_enter_wait, EntryPoints, MutexPoints, TimedLabels
  <2> HIDE DEF p
  <2>2. Moved(P)
    BY <1>1, <2>1, LeaveMoved
  <2> QED
    BY <1>1, <1>3, <2>2, BothListsLayer DEF mutexTimer_enter_wait
<1> QED
  BY <1>1, <1>2, <1>3

LEMMA ExitLayer ==
  ASSUME NEW P, EntryPoints(P), Layer(P), MutexTypes, NEW t \in Threads,
         UNCHANGED <<now, due>>, NEW m \in Mutexes,
         mutex_exit(t, m) \/ mutex_exitCritical(t, m)
  PROVE  Layer(P)' /\ MutexTypes'
<1>1. KernelPoints \subseteq P /\ m \in PriorLists
  BY MutexAssumption DEF EntryPoints, Timed, TimerPoints, EventPoints
<1>2. MutexTypes'
  BY ReleaseTypes DEF mutex_exit, mutex_exitCritical
<1>3. CASE mutex_exit(t, m)
  BY <1>1, <1>2, <1>3, FullPriorListLayer DEF mutex_exit
<1>4. CASE mutex_exitCritical(t, m)
  <2>1. k' = resumeFullPriorList(k, m)
    BY <1>4 DEF mutex_exitCritical
  <2>2. Fenced(k') /\ k'.tick = k.tick
    BY <1>1, <2>1, resumeFullFenced DEF Layer
  <2>3. At("yield") \in P /\ At("yield").at = "yield"
    BY <1>1, PointsAreLabels
  <2>4. Moved(P)
    BY <1>1, <1>4, <2>3, CallMoved DEF mutex_exitCritical, Moved, Home
  <2> QED
    BY <1>2, <2>2, <2>4, CalmLayer
<1> QED
  BY <1>3, <1>4

LEMMA MutexLayer ==
  ASSUME NEW P, EntryPoints(P), Layer(P), MutexTypes, MutexNext
  PROVE  Layer(P)' /\ MutexTypes'
<1>1. CASE TimerNext /\ UNCHANGED <<busy, inside>>
  BY <1>1, TimerLayer DEF EntryPoints, MutexTypes
<1>2. ASSUME NEW t \in Threads, checkIRQ(t, EnterLabels), UNCHANGED <<now, due, busy, inside>>
      PROVE  Layer(P)' /\ MutexTypes'
  BY <1>2, OpenLayer DEF MutexTypes
<1> QED
  BY <1>1, <1>2, EnterLayer, EnterWaitLayer, ExitLayer
     DEF MutexNext, MutexThread, TimerNext

LEMMA MutexPointsEntry == EntryPoints(MutexPoints)
BY DEF EntryPoints, MutexPoints, Timed, TimerPoints, EventPoints, KernelPoints, At, Inside,
       TimerLabels, EnterLabels, TimedLabels

LEMMA MutexInvariant == MutexSpec => [](Layer(MutexPoints) /\ Mask /\ MutexTypes)
<1>1. MutexInit => Layer(MutexPoints) /\ Mask /\ MutexTypes
  BY InitLayer, InitMask, MutexPointsEntry, ListAssumption
     DEF EntryPoints, MutexInit, TimerInit, MutexTypes
<1>2. /\ Layer(MutexPoints) /\ Mask /\ MutexTypes /\ [MutexNext]_mutexVars
      => (Layer(MutexPoints) /\ Mask /\ MutexTypes)'
  <2> SUFFICES ASSUME Layer(MutexPoints), Mask, MutexTypes, [MutexNext]_mutexVars
               PROVE  Layer(MutexPoints)' /\ Mask' /\ MutexTypes'
    OBVIOUS
  <2>1. Mask'
    BY NextMask
  <2>2. CASE MutexNext
    BY <2>1, <2>2, MutexLayer, MutexPointsEntry
  <2>3. CASE UNCHANGED mutexVars
    BY <2>1, <2>3 DEF mutexVars, Layer, MutexTypes
  <2> QED
    BY <2>2, <2>3
<1> QED
  BY <1>1, <1>2, PTL DEF MutexSpec

\* Whoever enters, waits, is woken or times out: the pointers and back pointers of
\* the lists keep their types, and a mutex is owned by a thread or nobody
\* (anyRTOS.c:297-341, 508-536).
THEOREM MutexTypesCorrect == MutexSpec => []MutexTypeOK
<1>1. Layer(MutexPoints) /\ Mask /\ MutexTypes => MutexTypeOK
  BY LayerTypes DEF MutexTypeOK, MutexTypes
<1> QED
  BY <1>1, MutexInvariant, PTL

-----------------------------------------------------------------------------
(* The code above the kernel: how it starts, and how its calls return *)

\* What every layer above the mutexes keeps.
Below(P) == Layer(P) /\ Mask /\ MutexTypes

LEMMA BelowNext ==
  ASSUME NEW P, EntryPoints(P), Below(P), MutexNext
  PROVE  Below(P)'
BY MutexLayer, NextMask DEF Below

LEMMA BelowTimer ==
  ASSUME NEW P, EntryPoints(P), Below(P), TimerNext, UNCHANGED <<busy, inside>>
  PROVE  Below(P)'
BY TimerLayer, TimerMask DEF Below, EntryPoints, MutexTypes

LEMMA BelowSame ==
  ASSUME NEW P, Below(P), UNCHANGED mutexVars
  PROVE  Below(P)'
BY SameMask DEF Below, mutexVars, Layer, MutexTypes

LEMMA InitBelow ==
  ASSUME NEW P, EntryPoints(P), MutexInit
  PROVE  Below(P)
BY InitLayer, InitMask, ListAssumption DEF Below, EntryPoints, MutexInit, TimerInit, MutexTypes

LEMMA BelowBoot ==
  ASSUME NEW P, EntryPoints(P), Below(P), boot
  PROVE  Below(P)'
<1>1. /\ UNCHANGED aboveKernel
      /\ scheduler_run \/ scheduler_run_return \/ \E th \in Threads : scheduler_add(th)
  BY DEF boot
<1>2. TimerNext /\ UNCHANGED <<busy, inside>>
  BY <1>1 DEF aboveKernel, TimerNext, TimerThread, EventThread, KernelThread
<1> QED
  BY <1>2, BelowTimer

LEMMA BelowReturns ==
  ASSUME NEW P, EntryPoints(P), Below(P), NEW t \in Threads, Returns(t)
  PROVE  Below(P)'
<1>1. ASSUME NEW labels, "user" \notin labels, checkIRQ(t, labels), UNCHANGED aboveKernel
      PROVE  Below(P)'
  BY <1>1, OpenLayer, OpenMask DEF Below, aboveKernel, MutexTypes
<1>2. CASE checkIRQ(t, {"run", "yield", "event_wait"} \cup EnterLabels \cup TimerLabels)
           /\ UNCHANGED aboveKernel
  BY <1>1, <1>2 DEF EnterLabels, TimerLabels
<1>3. CASE (yield_return(t) \/ event_wait_return(t)) /\ UNCHANGED aboveKernel
  BY <1>3, BelowTimer
     DEF aboveKernel, TimerNext, TimerThread, EventThread, KernelThread
<1>4. CASE timer_return(t) /\ UNCHANGED timeOnly
  BY <1>4, BelowTimer DEF timeOnly, TimerNext, TimerThread
<1>5. CASE mutex_enter_retry(t) /\ UNCHANGED mutexOnly
  BY <1>5, BelowNext DEF mutexOnly, MutexNext, MutexThread
<1> QED
  BY <1>2, <1>3, <1>4, <1>5 DEF Returns

-----------------------------------------------------------------------------
(* Lists *)

\* What the clients of mutexes wait for, besides those of the layers below.
MutexUses ==
  TimerUses
    \cup {<<t, {m}>> : t \in {u \in Threads \ {Background} : MutexCalls \cap EnterLabels # {}},
                       m \in Mutexes}
    \cup {<<u[1], {u[2], u[3]}>> : u \in TimedMutex}

\* Who has timed waits shares no list with anybody, and who waits in prior lists has
\* its priority for itself.
MutexesApart == Apart(MutexUses) /\ Abortable \subseteq TimerLabels

\* Nobody waits for a free mutex.
Free(m) == busy[m] = NULL => \A w \in Threads \ Active(k) : m \notin In(pc[w])
Freed   == \A m \in Mutexes : Free(m)

\* The points of a layer above the mutexes.
EntersIn(P) ==
  /\ Seated(P) /\ EntryPoints(P)
  /\ \A p \in P : /\ p.at \in EnterLabels => In(p) = {p.on}
                  /\ p.at \in TimedLabels => In(p) \subseteq {p.on} \cup TickLists

MutexFit(P, U) == Fit(P, U) /\ EntersIn(P) /\ TimerUses \subseteq U /\ MutexTypes /\ Freed
MutexSteps(U)  == Knit(U)' /\ Freed' /\ Stays

LEMMA MutexPointParts ==
  ASSUME NEW p \in MutexPoints
  PROVE  \/ p \in TimerPoints /\ p.at \notin EnterLabels \cup TimedLabels
         \/ p.at \in EnterLabels /\ p.on \in Mutexes /\ "timer" \notin DOMAIN p /\ In(p) = {p.on}
         \/ /\ p.at \in TimedLabels /\ p.on \in Mutexes /\ p.timer \in TickLists
            /\ In(p) = {p.on, p.timer}
<1>1. CASE p \in TimerPoints
  BY <1>1 DEF TimerPoints, EventPoints, KernelPoints, At, Inside, TimerLabels, EnterLabels, TimedLabels
<1>2. CASE p \in [at : EnterLabels, on : Mutexes]
  <2>1. NULL \notin Mutexes
    BY MutexAssumption, ListAssumption
  <2> QED
    BY <1>2, <2>1 DEF In
<1>3. CASE p \in [at : TimedLabels, on : Mutexes, timer : TickLists]
  BY <1>3 DEF In
<1> QED
  BY <1>1, <1>2, <1>3 DEF MutexPoints

LEMMA MutexPointsSeated == EntersIn(MutexPoints)
<1>1. Mutexes \subseteq PriorLists /\ PriorLists \subseteq Lists /\ TickLists \subseteq Lists
  BY MutexAssumption DEF Lists
<1>2. Timed(MutexPoints) /\ EntryPoints(MutexPoints)
  BY MutexPointsEntry DEF EntryPoints
<1>3. ASSUME NEW p \in MutexPoints
      PROVE  /\ In(p) \subseteq Lists
             /\ p.at \in Home \cup {"new", "suspend"} => In(p) = {}
             /\ p.at \in {"event_wait", "eventTimer_wait"} \cup TimerLabels => In(p) \subseteq Events \cup TickLists
             /\ p.at \in TimerLabels => In(p) = {p.on}
             /\ "timer" \in DOMAIN p => p.on \in PriorLists /\ p.timer \in TickLists
             /\ p.at \in EnterLabels => In(p) = {p.on}
             /\ p.at \in TimedLabels => In(p) \subseteq {p.on} \cup TickLists
  <2>1. CASE p \in TimerPoints /\ p.at \notin EnterLabels \cup TimedLabels
    BY <2>1, TimerPointsSeated DEF Seated
  <2>2. CASE p \notin TimerPoints \/ p.at \in EnterLabels \cup TimedLabels
    BY <1>1, <2>2, MutexPointParts DEF Home, TimerLabels, EnterLabels, TimedLabels
  <2> QED
    BY <2>1, <2>2
<1> QED
  BY <1>2, <1>3 DEF EntersIn, Seated

LEMMA AsideFree ==
  ASSUME NEW M, NEW m \in M, Free(m), Aside(M), busy'[m] = busy[m]
  PROVE  Free(m)'
BY DEF Free, Aside

\* A step that is about the mutexes of O at most.
LEMMA AsideFreed ==
  ASSUME Freed, NEW O, Aside(Mutexes \ O), \A m \in Mutexes \ O : busy'[m] = busy[m],
         \A m \in O \cap Mutexes : Free(m)'
  PROVE  Freed'
<1>1. ASSUME NEW m \in Mutexes \ O PROVE Free(m)'
  BY <1>1, AsideFree DEF Freed
<1> QED
  BY <1>1 DEF Freed

LEMMA MutexFitParts ==
  ASSUME NEW P, NEW U, MutexFit(P, U)
  PROVE  /\ Fit(P, U) /\ TimerUses \subseteq U /\ KernelPoints \subseteq P
         /\ \A O : Above(Mutexes \ O)
         /\ Mutexes \subseteq PriorLists /\ Mutexes \subseteq Lists
<1>1. Mutexes \cap (Events \cup TickLists) = {} /\ Mutexes \subseteq PriorLists
  BY MutexAssumption, ListAssumption
<1> QED
  BY <1>1 DEF MutexFit, Above, Lists, Fit, Seated, Timed, TimerPoints, EventPoints

-----------------------------------------------------------------------------
(* The calls, on the lists *)

LEMMA MutexBelowStep ==
  ASSUME NEW P, NEW U, MutexFit(P, U), UNCHANGED <<busy, inside>>, Abortable \subseteq TimerLabels,
         \/ TimerNext
         \/ UNCHANGED <<now, due>> /\ \E t, labels : checkIRQ(t, labels)
         \/ UNCHANGED <<k, pc, now, due>>
  PROVE  MutexSteps(U)
<1>1. Fit(P, U) /\ TimerUses \subseteq U /\ Above(Mutexes \ {})
  BY MutexFitParts
<1>2. Steps(U, Mutexes \ {})
  BY <1>1, TimerStep, OpenStep, StutterStep
<1>3. Freed'
  BY <1>2, AsideFreed DEF MutexFit, Steps
<1> QED
  BY <1>2, <1>3 DEF MutexSteps, Steps

\* A call that finds the mutex busy, or takes it.
LEMMA BusyStep ==
  ASSUME NEW P, NEW U, MutexFit(P, U), NEW m \in Mutexes, Knit(U)', Stays, Aside(Mutexes \ {m}),
         \/ busy[m] # NULL /\ UNCHANGED busy
         \/ \E t \in Threads : busy' = [busy EXCEPT ![m] = t]
  PROVE  MutexSteps(U)
<1>1. busy'[m] # NULL /\ \A o \in Mutexes \ {m} : busy'[o] = busy[o]
  BY ListAssumption DEF MutexFit, MutexTypes
<1>2. Freed'
  BY <1>1, AsideFreed DEF MutexFit, Free
<1> QED
  BY <1>2 DEF MutexSteps

\* A thread that takes the mutex goes on in its code.
LEMMA TakeStep ==
  ASSUME NEW P, NEW U, MutexFit(P, U), UNCHANGED <<now, due>>,
         NEW t, t = k.running, NEW m \in Mutexes, Take(t, m),
         In(pc[t]) \cap (Mutexes \ {m}) = {}, pc[t].at # "boot",
         UNCHANGED pc \/ pc' = [pc EXCEPT ![t] = At("user")]
  PROVE  MutexSteps(U)
<1>1. Fit(P, U) /\ t \in Threads /\ t \in Active(k) /\ At("user") \in P
  BY MutexFitParts, FitParts, PointsAreLabels
<1>2. UNCHANGED k /\ busy' = [busy EXCEPT ![m] = t]
  BY DEF Take
<1>3. Passes(P, Mutexes \ {m})
  BY <1>1, NotIn DEF Passes
<1>4. Steps(U, Mutexes \ {m})
  BY <1>1, <1>2, <1>3, StillStep
<1> QED
  BY <1>1, <1>2, <1>4, BusyStep DEF Steps

LEMMA EnterFreeStep ==
  ASSUME NEW P, NEW U, MutexFit(P, U), UNCHANGED <<now, due>>,
         NEW t, NEW m \in Mutexes, NEW label, mutex_enter_free(t, m, label)
  PROVE  MutexSteps(U)
<1>1. Fit(P, U)
  BY MutexFitParts
<1>2. User(t) /\ Take(t, m) /\ (Leave(t, At("user")) \/ Return(t))
  BY DEF mutex_enter_free, MayEnter
<1>3. t = k.running /\ In(pc[t]) = {} /\ pc[t].at # "boot"
  BY <1>1, <1>2, UserPoint
<1>4. UNCHANGED pc \/ pc' = [pc EXCEPT ![t] = At("user")]
  BY <1>2 DEF Leave, Return
<1> QED
  BY <1>2, <1>3, <1>4, TakeStep

LEMMA EnterWaitStep ==
  ASSUME NEW P, NEW U, MutexFit(P, U), UNCHANGED <<now, due>>,
         NEW t \in Threads, NEW m \in Mutexes, <<t, {m}>> \in U,
         NEW label, mutex_enter_wait(t, m, label)
  PROVE  MutexSteps(U)
<1> DEFINE p == Inside(label, m)
<1>1. Fit(P, U) /\ m \in PriorLists /\ m \in Lists
  BY MutexFitParts
<1>2. /\ User(t) /\ t = k.running /\ t # Background /\ In(pc[t]) = {}
      /\ label \in EnterLabels /\ label \in MutexCalls
      /\ k' = waitInPriorList(k, m) /\ pc' = [pc EXCEPT ![t] = p]
      /\ busy[m] # NULL /\ UNCHANGED busy
  BY <1>1, UserPoint DEF mutex_enter_wait, MayEnter, Leave
<1>3. p \in P /\ p.at # "new" /\ In(p) = {m}
  BY <1>1, <1>2, InsideIn DEF MutexFit, EntersIn, EntryPoints, MutexPoints, Inside, EnterLabels
<1>4. (In(pc[t]) \cup In(p)) \cap (Mutexes \ {m}) = {}
  BY <1>2, <1>3
<1> HIDE DEF p
<1>5. Blocks(U, Mutexes \ {m}, t, p)
  BY <1>1, <1>2, <1>3, WaitStep
<1> QED
  BY <1>2, <1>4, <1>5, BusyStep DEF Blocks, Stays

\* Who was woken and finds the mutex busy is back in the list.
LEMMA RetryStep ==
  ASSUME NEW P, NEW U, MutexFit(P, U), UNCHANGED <<now, due>>,
         NEW t \in Threads, mutex_enter_retry(t), NEW m, m = pc[t].on, NEW p, p = pc[t]
  PROVE  MutexSteps(U)
<1>1. /\ Fit(P, U) /\ t = k.running /\ t \in Active(k) /\ p \in P /\ p.at \in EnterLabels
  BY MutexFitParts, FitParts DEF mutex_enter_retry
<1>2. m \in Mutexes /\ In(p) = {m} /\ m \in PriorLists
  BY <1>1, MutexFitParts DEF MutexFit, EntersIn, EntryPoints
<1>3. p.at \notin {"boot", "new"} /\ t # Background
  BY <1>1 DEF Fit, Layer, EnterLabels, Home
<1>4. CASE Take(t, m) /\ Entered(t)
  <2>1. pc' = [pc EXCEPT ![t] = At("user")]
    BY <1>4 DEF Entered, Finish
  <2> QED
    BY <1>1, <1>2, <1>3, <1>4, <2>1, TakeStep
<1>5. CASE ~ (Take(t, m) /\ Entered(t))
  <2>1. busy[m] # NULL /\ UNCHANGED <<busy, pc>> /\ k' = waitInPriorList(k, m)
    BY <1>5 DEF mutex_enter_retry
  <2>2. pc' = [pc EXCEPT ![t] = p]
    BY <1>1, <2>1, FitParts
  <2>3. <<t, {m}>> \in U
    <3>1. Waiting[t] = {m}
      BY <1>2 DEF Waiting
    <3> QED
      BY <3>1 DEF Fit, Knit, MutexFit
  <2>4. Blocks(U, Mutexes \ {m}, t, p)
    <3>1. p.at # "new"
      BY <1>3
    <3> QED
      BY ONLY <1>1, <1>2, <1>3, <2>1, <2>2, <2>3, <3>1, UNCHANGED <<now, due>>, WaitStep
  <2>5. (In(pc[t]) \cup In(p)) \cap (Mutexes \ {m}) = {}
    BY <1>2
  <2> QED
    BY <1>1, <1>2, <2>1, <2>4, <2>5, BusyStep DEF Blocks, Stays
<1> QED
  BY <1>4, <1>5

LEMMA TimedEnterStep ==
  ASSUME NEW P, NEW U, MutexFit(P, U), UNCHANGED <<now, due>>,
         NEW t \in Threads, NEW m \in Mutexes, NEW tm \in TickLists, <<t, {m, tm}>> \in U,
         NEW label, mutexTimer_enter_wait(t, m, tm, label)
  PROVE  MutexSteps(U)
<1> DEFINE p == [at |-> label, on |-> m, timer |-> tm]
<1>1. Fit(P, U) /\ m \in PriorLists /\ m \in Lists
  BY MutexFitParts
<1>2. /\ User(t) /\ t = k.running /\ t # Background /\ In(pc[t]) = {} /\ label \in TimedLabels
      /\ <<t, m, tm>> \in TimedMutex /\ InWindow(due[t], tm)
      /\ k' = jump(tickList_put(priorList_put(k, m, t), tm, t)) /\ pc' = [pc EXCEPT ![t] = p]
      /\ busy[m] # NULL /\ UNCHANGED busy
  BY <1>1, UserPoint DEF mutexTimer_enter_wait, MayEnter, Leave
<1>3. p \in P /\ p.at # "new" /\ p.on = m /\ "timer" \in DOMAIN p /\ p.timer = tm
  BY <1>2 DEF MutexFit, EntersIn, EntryPoints, MutexPoints, TimedLabels
<1>4. (In(pc[t]) \cup In(p)) \cap (Mutexes \ {m}) = {}
  BY <1>2, <1>3, MutexAssumption, ListAssumption DEF In
<1> HIDE DEF p
<1>5. Blocks(U, Mutexes \ {m}, t, p)
  BY <1>1, <1>2, <1>3, BothStep
<1> QED
  BY <1>2, <1>4, <1>5, BusyStep DEF Blocks, Stays

LEMMA TimedReturnStep ==
  ASSUME NEW P, NEW U, MutexFit(P, U), UNCHANGED <<now, due>>,
         NEW t \in Threads, mutexTimer_return(t), NEW m, m = pc[t].on
  PROVE  MutexSteps(U)
<1>1. /\ Fit(P, U) /\ t = k.running /\ t \in Active(k) /\ pc[t] \in P /\ pc[t].at \in TimedLabels
  BY MutexFitParts, FitParts DEF mutexTimer_return
<1>2. m \in Mutexes /\ In(pc[t]) \subseteq {m} \cup TickLists /\ pc[t].at # "boot"
  BY <1>1 DEF MutexFit, EntersIn, EntryPoints, TimedLabels
<1>3. In(pc[t]) \cap (Mutexes \ {m}) = {}
  BY <1>2, MutexAssumption, ListAssumption
<1>4. CASE Take(t, m) /\ Entered(t)
  <2>1. pc' = [pc EXCEPT ![t] = At("user")]
    BY <1>4 DEF Entered, Finish
  <2> QED
    BY <1>1, <1>2, <1>3, <1>4, <2>1, TakeStep
<1>5. CASE ~ (Take(t, m) /\ Entered(t))
  <2>1. Finish(t) /\ UNCHANGED <<k, busy, inside>>
    BY <1>5 DEF mutexTimer_return
  <2>2. Steps(U, Mutexes \ {m})
    BY <1>1, <1>2, <1>3, <2>1, FinishStep
  <2>3. Free(m)'
    <3>1. \A w \in Threads \ Active(k) : pc'[w] = pc[w]
      BY <1>1, <2>1, FitParts DEF Finish
    <3>2. Active(k') = Active(k) /\ busy'[m] = busy[m] /\ Free(m)
      BY <1>2, <2>1 DEF MutexFit, Freed
    <3> QED
      BY <3>1, <3>2 DEF Free
  <2>4. Freed'
    BY <2>1, <2>2, <2>3, AsideFreed DEF MutexFit, Steps
  <2> QED
    BY <2>2, <2>4 DEF MutexSteps, Steps
<1> QED
  BY <1>4, <1>5

\* Who leaves the mutex wakes all that wait for it.
LEMMA ExitStep ==
  ASSUME NEW P, NEW U, MutexFit(P, U), UNCHANGED <<now, due>>,
         NEW t \in Threads, NEW m \in Mutexes, mutex_exit(t, m) \/ mutex_exitCritical(t, m)
  PROVE  MutexSteps(U)
<1>1. Fit(P, U) /\ m \in PriorLists
  BY MutexFitParts
<1>2. /\ User(t) /\ busy' = [busy EXCEPT ![m] = NULL] /\ k' = resumeFullPriorList(k, m)
      /\ UNCHANGED pc \/ pc' = [pc EXCEPT ![t] = At("user")] \/ pc' = [pc EXCEPT ![t] = At("yield")]
  BY DEF mutex_exit, mutex_exitCritical, Release, ResumeFullPriorList, Return, Finish, Leave
<1>3. Passes(P, Mutexes)
  <2>1. t \in Active(k) /\ In(pc[t]) = {} /\ pc[t].at # "boot" /\ At("user") \in P /\ At("yield") \in P
    BY <1>1, <1>2, UserPoint, MutexFitParts, PointsAreLabels
  <2> QED
    BY <1>2, <2>1, NotIn DEF Passes
<1>4. /\ Knit(U)' /\ Aside(Mutexes) /\ Active(k) \subseteq Active(k')
      /\ \A u \in Threads : m \in Waiting[u] => u \in Active(k')
  BY <1>1, <1>2, <1>3, FullListStep
<1>5. Free(m)'
  <2>1. \A w \in Threads : m \in In(pc'[w]) => m \in In(pc[w])
    BY <1>4 DEF Aside
  <2> QED
    BY <1>4, <2>1 DEF Free, Waiting
<1>6. /\ Aside(Mutexes \ {m}) /\ \A o \in Mutexes \ {m} : busy'[o] = busy[o]
  BY <1>2, <1>4 DEF Aside, MutexFit, MutexTypes
<1>7. Freed'
  BY <1>5, <1>6, AsideFreed DEF MutexFit
<1> QED
  BY <1>4, <1>7 DEF MutexSteps, Stays

LEMMA MutexStep ==
  ASSUME NEW P, NEW U, MutexFit(P, U), MutexUses \subseteq U, Abortable \subseteq TimerLabels,
         MutexNext
  PROVE  MutexSteps(U)
<1>1. CASE TimerNext /\ UNCHANGED <<busy, inside>>
  BY <1>1, MutexBelowStep
<1>2. ASSUME NEW t \in Threads, checkIRQ(t, EnterLabels), UNCHANGED <<now, due, busy, inside>>
      PROVE  MutexSteps(U)
  BY <1>2, MutexBelowStep
<1>3. ASSUME NEW t \in Threads, NEW m \in Mutexes, NEW label, mutex_enter_wait(t, m, label),
             UNCHANGED <<now, due>>
      PROVE  MutexSteps(U)
  <2>1. t # Background /\ label \in MutexCalls \cap EnterLabels
    BY <1>3 DEF mutex_enter_wait, MayEnter
  <2>2. <<t, {m}>> \in U
    BY <2>1 DEF MutexUses
  <2> QED
    BY <1>3, <2>2, EnterWaitStep
<1>4. ASSUME NEW t \in Threads, NEW m \in Mutexes, NEW tm \in TickLists, NEW label,
             mutexTimer_enter_wait(t, m, tm, label), UNCHANGED <<now, due>>
      PROVE  MutexSteps(U)
  <2>1. <<t, m, tm>>[1] = t /\ <<t, m, tm>>[2] = m /\ <<t, m, tm>>[3] = tm
    OBVIOUS
  <2>2. <<t, m, tm>> \in TimedMutex
    BY <1>4 DEF mutexTimer_enter_wait
  <2>3. <<t, {m, tm}>> \in {<<u[1], {u[2], u[3]}>> : u \in TimedMutex}
    BY <2>1, <2>2
  <2>4. <<t, {m, tm}>> \in U
    BY <2>3 DEF MutexUses
  <2> QED
    BY <1>4, <2>4, TimedEnterStep
<1> QED
  BY <1>1, <1>2, <1>3, <1>4, EnterFreeStep, RetryStep, TimedReturnStep, ExitStep
     DEF MutexNext, MutexThread, TimerNext

MutexKnit == Layer(MutexPoints) /\ MutexTypes /\ Knit(MutexUses) /\ Freed

LEMMA InitFreed == TimerInit => Freed
<1> SUFFICES ASSUME TimerInit PROVE Freed
  OBVIOUS
<1>1. \A t \in Threads : In(pc[t]) = {}
  BY DEF TimerInit, KernelInit, In, At
<1> QED
  BY <1>1 DEF Freed, Free

LEMMA MutexLists ==
  ASSUME MutexesApart
  PROVE  MutexSpec => []MutexKnit
<1>1. MutexInit => MutexKnit
  <2> SUFFICES ASSUME MutexInit PROVE MutexKnit
    OBVIOUS
  <2>1. TimerInit
    BY DEF MutexInit
  <2>2. MutexTypes
    BY ListAssumption DEF MutexInit, MutexTypes
  <2> QED
    BY <2>1, <2>2, InitLayer, InitKnit, InitFreed, MutexPointsEntry DEF EntryPoints, MutexKnit
<1>2. MutexKnit /\ [MutexNext]_mutexVars => MutexKnit'
  <2> SUFFICES ASSUME MutexKnit, [MutexNext]_mutexVars PROVE MutexKnit'
    OBVIOUS
  <2>1. Layer(MutexPoints)' /\ MutexTypes'
    <3>1. CASE MutexNext
      BY <3>1, MutexLayer, MutexPointsEntry DEF MutexKnit
    <3>2. CASE UNCHANGED mutexVars
      BY <3>2 DEF mutexVars, Layer, MutexTypes, MutexKnit
    <3> QED
      BY <3>1, <3>2
  <2>2. MutexFit(MutexPoints, MutexUses)
    BY <2>1, MutexPointsSeated DEF MutexFit, MutexUses, Fit, EntersIn, MutexKnit, MutexesApart
  <2>3. MutexSteps(MutexUses)
    <3>1. CASE MutexNext
      BY <2>2, <3>1, MutexStep DEF MutexesApart
    <3>2. CASE UNCHANGED mutexVars
      BY <2>2, <3>2, MutexBelowStep DEF mutexVars, MutexesApart
    <3> QED
      BY <3>1, <3>2
  <2> QED
    BY <2>1, <2>3 DEF MutexKnit, MutexSteps
<1> QED
  BY <1>1, <1>2, PTL DEF MutexSpec

\* Whoever enters, waits, loses the race for a mutex, times out and leaves: no
\* thread is lost, and none is in two places (anyRTOS.c:297-341, 508-536).
THEOREM MutexesLoseNoThread ==
  ASSUME MutexesApart
  PROVE  MutexSpec => []MutexLosesNoThread
<1>1. MutexKnit => MutexLosesNoThread
  <2> SUFFICES ASSUME MutexKnit PROVE MutexLosesNoThread
    OBVIOUS
  <2>1. /\ Strung(k, Waiting, Ranked(MutexUses) \cap Added, Added) /\ Knit(MutexUses)
        /\ pc \in [Threads -> MutexPoints]
    BY DEF MutexKnit, Knit, Layer
  <2>2. /\ Events \subseteq PriorLists /\ Mutexes \subseteq PriorLists
        /\ Lists = PriorLists \cup TickLists
    BY EventAssumption, MutexAssumption DEF Lists
  <2>3. ASSUME NEW t \in Threads
        PROVE  Accounted(t, {m \in Mutexes : t \in Waiters(m)} \cup ListsHolding(t), MutexWaitLists(t))
    <3> DEFINE held == {l \in Lists : t \in On(k, l)}
    <3>1. Accounted(t, held, Waiting[t])
      BY <2>1, KnitAccounts
    <3>2. /\ Waiting[t] \subseteq Mutexes \cup Events \cup TickLists
          /\ Waiting[t] # {} => MutexWaitLists(t) = Waiting[t]
      <4>1. Waiting[t] = In(pc[t]) /\ pc[t] \in MutexPoints
        BY <2>1 DEF Waiting
      <4>2. CASE pc[t] \in TimerPoints /\ pc[t].at \notin EnterLabels \cup TimedLabels
        BY <4>1, <4>2, TimerIn, TimerWaitLists DEF MutexWaitLists
      <4>3. CASE pc[t] \notin TimerPoints \/ pc[t].at \in EnterLabels \cup TimedLabels
        BY <4>1, <4>3, MutexPointParts DEF MutexWaitLists, WaitLists, EnterLabels, TimedLabels
      <4> QED
        BY <4>2, <4>3
    <3>3. \A l \in Lists : t \in On(k, l) => l \in Waiting[t]
      BY <2>1, HeldOn
    <3>4. held = {m \in Mutexes : t \in Waiters(m)} \cup ListsHolding(t)
      BY <2>2, <3>2, <3>3, OnLists DEF ListsHolding
    <3>5. Waiting[t] = {} => held = {}
      BY <3>3
    <3> HIDE DEF held
    <3>6. Accounted(t, held, MutexWaitLists(t))
      BY <3>1, <3>2, <3>5 DEF Accounted
    <3> QED
      BY <3>4, <3>6
  <2> QED
    BY <2>1, <2>3, QueuesAreWell DEF MutexLosesNoThread
<1> QED
  BY <1>1, MutexLists, PTL

\* Nobody waits for a free mutex: who leaves it wakes all that wait, and one of them
\* that loses the race waits again only when another has the mutex (anyRTOS.c:306-309).
THEOREM NobodyWaitsForFreeMutex ==
  ASSUME MutexesApart
  PROVE  MutexSpec => []NoStrandedWaiter
<1>1. MutexKnit => NoStrandedWaiter
  <2> SUFFICES ASSUME MutexKnit, NEW m \in Mutexes, busy[m] = NULL PROVE Waiters(m) = {}
    BY DEF NoStrandedWaiter
  <2>1. m \in Lists /\ m \in PriorLists
    BY MutexAssumption DEF Lists
  <2>2. Waiters(m) = {u \in Threads : u \notin Active(k) /\ m \in In(pc[u])}
    BY <2>1, HeldOn, OnLists DEF MutexKnit, Knit, Waiting
  <2> QED
    BY <2>2 DEF MutexKnit, Freed, Free
<1> QED
  BY <1>1, MutexLists, PTL

\* An entry with a timeout, too, gives up only when its time has come or when the
\* mutex was left meanwhile (mutex.h:76-84, anyRTOS.c:508-519).
THEOREM EntriesNotEarly ==
  ASSUME MutexesApart, InHalfRange
  PROVE  MutexSpec => []TimeoutNotEarly
<1>1. MutexKnit => TimeoutNotEarly
  BY KnitTimely DEF MutexKnit
<1> QED
  BY <1>1, MutexLists, PTL

-----------------------------------------------------------------------------
(* The code above the kernel, on the lists *)

LEMMA BootStep ==
  ASSUME NEW P, NEW U, MutexFit(P, U), Abortable \subseteq TimerLabels, boot
  PROVE  MutexSteps(U)
<1>1. UNCHANGED aboveKernel /\ TimerNext
  BY DEF boot, aboveKernel, TimerNext, TimerThread, EventThread, KernelThread
<1> QED
  BY <1>1, MutexBelowStep DEF aboveKernel

LEMMA ReturnsStep ==
  ASSUME NEW P, NEW U, MutexFit(P, U), Abortable \subseteq TimerLabels,
         NEW t \in Threads, Returns(t)
  PROVE  MutexSteps(U)
<1>1. CASE UNCHANGED aboveKernel
           /\ checkIRQ(t, {"run", "yield", "event_wait"} \cup EnterLabels \cup TimerLabels)
  BY <1>1, MutexBelowStep DEF aboveKernel
<1>2. CASE UNCHANGED aboveKernel /\ (yield_return(t) \/ event_wait_return(t))
  BY <1>2, MutexBelowStep DEF aboveKernel, TimerNext, TimerThread, EventThread, KernelThread
<1>3. CASE timer_return(t) /\ UNCHANGED timeOnly
  BY <1>3, MutexBelowStep DEF timeOnly, TimerNext, TimerThread
<1>4. CASE mutex_enter_retry(t) /\ UNCHANGED mutexOnly
  BY <1>4, RetryStep DEF mutexOnly
<1> QED
  BY <1>1, <1>2, <1>3, <1>4 DEF Returns

\* A wait for a timer of any number of ticks.
LEMMA SleepStep ==
  ASSUME NEW P, NEW U, MutexFit(P, U), UNCHANGED timeOnly,
         NEW t \in Threads, NEW tm \in TickLists, NEW d \in Nat,
         timer_period(t, tm, d) \/ timer_delay(t, tm, d)
  PROVE  MutexSteps(U)
<1>1. Fit(P, U) /\ TimerUses \subseteq U /\ Above(Mutexes \ {})
  BY MutexFitParts
<1>2. Steps(U, Mutexes \ {})
  BY <1>1, TimerCallStep
<1>3. Freed'
  BY <1>2, AsideFreed DEF MutexFit, Steps, timeOnly
<1> QED
  BY <1>2, <1>3 DEF MutexSteps, Steps

LEMMA BelowSleep ==
  ASSUME NEW P, EntryPoints(P), Below(P), UNCHANGED timeOnly,
         NEW t \in Threads, NEW tm \in TickLists, NEW d \in Nat,
         timer_period(t, tm, d) \/ timer_delay(t, tm, d)
  PROVE  Below(P)'
<1>1. now[tm] \in Int /\ due[t] \in Int /\ Times \subseteq Int
  BY WindowIsTimes, TimesAreIntegers DEF Below, Layer
<1>2. PICK label, time : time \in Times /\ WaitTimer(t, tm, label, time)
  <2>1. ASSUME NEW l, NEW x \in Int, WaitTimer(t, tm, l, x)
        PROVE  x \in Times
    BY <2>1, WindowIsTimes DEF Below, WaitTimer
  <2> QED
    BY <1>1, <2>1 DEF timer_period, timer_delay
<1>3. Layer(P)'
  BY <1>1, <1>2, WaitTimerLayer DEF Below, EntryPoints
<1>4. Mask'
  BY <1>2, LeaveMask DEF Below, WaitTimer, User
<1> QED
  BY <1>3, <1>4 DEF Below, MutexTypes, timeOnly


\* The lists of a program that calls nothing but the kernel, its timers and mutexes.
Linked == Below(MutexPoints) /\ Knit(MutexUses) /\ Freed

LEMMA LinkedFit ==
  ASSUME MutexesApart, Linked, Below(MutexPoints)'
  PROVE  MutexFit(MutexPoints, MutexUses)
BY MutexPointsSeated DEF Linked, Below, MutexFit, MutexUses, Fit, EntersIn, MutexesApart

LEMMA LinkedStep ==
  ASSUME MutexesApart, Linked,
         \/ MutexNext \/ boot \/ UNCHANGED mutexVars
         \/ \E t \in Threads :
              \/ Returns(t)
              \/ User(t) /\ Return(t) /\ UNCHANGED <<k, aboveKernel>>
              \/ \E m \in Mutexes : mutex_exit(t, m) /\ UNCHANGED mutexOnly
              \/ /\ UNCHANGED timeOnly
                 /\ \E tm \in TickLists, d \in Nat : timer_period(t, tm, d) \/ timer_delay(t, tm, d)
  PROVE  Linked' /\ Stays
<1> DEFINE P == MutexPoints
           U == MutexUses
           Good == Linked' /\ Stays
<1>1. /\ EntryPoints(P) /\ Below(P) /\ Abortable \subseteq TimerLabels
      /\ MutexUses \subseteq U
  BY MutexPointsEntry DEF Linked, MutexesApart
<1>2. ASSUME Below(P)', MutexFit(P, U) => MutexSteps(U) PROVE Good
  BY <1>2, LinkedFit DEF Linked, MutexSteps
<1> HIDE DEF P, U, Good
<1>3. ASSUME MutexNext PROVE Good
  BY <1>1, <1>2, <1>3, BelowNext, MutexStep
<1>4. ASSUME boot PROVE Good
  BY <1>1, <1>2, <1>4, BelowBoot, BootStep
<1>5. ASSUME UNCHANGED mutexVars PROVE Good
  <2>1. UNCHANGED <<k, pc, now, due, busy, inside>>
    BY <1>5 DEF mutexVars
  <2> QED
    BY <1>1, <1>2, <1>5, <2>1, BelowSame, MutexBelowStep
<1>6. ASSUME NEW t \in Threads, Returns(t) PROVE Good
  BY <1>1, <1>2, <1>6, BelowReturns, ReturnsStep
<1>7. ASSUME NEW t \in Threads, User(t), Return(t), UNCHANGED <<k, aboveKernel>> PROVE Good
  <2>1. UNCHANGED <<k, pc, now, due, busy, inside>>
    BY <1>7 DEF Return, aboveKernel
  <2>2. Below(P)'
    BY <1>1, <1>7, <2>1, ReturnMask DEF Below, Layer, MutexTypes, User
  <2> QED
    BY <1>1, <1>2, <2>1, <2>2, MutexBelowStep
<1>8. ASSUME NEW t \in Threads, NEW m \in Mutexes, mutex_exit(t, m), UNCHANGED mutexOnly PROVE Good
  <2>1. UNCHANGED <<now, due>>
    BY <1>8 DEF mutexOnly
  <2>2. Below(P)'
    BY <1>1, <1>8, <2>1, ExitLayer, ExitMask DEF Below
  <2> QED
    BY <1>1, <1>2, <1>8, <2>1, <2>2, ExitStep
<1>9. ASSUME NEW t \in Threads, UNCHANGED timeOnly, NEW tm \in TickLists, NEW d \in Nat,
             timer_period(t, tm, d) \/ timer_delay(t, tm, d)
      PROVE  Good
  BY <1>1, <1>2, <1>9, BelowSleep, SleepStep
<1> QED
  BY <1>3, <1>4, <1>5, <1>6, <1>7, <1>8, <1>9 DEF Good

LEMMA InitLinked == MutexInit => Linked
BY InitBelow, InitKnit, InitFreed, MutexPointsEntry DEF Linked, MutexInit

\* Who waits in a list.
LEMMA LinkedWaiters ==
  ASSUME Linked, NEW l \in PriorLists
  PROVE  Waiters(l) = {u \in Threads : u \notin Active(k) /\ l \in In(pc[u])}
BY HeldOn, OnLists DEF Linked, Knit, Waiting, Lists

\* A notification wakes the first thread of the list.
LEMMA LinkedNotify ==
  ASSUME MutexesApart, Linked, Linked', NEW t, NEW l \in PriorLists, UNCHANGED <<now, due>>,
         User(t) /\ ResumeFromPriorList(t, l)
  PROVE  k.head[l] # NULL =>
           k.head[l] \in Threads /\ k.head[l] \in Active(k') /\ k.head[l] \in Waiters(l)
<1>1. Fit(MutexPoints, MutexUses)
  BY LinkedFit, MutexFitParts DEF Linked
<1>2. /\ Steps(MutexUses, {})
      /\ k.head[l] # NULL =>
           k.head[l] \in Threads /\ k.head[l] \in Active(k') /\ l \in Waiting[k.head[l]]
  BY <1>1, NotifyStep
<1>3. k.head[l] # NULL => k.head[l] \in Waiters(l)
  BY <1>2, ChainStart DEF Waiters
<1> QED
  BY <1>2, <1>3

===============================================================================
