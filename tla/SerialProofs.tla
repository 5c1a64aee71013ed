----------------------------- MODULE SerialProofs -----------------------------
(***************************************************************************)
(* The serial port driver, for every number of threads, size of queues and *)
(* of buffers, threshold, menu and input: whatever the lists do, the       *)
(* transmit interrupt is not left disabled on bytes that wait, the line    *)
(* editors stay in their buffers, and calls close the sections they open;  *)
(* and with the lists of ListProofs no sender waits for room that is there. *)
(* The argument follows each thread through its serial call, the queue     *)
(* call in it, and the kernel call in that.                                *)
(***************************************************************************)
EXTENDS Serial, QueueProofs

-----------------------------------------------------------------------------
(* The line of a thread *)

Line(V) == [at : V, call : V, out : V, then : V, key : V, count : V, i : V, depth : V]

IsLine(s) == \E V : s \in Line(V)

\* Only the menu returns without the step that leaves the section.
Good(s) ==
  /\ IsLine(s) /\ s.depth \in Int
  /\ s.count \in 0 .. BufferSize - 1 /\ s.i \in DOMAIN OptLen
  /\ s.at \in {"idle", "put", "arm", "get", "key", "exit"}
  /\ s.then \in {"idle", "get", "exit"}
  /\ s.at # "idle" /\ s.then = "idle" => s.call = "serial_option"

LEMMA FirstLine == Good(NoLine) /\ NoLine.at = "idle"
<1>1. BufferSize \in Nat \ {0} /\ 0 \in DOMAIN OptLen
  BY SerialAssumption
<1>2. NoLine \in Line({"idle", NULL, 0})
  BY DEF NoLine, Line
<1> QED BY <1>1, <1>2 DEF NoLine, Good, IsLine

LEMMA Emits ==
  ASSUME NEW s, IsLine(s), NEW n, NEW step
  PROVE  /\ IsLine(emit(s, n, step))
         /\ emit(s, n, step).at = (IF n = 0 THEN step ELSE "put")
         /\ emit(s, n, step).then = step
         /\ emit(s, n, step).call = s.call /\ emit(s, n, step).depth = s.depth
         /\ emit(s, n, step).count = s.count /\ emit(s, n, step).i = s.i
<1> DEFINE at == IF n = 0 THEN step ELSE "put"
           e == [s EXCEPT !.out = n, !.then = step, !.at = at]
<1>1. emit(s, n, step) = e
  BY Zenon DEF emit
<1>2. PICK V : s \in Line(V)
  BY DEF IsLine
<1> HIDE DEF at
<1>3. /\ e \in Line(V \cup {n, step, at})
      /\ e.at = at /\ e.then = step /\ e.call = s.call /\ e.depth = s.depth
      /\ e.count = s.count /\ e.i = s.i
  BY <1>2 DEF Line
<1> HIDE DEF e
<1> QED BY <1>1, <1>3 DEF IsLine, at

LEMMA EmitsGood ==
  ASSUME NEW s, Good(s), NEW n, NEW step,
         step \in {"get", "exit"} \/ (step = "idle" /\ s.call = "serial_option" /\ n # 0)
  PROVE  /\ Good(emit(s, n, step))
         /\ emit(s, n, step).at \in {"put", "get", "exit"}
         /\ emit(s, n, step).call = s.call /\ emit(s, n, step).depth = s.depth
BY Emits DEF Good

LEMMA CountGood ==
  ASSUME NEW s, Good(s), NEW n \in 0 .. BufferSize - 1
  PROVE  /\ Good([s EXCEPT !.count = n])
         /\ [s EXCEPT !.count = n].call = s.call /\ [s EXCEPT !.count = n].depth = s.depth
<1>1. PICK V : s \in Line(V)
  BY DEF Good, IsLine
<1>2. /\ [s EXCEPT !.count = n] \in Line(V \cup {n})
      /\ [s EXCEPT !.count = n].count = n
      /\ \A f \in {"at", "call", "then", "i", "depth"} : [s EXCEPT !.count = n][f] = s[f]
  BY <1>1 DEF Line
<1> QED BY <1>2 DEF Good, IsLine

LEMMA OptionGood ==
  ASSUME NEW s, Good(s), NEW j \in DOMAIN OptLen
  PROVE  /\ Good([s EXCEPT !.i = j])
         /\ [s EXCEPT !.i = j].call = s.call /\ [s EXCEPT !.i = j].depth = s.depth
<1>1. PICK V : s \in Line(V)
  BY DEF Good, IsLine
<1>2. /\ [s EXCEPT !.i = j] \in Line(V \cup {j})
      /\ [s EXCEPT !.i = j].i = j
      /\ \A f \in {"at", "call", "then", "count", "depth"} : [s EXCEPT !.i = j][f] = s[f]
  BY <1>1 DEF Line
<1> QED BY <1>2 DEF Good, IsLine

LEMMA EditedGood ==
  ASSUME NEW s, Good(s)
  PROVE  /\ Good(edited(s)) /\ edited(s).at \in {"put", "get", "exit"}
         /\ edited(s).call = s.call /\ edited(s).depth = s.depth
<1>1. BufferSize \in Nat \ {0} /\ s.count \in 0 .. BufferSize - 1
  BY SerialAssumption DEF Good
<1> DEFINE more == [s EXCEPT !.count = s.count + 1]
           less == [s EXCEPT !.count = s.count - 1]
<1>2. s.count < BufferSize - 1 => Good(more) /\ more.call = s.call /\ more.depth = s.depth
  BY <1>1, CountGood
<1>3. s.count > 0 => Good(less) /\ less.call = s.call /\ less.depth = s.depth
  BY <1>1, CountGood
<1>4. \/ edited(s) = emit(s, 0, "get")
      \/ edited(s) = emit(s, 2, "exit")
      \/ s.count < BufferSize - 1 /\ edited(s) = emit(more, 1, "get")
      \/ s.count > 0 /\ edited(s) = emit(less, 3, "get")
  BY Zenon DEF edited
<1> HIDE DEF more, less
<1> QED BY <1>2, <1>3, <1>4, EmitsGood

LEMMA ChosenGood ==
  ASSUME NEW s, Good(s), s.call = "serial_option"
  PROVE  /\ Good(chosen(s)) /\ chosen(s).at \in {"put", "get", "exit"}
         /\ chosen(s).call = s.call /\ chosen(s).depth = s.depth
<1> DEFINE qty  == Cardinality(DOMAIN OptLen)
           next == IF s.i + 1 >= qty THEN 0 ELSE s.i + 1
           prev == (IF s.i = 0 THEN qty ELSE s.i) - 1
           after == [s EXCEPT !.i = next]
           before == [s EXCEPT !.i = prev]
<1>1. /\ qty \in Nat /\ DOMAIN OptLen = 0 .. qty - 1 /\ 0 \in DOMAIN OptLen
      /\ s.i \in DOMAIN OptLen
  BY SerialAssumption, FS_CardinalityType DEF Good
<1>2. \/ chosen(s) = emit(s, 2, "idle")
      \/ chosen(s) = emit(after, redraw(s.i, next), "get")
      \/ chosen(s) = emit(before, redraw(s.i, prev), "get")
      \/ chosen(s) = emit(s, 0, "get")
  BY Zenon DEF chosen
<1> HIDE DEF qty
<1>3. next \in DOMAIN OptLen /\ prev \in DOMAIN OptLen
  BY <1>1
<1> HIDE DEF next, prev
<1>4. /\ Good(after) /\ after.call = s.call /\ after.depth = s.depth
      /\ Good(before) /\ before.call = s.call /\ before.depth = s.depth
  BY <1>3, OptionGood
<1> HIDE DEF after, before
<1> QED BY <1>2, <1>4, EmitsGood

LEMMA AnsweredGood ==
  ASSUME NEW s, Good(s)
  PROVE  /\ Good(answered(s)) /\ answered(s).at \in {"put", "get", "exit"}
         /\ answered(s).call = s.call /\ answered(s).depth = s.depth
<1>1. BufferSize \in Nat \ {0}
  BY SerialAssumption
<1> DEFINE empty == [s EXCEPT !.count = 0]
<1>2. Good(empty) /\ empty.call = s.call /\ empty.depth = s.depth
  BY <1>1, CountGood
<1>3. \/ answered(s) = emit(s, 0, "exit")
      \/ answered(s) = emit(empty, 0, "exit")
      \/ s.call = "serial_option" /\ answered(s) = chosen(s)
      \/ answered(s) = edited(s)
  BY Zenon DEF answered
<1> HIDE DEF empty
<1> QED BY <1>2, <1>3, EmitsGood, ChosenGood, EditedGood

LEMMA BeginsGood ==
  ASSUME NEW c, NEW depth \in Int, NEW s \in begins(c, depth)
  PROVE  Good(s) /\ s.at \in {"put", "get", "exit"} /\ s.call = c /\ s.depth = depth
<1> DEFINE r == [NoLine EXCEPT !.call = c, !.depth = depth]
<1>1. Good(r) /\ r.call = c /\ r.depth = depth
  <2>1. /\ IsLine(r) /\ r.at = "idle" /\ r.then = "idle" /\ r.count = 0 /\ r.i = 0
        /\ r.call = c /\ r.depth = depth
    <3>1. NoLine \in Line({"idle", NULL, 0})
      BY DEF NoLine, Line
    <3>2. r \in Line({"idle", NULL, 0, c, depth})
      BY <3>1 DEF Line
    <3> QED BY <3>1, <3>2 DEF Line, NoLine, IsLine
  <2>2. BufferSize \in Nat \ {0} /\ 0 \in DOMAIN OptLen
    BY SerialAssumption
  <2> HIDE DEF r
  <2> QED BY <2>1, <2>2 DEF Good
<1>2. \E n, step : step \in {"get", "exit"} /\ s = emit(r, n, step)
  BY Zenon DEF begins
<1> HIDE DEF r
<1> QED BY <1>1, <1>2, EmitsGood

LEMMA KeyGood ==
  ASSUME NEW s, Good(s), NEW key
  PROVE  /\ Good([s EXCEPT !.key = key])
         /\ [s EXCEPT !.key = key].at = s.at
         /\ [s EXCEPT !.key = key].call = s.call /\ [s EXCEPT !.key = key].depth = s.depth
         /\ [s EXCEPT !.key = key].then = s.then
<1>1. PICK V : s \in Line(V)
  BY DEF Good, IsLine
<1>2. /\ [s EXCEPT !.key = key] \in Line(V \cup {key})
      /\ \A f \in {"at", "call", "then", "count", "i", "depth"} : [s EXCEPT !.key = key][f] = s[f]
  BY <1>1 DEF Line
<1> QED BY <1>2 DEF Good, IsLine

LEMMA StepGood ==
  ASSUME NEW s, Good(s), s.at # "idle", NEW at \in {"put", "arm", "get", "key", "exit"}
  PROVE  /\ Good([s EXCEPT !.at = at]) /\ [s EXCEPT !.at = at].at = at
         /\ [s EXCEPT !.at = at].call = s.call /\ [s EXCEPT !.at = at].depth = s.depth
         /\ [s EXCEPT !.at = at].then = s.then
<1>1. PICK V : s \in Line(V)
  BY DEF Good, IsLine
<1>2. /\ [s EXCEPT !.at = at] \in Line(V \cup {at})
      /\ [s EXCEPT !.at = at].at = at
      /\ \A f \in {"call", "then", "count", "i", "depth"} : [s EXCEPT !.at = at][f] = s[f]
  BY <1>1 DEF Line
<1> QED BY <1>2 DEF Good, IsLine

-----------------------------------------------------------------------------
(* The invariant *)

IsJob(j) == \E V : j \in [at : V, call : V, done : V]

\* The call of one byte on a side of a queue.
ByteCall(c, q) == c.q = q /\ c.size = 1 /\ ~ c.str

\* The sections that the queue call and the kernel call of t have opened.  Those
\* of an entry that leaves its client in a section count as the queue call's.
Entries == {"mutex_enterCritical", "mutexTimer_enterCritical"}
Calling(t) == IF job[t].at = "idle" THEN 0 ELSE 1
Away(t)    == IF pc[t].at \in {"user"} \cup Entries THEN 0 ELSE 1

Fits(t) ==
  /\ Good(line[t]) /\ IsJob(job[t]) /\ job[t].at \in {"idle", "moving", "leaving"}
  /\ job[t].at # "idle" =>
       \/ line[t].at = "arm" /\ ByteCall(job[t].call, Tx) /\ job[t].call.puts
       \/ line[t].at = "key" /\ ByteCall(job[t].call, Rx) /\ ~ job[t].call.puts
  /\ job[t].at = "moving" => job[t].done = 0
  /\ pc[t].at \in {"new", "boot", "run"} => line[t].at = "idle"
  /\ pc[t].at \in TimedLabels =>
       pc[t].at = "mutexTimer_enterCritical" /\ job[t].at = "moving"
  /\ line[t].at # "idle" => critical[t] = line[t].depth + 1 + Calling(t) + Away(t)

Shapes ==
  /\ critical \in [Threads -> Int] /\ pc = [t \in Threads |-> pc[t]]
  /\ job = [t \in Threads |-> job[t]] /\ line = [t \in Threads |-> line[t]]
  /\ ring = [q \in Queues |-> ring[q]]

SerialInv == Shapes /\ (\A t \in Threads : Fits(t)) /\ TransmitterArmed

\* A step of t, and what it must not undo for the transmitter.
Only(t) ==
  /\ \E n \in Int : critical' = [critical EXCEPT ![t] = n]
  /\ \E p : pc' = [pc EXCEPT ![t] = p]
  /\ \E j : job' = [job EXCEPT ![t] = j]
  /\ \E s : line' = [line EXCEPT ![t] = s]

Armed(t) == line[t].at = "arm" /\ job[t].at \in {"leaving", "idle"}

LEMMA StepInv ==
  ASSUME SerialInv, NEW t \in Threads, Only(t), ring' = [q \in Queues |-> ring'[q]],
         Fits(t)', TransmitterArmed'
  PROVE  SerialInv'
<1>1. Shapes'
  BY DEF SerialInv, Shapes, Only
<1>2. ASSUME NEW u \in Threads \ {t} PROVE Fits(u)'
  <2>1. /\ critical'[u] = critical[u] /\ pc'[u] = pc[u]
        /\ job'[u] = job[u] /\ line'[u] = line[u]
    BY DEF SerialInv, Shapes, Only
  <2> QED BY <2>1 DEF SerialInv, Fits, Calling, Away, Entries, Good, IsLine, IsJob, ByteCall
<1> QED BY <1>1, <1>2 DEF SerialInv

LEMMA StillArmed ==
  ASSUME SerialInv, NEW t \in Threads, Only(t),
         ring'[Tx].qty > 0 => ring[Tx].qty > 0, txie => txie', Armed(t) => Armed(t)'
  PROVE  TransmitterArmed'
<1>1. ASSUME NEW u \in Threads, Armed(u) PROVE Armed(u)'
  BY <1>1 DEF SerialInv, Shapes, Only, Armed
<1> QED BY <1>1 DEF SerialInv, TransmitterArmed, Armed

LEMMA SameInv ==
  ASSUME SerialInv, UNCHANGED <<critical, pc, job, line>>,
         ring' = [q \in Queues |-> ring'[q]], TransmitterArmed'
  PROVE  SerialInv'
BY DEF SerialInv, Shapes, Fits, Calling, Away, Entries, Good, IsLine, IsJob, ByteCall

LEMMA SameArmed ==
  ASSUME SerialInv, UNCHANGED <<job, line>>,
         ring'[Tx].qty > 0 => ring[Tx].qty > 0, txie => txie'
  PROVE  TransmitterArmed'
BY DEF SerialInv, TransmitterArmed

LEMMA IdleJob == Idle.at = "idle" /\ IsJob(Idle)
<1>1. Idle \in [at : {"idle", NULL, 0}, call : {"idle", NULL, 0}, done : {"idle", NULL, 0}]
  BY DEF Idle
<1> QED BY <1>1 DEF IsJob, Idle

LEMMA InitSerialInv == SerialInit => SerialInv
<1> SUFFICES ASSUME SerialInit PROVE SerialInv
  OBVIOUS
<1>1. /\ KernelInit /\ ring = [q \in Queues |-> queue_init(q)]
      /\ job = [t \in Threads |-> Idle] /\ line = [t \in Threads |-> NoLine]
  BY DEF SerialInit, QueueInit, MutexInit, TimerInit
<1>2. /\ critical \in [Threads -> Int] /\ pc = [t \in Threads |-> pc[t]]
      /\ \A t \in Threads : pc[t].at \notin TimedLabels
  BY <1>1 DEF KernelInit, At, TimedLabels
<1>3. \A t \in Threads : Fits(t)
  BY <1>1, <1>2, IdleJob, FirstLine DEF Fits
<1>4. TransmitterArmed
  <2>1. Tx \in Queues
    BY SerialAssumption
  <2>2. ring[Tx].qty = 0
    BY <1>1, <2>1 DEF queue_init
  <2> QED BY <2>2 DEF TransmitterArmed
<1> QED BY <1>1, <1>2, <1>3, <1>4 DEF SerialInv, Shapes

-----------------------------------------------------------------------------
(* The steps inside of a queue call *)

\* The line is as it was, but for the key that was got.
SameLine(t) ==
  \E s : /\ line' = [line EXCEPT ![t] = s] /\ Good(s)
         /\ s.at = line[t].at /\ s.call = line[t].call /\ s.depth = line[t].depth
         /\ s.then = line[t].then

LEMMA KeyKept ==
  ASSUME SerialInv, NEW t \in Threads, NEW key,
         line' = [line EXCEPT ![t].key = key] \/ line' = line
  PROVE  SameLine(t)
<1>1. Good(line[t]) /\ line = [u \in Threads |-> line[u]]
  BY DEF SerialInv, Fits, Shapes
<1>2. CASE line' = line
  <2>1. line' = [line EXCEPT ![t] = line[t]]
    BY <1>1, <1>2
  <2> QED BY <1>1, <2>1 DEF SameLine
<1>3. CASE line' = [line EXCEPT ![t].key = key]
  <2>1. line' = [line EXCEPT ![t] = [line[t] EXCEPT !.key = key]]
    BY <1>3
  <2> QED BY <1>1, <2>1, KeyGood DEF SameLine
<1> QED BY <1>2, <1>3

\* The sections are counted when the thread has job j and goes on at p.
LEMMA CallFits ==
  ASSUME SerialInv, NEW t \in Threads, SameLine(t), NEW n \in Int, NEW p, NEW j,
         critical' = [critical EXCEPT ![t] = n], pc' = [pc EXCEPT ![t] = p],
         job' = [job EXCEPT ![t] = j],
         IsJob(j), j.at \in {"idle", "moving", "leaving"},
         j.at # "idle" => job[t].at # "idle" /\ j.call = job[t].call,
         j.at = "moving" => j.done = 0,
         p.at \in {"new", "boot", "run"} => line[t].at = "idle",
         p.at \in TimedLabels => p.at = "mutexTimer_enterCritical" /\ j.at = "moving",
         line[t].at # "idle" =>
           n = critical[t] - Calling(t) - Away(t)
                 + (IF j.at = "idle" THEN 0 ELSE 1)
                 + (IF p.at \in {"user"} \cup Entries THEN 0 ELSE 1)
  PROVE  Only(t) /\ Fits(t)'
<1>1. PICK s : /\ line' = [line EXCEPT ![t] = s] /\ Good(s)
               /\ s.at = line[t].at /\ s.call = line[t].call /\ s.depth = line[t].depth
  BY DEF SameLine
<1>2. /\ critical'[t] = n /\ pc'[t] = p /\ job'[t] = j /\ line'[t] = s
      /\ Fits(t) /\ Good(line[t]) /\ critical[t] \in Int
  BY <1>1 DEF SerialInv, Shapes, Fits
<1>3. Only(t)
  BY <1>1 DEF Only
<1>4. line'[t].at # "idle" => critical'[t] = line'[t].depth + 1 + Calling(t)' + Away(t)'
  <2>1. /\ Calling(t)' = (IF j.at = "idle" THEN 0 ELSE 1)
        /\ Away(t)' = (IF p.at \in {"user"} \cup Entries THEN 0 ELSE 1)
    BY <1>2 DEF Calling, Away, Entries
  <2>2. line[t].at # "idle" => critical[t] = line[t].depth + 1 + Calling(t) + Away(t)
    BY <1>2 DEF Fits
  <2>3. line[t].depth \in Int /\ Calling(t) \in Int /\ Away(t) \in Int
    BY <1>2 DEF Good, Calling, Away
  <2> QED BY <1>1, <1>2, <2>1, <2>2, <2>3
<1>5. Good(line'[t]) /\ IsJob(job'[t])
  BY <1>1, <1>2
<1> QED
  BY <1>1, <1>2, <1>3, <1>4, <1>5
     DEF Fits, ByteCall, Good, IsLine, IsJob

\* Calls that leave the job alone.
LEMMA KernelFits ==
  ASSUME SerialInv, NEW t \in Threads, SameLine(t), UNCHANGED job,
         \/ Return(t)
         \/ \E p : /\ Leave(t, p) /\ pc[t].at = "user"
                   /\ p.at \notin {"user", "new", "boot", "run"} \cup Entries \cup TimedLabels
         \/ Finish(t) /\ Away(t) = 1
         \/ Entered(t) /\ pc[t].at \in EnterLabels
         \/ UNCHANGED <<critical, pc>>
  PROVE  Only(t) /\ Fits(t)'
<1>1. /\ Fits(t) /\ critical[t] \in Int /\ job' = [job EXCEPT ![t] = job[t]]
      /\ critical = [critical EXCEPT ![t] = critical[t]] /\ pc = [pc EXCEPT ![t] = pc[t]]
      /\ IsJob(job[t]) /\ job[t].at \in {"idle", "moving", "leaving"}
      /\ job[t].at = "moving" => job[t].done = 0
      /\ pc[t].at \in TimedLabels =>
           pc[t].at = "mutexTimer_enterCritical" /\ job[t].at = "moving"
      /\ Calling(t) = (IF job[t].at = "idle" THEN 0 ELSE 1)
      /\ Away(t) = (IF pc[t].at \in {"user"} \cup Entries THEN 0 ELSE 1)
      /\ At("user").at = "user" /\ "user" \notin TimedLabels
  BY DEF SerialInv, Shapes, Fits, Calling, Away, At, TimedLabels
<1>2. CASE UNCHANGED <<critical, pc>>
  <2>1. /\ pc[t].at \in {"new", "boot", "run"} => line[t].at = "idle"
        /\ critical' = [critical EXCEPT ![t] = critical[t]] /\ pc' = [pc EXCEPT ![t] = pc[t]]
    BY <1>1, <1>2 DEF Fits
  <2>2. critical[t] = critical[t] - Calling(t) - Away(t) + Calling(t) + Away(t)
    BY <1>1
  <2> QED BY <1>1, <2>1, <2>2, CallFits
<1>3. ASSUME NEW p, Leave(t, p), pc[t].at = "user",
             p.at \notin {"user", "new", "boot", "run"} \cup Entries \cup TimedLabels
      PROVE  Only(t) /\ Fits(t)'
  <2>1. /\ critical' = [critical EXCEPT ![t] = critical[t] + 1] /\ pc' = [pc EXCEPT ![t] = p]
        /\ Away(t) = 0 /\ critical[t] + 1 \in Int
        /\ critical[t] + 1 = critical[t] - Calling(t) - Away(t) + Calling(t) + 1
    BY <1>1, <1>3 DEF Leave
  <2> QED BY <1>1, <1>3, <2>1, CallFits
<1>4. CASE Finish(t) /\ Away(t) = 1
  <2>1. /\ critical' = [critical EXCEPT ![t] = critical[t] - 1]
        /\ pc' = [pc EXCEPT ![t] = At("user")] /\ critical[t] - 1 \in Int
        /\ critical[t] - 1 = critical[t] - Calling(t) - Away(t) + Calling(t) + 0
    BY <1>1, <1>4 DEF Finish
  <2> QED BY <1>1, <2>1, CallFits
<1>5. CASE Entered(t) /\ pc[t].at \in EnterLabels
  <2>1. CASE pc[t].at = "mutex_enter"
    <3>1. Finish(t) /\ Away(t) = 1
      BY <1>1, <1>5, <2>1 DEF Entered, staysCritical, Entries
    <3> QED BY <1>4, <3>1
  <2>2. CASE pc[t].at = "mutex_enterCritical"
    <3>1. /\ critical' = [critical EXCEPT ![t] = critical[t]]
          /\ pc' = [pc EXCEPT ![t] = At("user")] /\ Away(t) = 0
          /\ critical[t] = critical[t] - Calling(t) - Away(t) + Calling(t) + 0
      BY <1>1, <1>5, <2>2 DEF Entered, staysCritical, Entries
    <3> QED BY <1>1, <3>1, CallFits
  <2> QED BY <1>5, <2>1, <2>2 DEF EnterLabels
<1>6. CASE Return(t)
  BY <1>2, <1>6 DEF Return
<1> QED BY <1>2, <1>3, <1>4, <1>5, <1>6

LEMMA ReturnsFits ==
  ASSUME SerialInv, NEW t \in Threads, SameLine(t), Returns(t), UNCHANGED job
  PROVE  Only(t) /\ Fits(t)'
<1>1. ASSUME Finish(t), pc[t].at \in {"yield", "event_wait"} \cup TimerLabels
      PROVE  Only(t) /\ Fits(t)'
  <2>1. Away(t) = 1
    BY <1>1 DEF Away, Entries, TimerLabels
  <2> QED BY <1>1, <2>1, KernelFits
<1>2. CASE \E labels : checkIRQ(t, labels)
  BY <1>2, KernelFits DEF checkIRQ
<1>3. CASE mutex_enter_retry(t)
  BY <1>3, KernelFits DEF mutex_enter_retry
<1> QED
  BY <1>1, <1>2, <1>3 DEF Returns, yield_return, event_wait_return, timer_return

LEMMA TimedEntryFits ==
  ASSUME SerialInv, NEW t \in Threads, SameLine(t), timed_entry(t)
  PROVE  Only(t) /\ Fits(t)'
<1>1. /\ mutexTimer_return(t) /\ pc[t].at = "mutexTimer_enterCritical"
      /\ job[t].at = "moving" /\ job[t].done = 0 /\ IsJob(job[t]) /\ critical[t] \in Int
      /\ Calling(t) = 1 /\ Away(t) = 0 /\ At("user").at = "user" /\ "user" \notin TimedLabels
  BY DEF SerialInv, Fits, Shapes, timed_entry, mutexTimer_return, Calling, Away, Entries,
         At, TimedLabels
<1>2. CASE TimedEntry(t) /\ Entered(t)
  <2>1. /\ critical' = [critical EXCEPT ![t] = critical[t]]
        /\ pc' = [pc EXCEPT ![t] = At("user")] /\ job' = [job EXCEPT ![t] = job[t]]
    BY <1>1, <1>2 DEF timed_entry, Entered, staysCritical, SerialInv, Shapes
  <2>2. critical[t] = critical[t] - Calling(t) - Away(t) + 1 + 0
    BY <1>1
  <2> QED BY <1>1, <2>1, <2>2, CallFits
<1>3. CASE ~ TimedEntry(t) /\ Finish(t)
  <2>1. /\ critical' = [critical EXCEPT ![t] = critical[t] - 1]
        /\ pc' = [pc EXCEPT ![t] = At("user")] /\ job' = [job EXCEPT ![t] = Idle]
    BY <1>1, <1>3 DEF timed_entry, Finish
  <2>2. /\ critical[t] - 1 = critical[t] - Calling(t) - Away(t) + 0 + 0
        /\ critical[t] - 1 \in Int
    BY <1>1
  <2> QED BY <1>1, <2>1, <2>2, IdleJob, CallFits
<1> QED BY <1>1, <1>2, <1>3 DEF mutexTimer_return

LEMMA WaitFits ==
  ASSUME SerialInv, NEW t \in Threads, SameLine(t), queue_wait(t)
  PROVE  Only(t) /\ Fits(t)'
<1> DEFINE timedPoint(e, tm) == [at |-> "eventTimer_wait", on |-> e, timer |-> tm]
<1>1. /\ pc[t].at = "user" /\ UNCHANGED job
      /\ \/ \E e : Leave(t, Inside("event_wait", e))
         \/ \E e, tm : Leave(t, timedPoint(e, tm))
  BY DEF queue_wait, Doing, User, event_wait, eventTimer_wait
<1>2. \A e : Inside("event_wait", e).at = "event_wait"
  BY DEF Inside
<1>3. \A e, tm : timedPoint(e, tm).at = "eventTimer_wait"
  OBVIOUS
<1>4. {"event_wait", "eventTimer_wait"}
        \cap ({"user", "new", "boot", "run"} \cup Entries \cup TimedLabels) = {}
  BY DEF Entries, TimedLabels
<1> HIDE DEF timedPoint
<1> QED BY <1>1, <1>2, <1>3, <1>4, KernelFits

LEMMA TimedWaitFits ==
  ASSUME SerialInv, NEW t \in Threads, SameLine(t), timed_wait(t)
  PROVE  Only(t) /\ Fits(t)'
<1>1. PICK at \in {"moving", "leaving"} : job' = [job EXCEPT ![t].at = at]
  BY DEF timed_wait
<1> DEFINE j == [job[t] EXCEPT !.at = at]
<1>2. /\ Finish(t) /\ pc[t].at = "eventTimer_wait" /\ critical[t] \in Int
      /\ job[t].at = "moving" /\ job[t].done = 0
      /\ Calling(t) = 1 /\ Away(t) = 1 /\ At("user").at = "user" /\ "user" \notin TimedLabels
  BY DEF SerialInv, Fits, Shapes, timed_wait, eventTimer_return, Calling, Away, Entries,
         At, TimedLabels
<1>3. IsJob(j) /\ j.at = at /\ j.call = job[t].call /\ j.done = 0
  <2>1. PICK V : job[t] \in [at : V, call : V, done : V]
    BY DEF SerialInv, Fits, IsJob
  <2>2. /\ j \in [at : V \cup {at}, call : V \cup {at}, done : V \cup {at}]
        /\ j.at = at /\ j.call = job[t].call /\ j.done = job[t].done
    BY <2>1
  <2> HIDE DEF j
  <2> QED BY <1>2, <2>2 DEF IsJob
<1>4. /\ critical' = [critical EXCEPT ![t] = critical[t] - 1]
      /\ pc' = [pc EXCEPT ![t] = At("user")] /\ job' = [job EXCEPT ![t] = j]
  BY <1>1, <1>2 DEF Finish
<1> HIDE DEF j
<1>5. /\ critical[t] - 1 = critical[t] - Calling(t) - Away(t) + 1 + 0
      /\ critical[t] - 1 \in Int
  BY <1>2
<1> QED BY <1>2, <1>3, <1>4, <1>5, CallFits

LEMMA LeaveFits ==
  ASSUME SerialInv, NEW t \in Threads, SameLine(t), queue_leave(t)
  PROVE  Only(t) /\ Fits(t)'
<1>1. /\ job[t].at = "leaving" /\ pc[t].at = "user" /\ critical[t] \in Int
      /\ Calling(t) = 1 /\ Away(t) = 0 /\ job' = [job EXCEPT ![t] = Idle]
      /\ critical = [critical EXCEPT ![t] = critical[t]]
  BY DEF SerialInv, Fits, Shapes, queue_leave, Doing, User, Calling, Away
<1>2. /\ At("user").at = "user" /\ At("yield").at = "yield"
      /\ {"user", "yield"} \cap TimedLabels = {} /\ "yield" \notin {"user"} \cup Entries
  BY DEF At, TimedLabels, Entries
<1>3. CASE pc' = [pc EXCEPT ![t] = At("yield")] /\ UNCHANGED critical
  <2>1. critical[t] = critical[t] - Calling(t) - Away(t) + 0 + 1
    BY <1>1
  <2> QED BY <1>1, <1>2, <1>3, <2>1, IdleJob, CallFits
<1>4. CASE Finish(t)
  <2>1. /\ critical[t] - 1 = critical[t] - Calling(t) - Away(t) + 0 + 0
        /\ critical[t] - 1 \in Int
    BY <1>1
  <2> QED BY <1>1, <1>2, <1>4, <2>1, IdleJob, CallFits DEF Finish
<1> QED BY <1>3, <1>4 DEF queue_leave, mutex_exitCritical

\* A byte is the only one of its call, which leaves when it was moved.
LEMMA MoveFits ==
  ASSUME SerialInv, NEW t \in Threads, SameLine(t), queue_move(t)
  PROVE  Only(t) /\ Fits(t)' /\ job'[t].at = "leaving"
<1>1. /\ job[t].at = "moving" /\ job[t].done = 0 /\ job[t].call.size = 1
      /\ ~ job[t].call.str /\ IsJob(job[t]) /\ pc[t].at = "user" /\ critical[t] \in Int
      /\ Calling(t) = 1 /\ Away(t) = 0 /\ job = [u \in Threads |-> job[u]]
      /\ critical = [critical EXCEPT ![t] = critical[t]] /\ pc = [pc EXCEPT ![t] = pc[t]]
  BY DEF SerialInv, Fits, Shapes, ByteCall, queue_move, Doing, User, Calling, Away
<1>2. lastMove(t)
  BY <1>1 DEF lastMove
<1>3. PICK d : job' = [job EXCEPT ![t].done = d, ![t].at = "leaving"]
  BY <1>2 DEF queue_move
<1> DEFINE first == [job[t] EXCEPT !.done = d]
           j == [first EXCEPT !.at = "leaving"]
           half == [job EXCEPT ![t] = first]
<1>4. IsJob(j) /\ j.at = "leaving" /\ j.call = job[t].call
  <2>1. PICK V : job[t] \in [at : V, call : V, done : V]
    BY <1>1 DEF IsJob
  <2>2. /\ first \in [at : V \cup {d}, call : V \cup {d}, done : V \cup {d}]
        /\ first.call = job[t].call
    BY <2>1
  <2> DEFINE W == V \cup {d, "leaving"}
  <2>3. j \in [at : W, call : W, done : W] /\ j.at = "leaving" /\ j.call = first.call
    BY <2>2
  <2> HIDE DEF first, j, W
  <2> QED BY <2>2, <2>3 DEF IsJob
<1>5. job' = [job EXCEPT ![t] = j]
  <2>1. job' = [half EXCEPT ![t] = [half[t] EXCEPT !.at = "leaving"]]
    BY <1>3
  <2> HIDE DEF first
  <2>2. half[t] = first
    BY <1>1
  <2> QED BY <1>1, <2>1, <2>2
<1> HIDE DEF j, first, half
<1>6. /\ At("yield").at = "yield" /\ "yield" \notin {"user"} \cup Entries
      /\ {"user", "yield"} \cap TimedLabels = {}
  BY DEF At, Entries, TimedLabels
<1>7. CASE Leave(t, At("yield"))
  <2>1. /\ critical[t] + 1 = critical[t] - Calling(t) - Away(t) + 1 + 1
        /\ critical[t] + 1 \in Int
    BY <1>1
  <2>2. Only(t) /\ Fits(t)'
    BY <1>1, <1>4, <1>5, <1>6, <1>7, <2>1, CallFits DEF Leave
  <2> QED BY <1>1, <1>4, <1>5, <2>2
<1>8. CASE UNCHANGED <<critical, pc>>
  <2>1. /\ critical' = [critical EXCEPT ![t] = critical[t]]
        /\ pc' = [pc EXCEPT ![t] = pc[t]]
        /\ critical[t] = critical[t] - Calling(t) - Away(t) + 1 + 0
    BY <1>1, <1>8
  <2>2. Only(t) /\ Fits(t)'
    BY <1>1, <1>4, <1>5, <1>6, <2>1, CallFits
  <2> QED BY <1>1, <1>4, <1>5, <2>2
<1> QED
  BY <1>7, <1>8
     DEF queue_move, event_notify, ResumeFromPriorList, ResumeAndReturn, Return, kernelVars

LEMMA CallStep ==
  ASSUME SerialInv, NEW t \in Threads, InQueue(t)
  PROVE  SerialInv' /\ Only(t) /\ line'[t].at = line[t].at
<1>1. SameLine(t) /\ line'[t].at = line[t].at
  <2>1. \E key : line' = [line EXCEPT ![t].key = key] \/ line' = line
    BY DEF InQueue
  <2>2. SameLine(t)
    BY <2>1, KeyKept
  <2> QED BY <2>2 DEF SameLine, SerialInv, Shapes
<1>2. /\ Rx # Tx /\ {Rx, Tx} = Queues /\ txie' = txie
      /\ ring = [q \in Queues |-> ring[q]] /\ job = [u \in Threads |-> job[u]]
      /\ Fits(t)
  BY SerialAssumption DEF SerialInv, Shapes, InQueue
<1>3. ASSUME ring' = ring, Only(t) /\ Fits(t)', Armed(t) => Armed(t)'
      PROVE  SerialInv'
  <2>1. TransmitterArmed'
    BY <1>2, <1>3, StillArmed
  <2> QED BY <1>2, <1>3, <2>1, StepInv
<1>4. CASE Returns(t) /\ UNCHANGED <<ring, job>>
  BY <1>1, <1>3, <1>4, ReturnsFits DEF Armed
<1>5. CASE timed_entry(t)
  <2>1. ring' = ring /\ ~ Armed(t)
    BY <1>2, <1>5 DEF timed_entry, mutexTimer_return, Fits, Armed
  <2> QED BY <1>1, <1>3, <1>5, <2>1, TimedEntryFits
<1>6. CASE queue_wait(t)
  <2>1. ring' = ring /\ ~ Armed(t)
    BY <1>6 DEF queue_wait, Doing, Armed
  <2> QED BY <1>1, <1>3, <1>6, <2>1, WaitFits
<1>7. CASE timed_wait(t)
  <2>1. ring' = ring /\ ~ Armed(t)
    BY <1>7 DEF timed_wait, Armed
  <2> QED BY <1>1, <1>3, <1>7, <2>1, TimedWaitFits
<1>8. CASE queue_leave(t)
  <2>1. ring' = ring /\ job'[t] = Idle
    BY <1>2, <1>8 DEF queue_leave
  <2>2. Armed(t) => Armed(t)'
    BY <1>1, <2>1, IdleJob DEF Armed
  <2> QED BY <1>1, <1>3, <1>8, <2>1, <2>2, LeaveFits
<1>9. CASE queue_move(t)
  <2>1. Only(t) /\ Fits(t)' /\ job'[t].at = "leaving"
    BY <1>1, <1>9, MoveFits
  <2>2. PICK r : ring' = [ring EXCEPT ![job[t].call.q] = r]
    BY <1>9 DEF queue_move
  <2>3. \/ job[t].call.q = Tx /\ line[t].at = "arm"
        \/ job[t].call.q = Rx
    BY <1>2, <1>9 DEF Fits, ByteCall, queue_move, Doing
  <2>4. TransmitterArmed'
    <3>1. CASE line[t].at = "arm"
      BY <1>1, <2>1, <3>1 DEF TransmitterArmed
    <3>2. CASE job[t].call.q = Rx
      <4>1. ring'[Tx] = ring[Tx]
        BY <1>2, <2>2, <3>2
      <4>2. ~ Armed(t)
        BY <1>9 DEF queue_move, Doing, Armed
      <4> QED BY <1>2, <2>1, <4>1, <4>2, StillArmed
    <3> QED BY <2>3, <3>1, <3>2
  <2>5. ring' = [q \in Queues |-> ring'[q]]
    BY <1>2, <2>2
  <2>6. SerialInv'
    BY <2>1, <2>4, <2>5, StepInv
  <2> QED BY <1>1, <2>1, <2>6
<1> QED
  BY <1>4, <1>5, <1>6, <1>7, <1>8, <1>9 DEF InQueue, InCall

-----------------------------------------------------------------------------
(* The other steps *)

LEMMA FinishedGood ==
  ASSUME NEW s, Good(s)
  PROVE  /\ Good(finished(s)) /\ finished(s).at = s.at
         /\ s.at # "idle" => finished(s) = s
BY FirstLine DEF finished

\* A step between two queue calls.
LEMMA LineStep ==
  ASSUME SerialInv, NEW t \in Threads, AtStep(t, line[t].at), UNCHANGED <<pc, ring, job>>,
         NEW n \in Int, NEW s, Good(s), s.at # "idle" => n = s.depth + 1,
         critical' = [critical EXCEPT ![t] = n], line' = [line EXCEPT ![t] = s],
         txie => txie', line[t].at = "arm" => txie'
  PROVE  SerialInv' /\ Only(t)
<1>1. /\ Fits(t) /\ pc[t].at = "user" /\ job[t].at = "idle" /\ IsJob(job[t])
      /\ pc = [pc EXCEPT ![t] = pc[t]] /\ job = [job EXCEPT ![t] = job[t]]
      /\ line'[t] = s /\ critical'[t] = n /\ s.depth \in Int
      /\ "user" \notin TimedLabels
  BY DEF SerialInv, Shapes, Fits, AtStep, Doing, User, Good, TimedLabels
<1>2. Only(t)
  BY <1>1 DEF Only
<1>3. Calling(t)' = 0 /\ Away(t)' = 0 /\ pc'[t] = pc[t] /\ job'[t] = job[t]
  BY <1>1 DEF Calling, Away
<1>4. Fits(t)'
  BY <1>1, <1>3 DEF Fits, Good, IsLine, IsJob
<1>5. TransmitterArmed'
  <2>1. Armed(t) => txie'
    BY DEF Armed
  <2>2. ASSUME NEW u \in Threads \ {t}, Armed(u) PROVE Armed(u)'
    BY <2>2 DEF SerialInv, Shapes, Armed
  <2> QED BY <2>1, <2>2 DEF SerialInv, TransmitterArmed, Armed
<1>6. ring' = [q \in Queues |-> ring'[q]]
  BY DEF SerialInv, Shapes
<1> QED BY <1>2, <1>4, <1>5, <1>6, StepInv

LEMMA BeginStep ==
  ASSUME SerialInv, NEW t \in Threads, NEW c, serial_begin(t, c)
  PROVE  SerialInv' /\ Only(t)
<1>1. /\ critical[t] \in Int /\ critical' = [critical EXCEPT ![t] = critical[t] + 1]
      /\ UNCHANGED <<pc, ring, job, txie>> /\ line[t].at = "idle" /\ AtStep(t, line[t].at)
  BY DEF SerialInv, Shapes, serial_begin, task_enterCritical, AtStep
<1>2. PICK s \in begins(c, critical[t]) : line' = [line EXCEPT ![t] = s]
  BY DEF serial_begin
<1>3. Good(s) /\ s.depth = critical[t] /\ critical[t] + 1 \in Int
  BY <1>1, <1>2, BeginsGood
<1>4. /\ s.at # "idle" => critical[t] + 1 = s.depth + 1
      /\ txie => txie'
      /\ line[t].at = "arm" => txie'
  BY <1>1, <1>3
<1> QED BY <1>1, <1>2, <1>3, <1>4, LineStep

LEMMA PutEndStep ==
  ASSUME SerialInv, NEW t \in Threads, _put_end(t)
  PROVE  /\ SerialInv' /\ Only(t) /\ critical'[t] = line[t].depth + 1
         /\ line'[t].at = "idle" => line[t].call = "serial_option"
<1> DEFINE s == emit(line[t], line[t].out - 1, line[t].then)
<1>1. /\ critical' = [critical EXCEPT ![t] = critical[t]] /\ critical[t] \in Int
      /\ UNCHANGED <<pc, ring, job>> /\ txie' /\ line[t].at = "arm"
      /\ AtStep(t, line[t].at) /\ line' = [line EXCEPT ![t] = finished(s)]
      /\ Good(line[t]) /\ line'[t] = finished(s)
      /\ critical[t] = line[t].depth + 1 + Calling(t) + Away(t)
      /\ Calling(t) = 0 /\ Away(t) = 0 /\ line[t].depth \in Int
  BY DEF SerialInv, Shapes, Fits, Good, _put_end, AtStep, Doing, User, queueVars, mutexVars,
         Calling, Away
<1>2. /\ Good(s) /\ s.depth = line[t].depth /\ s.at \in {"put", line[t].then}
  BY <1>1, Emits DEF Good
<1> HIDE DEF s
<1>3. SerialInv' /\ Only(t)
  <2>1. /\ Good(finished(s)) /\ critical[t] = line[t].depth + 1
        /\ finished(s).at # "idle" => finished(s).depth = line[t].depth
    BY <1>1, <1>2, FinishedGood
  <2>2. finished(s).at # "idle" => critical[t] = finished(s).depth + 1
    BY <2>1
  <2>3. (txie => txie') /\ (line[t].at = "arm" => txie')
    BY <1>1
  <2> QED BY <1>1, <2>1, <2>2, <2>3, LineStep
<1>4. critical'[t] = critical[t]
  BY <1>1
<1>5. line[t].then = "idle" => line[t].call = "serial_option"
  BY <1>1 DEF Good
<1>6. critical[t] = line[t].depth + 1
  BY <1>1
<1> QED BY <1>1, <1>2, <1>3, <1>4, <1>5, <1>6, FinishedGood

LEMMA GetEndStep ==
  ASSUME SerialInv, NEW t \in Threads, _get_end(t)
  PROVE  SerialInv' /\ Only(t) /\ line'[t].at # "idle"
<1>1. /\ critical' = [critical EXCEPT ![t] = critical[t]] /\ critical[t] \in Int
      /\ UNCHANGED <<pc, ring, job, txie>> /\ line[t].at = "key"
      /\ AtStep(t, line[t].at) /\ line' = [line EXCEPT ![t] = finished(answered(line[t]))]
      /\ Good(line[t]) /\ line'[t] = finished(answered(line[t]))
      /\ critical[t] = line[t].depth + 1 + Calling(t) + Away(t)
      /\ Calling(t) = 0 /\ Away(t) = 0 /\ line[t].depth \in Int
  BY DEF SerialInv, Shapes, Fits, Good, _get_end, AtStep, Doing, User, queueVars, mutexVars,
         Calling, Away
<1>2. /\ Good(answered(line[t])) /\ answered(line[t]).at # "idle"
      /\ answered(line[t]).depth = line[t].depth
  BY <1>1, AnsweredGood
<1>3. finished(answered(line[t])) = answered(line[t])
  BY <1>2, FinishedGood
<1>4. critical[t] = answered(line[t]).depth + 1
  BY <1>1, <1>2
<1>5. line[t].at = "arm" => txie'
  BY <1>1
<1> QED BY <1>1, <1>2, <1>3, <1>4, <1>5, LineStep

LEMMA EndStep ==
  ASSUME SerialInv, NEW t \in Threads, serial_end(t)
  PROVE  SerialInv' /\ Only(t) /\ critical'[t] = line[t].depth
<1>1. /\ critical[t] \in Int /\ critical' = [critical EXCEPT ![t] = critical[t] - 1]
      /\ UNCHANGED <<pc, ring, job, txie>> /\ line[t].at = "exit"
      /\ AtStep(t, line[t].at) /\ line' = [line EXCEPT ![t] = NoLine]
      /\ critical[t] = line[t].depth + 1 + Calling(t) + Away(t)
      /\ Calling(t) = 0 /\ Away(t) = 0 /\ line[t].depth \in Int
  BY DEF SerialInv, Shapes, Fits, Good, serial_end, task_exitCritical, AtStep, Doing, User,
         Calling, Away
<1>2. critical[t] - 1 = line[t].depth /\ critical[t] - 1 \in Int
  BY <1>1
<1>3. line[t].at = "arm" => txie'
  BY <1>1
<1>4. SerialInv' /\ Only(t)
  BY <1>1, <1>2, <1>3, FirstLine, LineStep
<1>5. critical'[t] = critical[t] - 1
  BY <1>1 DEF SerialInv, Shapes
<1> QED BY <1>2, <1>4, <1>5

\* A serial call makes a queue call, and is at line s while it lasts.
LEMMA EnterStep ==
  ASSUME SerialInv, NEW t \in Threads, NEW c, NEW s, queue_enter(t, c),
         line[t].at \in {"put", "get"}, Good(s), s.depth = line[t].depth,
         \/ s.at = "arm" /\ ByteCall(c, Tx) /\ c.puts
         \/ s.at = "key" /\ ByteCall(c, Rx) /\ ~ c.puts,
         line' = [line EXCEPT ![t] = s], UNCHANGED txie
  PROVE  SerialInv' /\ Only(t)
<1> DEFINE j == [at |-> "moving", call |-> c, done |-> 0]
           point(p) == \/ p.at = "user"
                       \/ p.at = "mutex_enterCritical"
                       \/ p.at = "mutexTimer_enterCritical"
<1>1. /\ Fits(t) /\ pc[t].at = "user" /\ job[t].at = "idle" /\ critical[t] \in Int
      /\ job' = [job EXCEPT ![t] = j] /\ UNCHANGED ring /\ line'[t] = s /\ job'[t] = j
      /\ line[t].depth \in Int
  BY DEF SerialInv, Shapes, Fits, Good, queue_enter, Doing, User
<1>2. PICK p : Leave(t, p) /\ point(p)
  <2>1. /\ At("user").at = "user"
        /\ \A m : Inside("mutex_enterCritical", m).at = "mutex_enterCritical"
        /\ \A m, tm : [at |-> "mutexTimer_enterCritical", on |-> m, timer |-> tm].at
                        = "mutexTimer_enterCritical"
    BY DEF At, Inside
  <2>2. ASSUME NEW m, NEW label \in {"mutex_enterCritical", "mutexTimer_enterCritical"},
               mutex_enter_free(t, m, label)
        PROVE  Leave(t, At("user"))
    BY <2>2 DEF mutex_enter_free, staysCritical
  <2>3. ASSUME NEW m, mutex_enter_wait(t, m, "mutex_enterCritical")
        PROVE  Leave(t, Inside("mutex_enterCritical", m))
    BY <2>3 DEF mutex_enter_wait
  <2>4. ASSUME NEW m, NEW tm, mutexTimer_enter_wait(t, m, tm, "mutexTimer_enterCritical")
        PROVE  Leave(t, [at |-> "mutexTimer_enterCritical", on |-> m, timer |-> tm])
    BY <2>4 DEF mutexTimer_enter_wait
  <2> QED BY <2>1, <2>2, <2>3, <2>4 DEF queue_enter
<1>3. /\ critical' = [critical EXCEPT ![t] = critical[t] + 1]
      /\ pc' = [pc EXCEPT ![t] = p] /\ pc'[t] = p /\ critical'[t] = critical[t] + 1
      /\ critical[t] + 1 \in Int
  BY <1>1, <1>2 DEF Leave, SerialInv, Shapes
<1>4. Only(t)
  BY <1>1, <1>3 DEF Only
<1>5. IsJob(j) /\ j.at = "moving" /\ j.call = c /\ j.done = 0
  <2>1. j \in [at : {"moving", c, 0}, call : {"moving", c, 0}, done : {"moving", c, 0}]
    OBVIOUS
  <2> HIDE DEF j
  <2>2. IsJob(j)
    BY <2>1 DEF IsJob
  <2> QED BY <2>2 DEF j
<1> HIDE DEF j
<1>6. /\ Calling(t)' = 1 /\ Away(t)' = 0 /\ Calling(t) = 0 /\ Away(t) = 0
      /\ critical[t] = line[t].depth + 1 + Calling(t) + Away(t)
  BY <1>1, <1>2, <1>3, <1>5 DEF Calling, Away, Entries, Fits
<1>7. critical'[t] = s.depth + 1 + Calling(t)' + Away(t)'
  BY <1>1, <1>3, <1>6
<1>8. Fits(t)'
  BY <1>1, <1>2, <1>3, <1>5, <1>7 DEF Fits, ByteCall, Good, IsLine, IsJob, TimedLabels
<1>9. TransmitterArmed'
  <2>1. ~ Armed(t)
    BY DEF Armed
  <2> QED BY <1>1, <1>4, <2>1, StillArmed
<1>10. ring' = [q \in Queues |-> ring'[q]]
  BY <1>1 DEF SerialInv, Shapes
<1> QED BY <1>4, <1>8, <1>9, <1>10, StepInv

LEMMA ByteCalls ==
  /\ ByteCall(queue_put8(Tx), Tx) /\ queue_put8(Tx).puts
  /\ ByteCall(queue_get8(Rx), Rx) /\ ~ queue_get8(Rx).puts
  /\ \A tm : ByteCall(queueTimer_get8(Rx, tm), Rx) /\ ~ queueTimer_get8(Rx, tm).puts
BY DEF ByteCall, queue_put8, queue_get8, queueTimer_get8, call

LEMMA PutGetStep ==
  ASSUME SerialInv, NEW t \in Threads, _put(t) \/ _get(t)
  PROVE  SerialInv' /\ Only(t) /\ line'[t].at # "idle"
<1>1. Good(line[t]) /\ line = [u \in Threads |-> line[u]]
  BY DEF SerialInv, Fits, Shapes
<1>2. CASE _put(t)
  <2> DEFINE s == [line[t] EXCEPT !.at = "arm"]
  <2>1. /\ line[t].at = "put" /\ queue_enter(t, queue_put8(Tx)) /\ UNCHANGED txie
        /\ line' = [line EXCEPT ![t] = s]
    BY <1>2 DEF _put, AtStep
  <2>2. Good(s) /\ s.at = "arm" /\ s.depth = line[t].depth
    BY <1>1, <2>1, StepGood
  <2>3. line'[t] = s
    BY <1>1, <2>1
  <2> HIDE DEF s
  <2> QED BY <2>1, <2>2, <2>3, ByteCalls, EnterStep
<1>3. CASE _get(t)
  <2> DEFINE s0 == [line[t] EXCEPT !.at = "key"]
             s == [s0 EXCEPT !.key = NULL]
             half == [line EXCEPT ![t] = s0]
  <2>1. PICK c : queue_enter(t, c) /\ ByteCall(c, Rx) /\ ~ c.puts
    BY <1>3, ByteCalls DEF _get
  <2>2. line[t].at = "get" /\ UNCHANGED txie
    BY <1>3 DEF _get, AtStep
  <2>3. Good(s0) /\ s0.at = "key" /\ s0.depth = line[t].depth
    BY <1>1, <2>2, StepGood
  <2>4. line' = [half EXCEPT ![t] = [half[t] EXCEPT !.key = NULL]]
    BY <1>3 DEF _get
  <2> HIDE DEF s0
  <2>5. Good(s) /\ s.at = "key" /\ s.depth = line[t].depth
    BY <2>3, KeyGood
  <2>6. half[t] = s0
    BY <1>1
  <2>7. line' = [line EXCEPT ![t] = s]
    BY <1>1, <2>4, <2>6
  <2>8. line'[t] = s
    BY <1>1, <2>7
  <2> HIDE DEF s, half
  <2> QED BY <2>1, <2>2, <2>5, <2>7, <2>8, EnterStep
<1> QED BY <1>2, <1>3

LEMMA ClientStep ==
  ASSUME SerialInv, NEW t \in Threads,
         \/ line[t].at = "idle" /\ rest(t) /\ UNCHANGED <<txie, line>>
         \/ setTick_client(t)
  PROVE  SerialInv' /\ Only(t)
<1>1. UNCHANGED <<ring, job, txie, line>>
  BY DEF rest, setTick_client
<1>2. SameLine(t)
  BY <1>1, KeyKept
<1>3. Only(t) /\ Fits(t)'
  <2>1. Inside("event_wait", NULL).at = "event_wait"
        /\ \A e : Inside("event_wait", e).at = "event_wait"
    BY DEF Inside
  <2>2. "event_wait" \notin {"user", "new", "boot", "run"} \cup Entries \cup TimedLabels
    BY DEF Entries, TimedLabels
  <2>3. \/ Return(t)
        \/ \E e : Leave(t, Inside("event_wait", e)) /\ pc[t].at = "user"
    BY DEF rest, event_wait, User, setTick_client, task_setTimeout, SetDue
  <2> QED BY <1>1, <1>2, <2>1, <2>2, <2>3, KernelFits
<1>4. TransmitterArmed' /\ ring' = [q \in Queues |-> ring'[q]]
  BY <1>1, SameArmed DEF SerialInv, Shapes
<1> QED BY <1>3, <1>4, StepInv

LEMMA InterruptStep ==
  ASSUME SerialInv,
         \/ \E t \in Threads : _usciAB0_rx_isr(t) \/ _usciAB0_tx_isr(t)
         \/ (tick \/ interrupt) /\ UNCHANGED <<txie, line>>
         \/ UNCHANGED serialVars
  PROVE  SerialInv'
<1>1. Tx \in Queues /\ Rx \in Queues /\ Rx # Tx /\ ring = [q \in Queues |-> ring[q]]
  BY SerialAssumption DEF SerialInv, Shapes
<1>2. CASE \E t \in Threads : _usciAB0_rx_isr(t)
  <2>1. /\ UNCHANGED <<critical, pc, job, line, txie>>
        /\ ring' = ring \/ \E r : ring' = [ring EXCEPT ![Rx] = r]
    BY <1>2 DEF _usciAB0_rx_isr, queue_put8ISR, notifyISR, event_notifyISR,
                ResumeFromPriorListISR, kernelVars
  <2>2. ring'[Tx] = ring[Tx] /\ ring' = [q \in Queues |-> ring'[q]]
    BY <1>1, <2>1
  <2> QED BY <2>1, <2>2, SameArmed, SameInv
<1>3. CASE \E t \in Threads : _usciAB0_tx_isr(t)
  <2>1. /\ UNCHANGED <<critical, pc, job, line>> /\ txie
        /\ \/ txie' = txie /\ \E r : ring' = [ring EXCEPT ![Tx] = r]
           \/ ring' = ring /\ isEmpty(Tx)
    BY <1>3 DEF _usciAB0_tx_isr, queue_get8ThdISR, notifyISR, event_notifyISR,
                ResumeFromPriorListISR, kernelVars, queueVars, mutexVars
  <2>2. ring' = [q \in Queues |-> ring'[q]]
    BY <1>1, <2>1
  <2>3. TransmitterArmed'
    <3>1. txie' \/ ring'[Tx].qty = 0
      BY <2>1 DEF isEmpty
    <3> QED BY <3>1 DEF TransmitterArmed
  <2> QED BY <2>1, <2>2, <2>3, SameInv
<1>4. CASE ((tick \/ interrupt) /\ UNCHANGED <<txie, line>>) \/ UNCHANGED serialVars
  <2>1. UNCHANGED <<critical, pc, job, line, txie, ring>>
    BY <1>4 DEF tick, timer_tick, interrupt, event_notifyISR, ResumeFromPriorListISR,
                serialVars, queueVars, mutexVars
  <2> QED BY <1>1, <2>1, SameArmed, SameInv
<1> QED BY <1>2, <1>3, <1>4

LEMMA BootFits == ASSUME SerialInv, Boot PROVE SerialInv'
<1>1. UNCHANGED <<ring, job, txie, line>> /\ ring' = [q \in Queues |-> ring'[q]]
  BY DEF Boot, SerialInv, Shapes
<1>2. TransmitterArmed'
  BY <1>1, SameArmed
<1>3. Background \in Threads
  BY KernelAssumption
<1> DEFINE goes(t, label, n) ==
             /\ pc[t].at = "new" \/ pc[t].at = "boot" \/ pc[t].at = "run"
             /\ critical' = [critical EXCEPT ![t] = n] /\ pc' = [pc EXCEPT ![t] = At(label)]
<1>4. PICK t \in Threads, label \in {"run", "user"}, n \in Int : goes(t, label, n)
  <2>1. CASE \E th \in Threads : scheduler_add(th)
    <3>1. PICK th \in Threads : scheduler_add(th)
      BY <2>1
    <3>2. goes(th, "user", 0)
      BY <3>1 DEF scheduler_add
    <3> HIDE DEF goes
    <3> QED BY <3>2
  <2>2. CASE scheduler_run
    <3>1. goes(Background, "run", critical[Background]) /\ critical[Background] \in Int
      BY <1>3, <2>2 DEF scheduler_run, SerialInv, Shapes
    <3> HIDE DEF goes
    <3> QED BY <1>3, <3>1
  <2>3. CASE scheduler_run_return
    <3>1. goes(Background, "user", 0)
      BY <2>3 DEF scheduler_run_return
    <3> HIDE DEF goes
    <3> QED BY <1>3, <3>1
  <2> QED BY <2>1, <2>2, <2>3 DEF Boot, boot
<1>5. /\ Fits(t) /\ line[t].at = "idle" /\ line'[t] = line[t] /\ job'[t] = job[t]
      /\ pc'[t] = At(label)
      /\ job' = [job EXCEPT ![t] = job[t]] /\ line' = [line EXCEPT ![t] = line[t]]
  BY <1>1, <1>4 DEF SerialInv, Shapes, Fits
<1>6. At(label).at = label /\ label \notin TimedLabels
  BY DEF At, TimedLabels
<1>7. Only(t)
  BY <1>4, <1>5 DEF Only
<1>8. Fits(t)'
  BY <1>5, <1>6 DEF Fits, Good, IsLine, IsJob, ByteCall
<1> QED BY <1>1, <1>2, <1>7, <1>8, StepInv

LEMMA NextSerialInv == SerialInv /\ [SerialNext]_serialVars => SerialInv'
<1> SUFFICES ASSUME SerialInv, [SerialNext]_serialVars PROVE SerialInv'
  OBVIOUS
<1>1. ASSUME NEW t \in Threads, SerialThread(t) PROVE SerialInv'
  BY <1>1, CallStep, BeginStep, ClientStep, PutGetStep, PutEndStep, GetEndStep, EndStep
     DEF SerialThread
<1> QED
  BY <1>1, BootFits, ClientStep, InterruptStep DEF SerialNext, Transmit

-----------------------------------------------------------------------------

\* The transmitter does not go to sleep on bytes that wait (serial-port.c:137-140
\* against 104-121), however threads and interrupts preempt each other, for every
\* size of the queue and every threshold.
THEOREM TransmitterStaysArmed == SerialSpec => []TransmitterArmed
<1>1. SerialInv => TransmitterArmed
  BY DEF SerialInv
<1> QED BY <1>1, InitSerialInv, NextSerialInv, PTL DEF SerialSpec

\* The editors and the menu stay in their memory (serial-port.c:302-349, 406-414)
\* for every length of the buffer, every menu and every input.
THEOREM EditorsInBounds == SerialSpec => []EditorInBounds
<1>1. SerialInv => EditorInBounds
  BY SerialAssumption DEF SerialInv, Fits, Good, EditorInBounds
<1> QED BY <1>1, InitSerialInv, NextSerialInv, PTL DEF SerialSpec

-----------------------------------------------------------------------------
(* The keys.  The menu does not time out, so that it always gets a key: the   *)
(* receive queue holds the keys that were put, and an untimed call waits for  *)
(* one of them.                                                               *)

RingMemory(q, r) ==
  \E V : r \in [data : [0 .. Size[q] - 1 -> V], first : 0 .. Size[q] - 1,
                last : 0 .. Size[q] - 1, qty : 0 .. Size[q]]

Holds(q, r) ==
  /\ RingMemory(q, r) /\ r.last = wrapped(q, r.first + r.qty)
  /\ \A i \in 1 .. r.qty : nth(q, r, i) # NULL

LEMMA Slot ==
  ASSUME NEW q \in Queues, NEW first \in 0 .. Size[q] - 1, NEW n \in 0 .. Size[q]
  PROVE  wrapped(q, first) = first /\ wrapped(q, first + n) \in 0 .. Size[q] - 1
BY QueueAssumption DEF wrapped

LEMMA FollowingSlot ==
  ASSUME NEW q \in Queues, NEW first \in 0 .. Size[q] - 1, NEW n \in 0 .. Size[q] - 1
  PROVE  /\ following(q, wrapped(q, first + n)) = wrapped(q, first + n + 1)
         /\ following(q, wrapped(q, first + n)) \in 0 .. Size[q] - 1
BY QueueAssumption DEF wrapped, following

LEMMA FreeSlot ==
  ASSUME NEW q \in Queues, NEW first \in 0 .. Size[q] - 1, NEW n \in 0 .. Size[q] - 1,
         NEW i \in 1 .. n
  PROVE  /\ wrapped(q, first + i - 1) # wrapped(q, first + n)
         /\ wrapped(q, first + i - 1) \in 0 .. Size[q] - 1
BY QueueAssumption DEF wrapped

LEMMA ShiftedSlot ==
  ASSUME NEW q \in Queues, NEW first \in 0 .. Size[q] - 1, NEW i \in 1 .. Size[q] - 1
  PROVE  wrapped(q, following(q, first) + i - 1) = wrapped(q, first + i)
BY QueueAssumption DEF wrapped, following

LEMMA PutHolds ==
  ASSUME NEW q \in Queues, Holds(q, ring[q]), ~ isFull(q), NEW byte, byte # NULL
  PROVE  Holds(q, put(q, byte))
<1> DEFINE r == ring[q]
           data == [r.data EXCEPT ![r.last] = byte]
           p == put(q, byte)
<1>1. PICK V : r \in [data : [0 .. Size[q] - 1 -> V], first : 0 .. Size[q] - 1,
                      last : 0 .. Size[q] - 1, qty : 0 .. Size[q]]
  BY DEF Holds, RingMemory
<1>2. /\ Size[q] \in Nat \ {0} /\ r.qty < Size[q]
      /\ r.last = wrapped(q, r.first + r.qty)
      /\ \A i \in 1 .. r.qty : r.data[wrapped(q, r.first + i - 1)] # NULL
  BY <1>1, QueueAssumption DEF isFull, Holds, nth
<1>3. /\ following(q, r.last) \in 0 .. Size[q] - 1
      /\ following(q, r.last) = wrapped(q, r.first + r.qty + 1)
      /\ \A i \in 1 .. r.qty : wrapped(q, r.first + i - 1) # r.last
      /\ \A i \in 1 .. r.qty : wrapped(q, r.first + i - 1) \in 0 .. Size[q] - 1
  <2>1. r.first \in 0 .. Size[q] - 1 /\ r.qty \in 0 .. Size[q] - 1
    BY <1>1, <1>2
  <2> HIDE DEF r
  <2>2. /\ following(q, r.last) \in 0 .. Size[q] - 1
        /\ following(q, r.last) = wrapped(q, r.first + r.qty + 1)
    BY <1>2, <2>1, FollowingSlot
  <2>3. ASSUME NEW i \in 1 .. r.qty
        PROVE  /\ wrapped(q, r.first + i - 1) # r.last
               /\ wrapped(q, r.first + i - 1) \in 0 .. Size[q] - 1
    BY <1>2, <2>1, FreeSlot
  <2> QED BY <2>2, <2>3
<1>4. data \in [0 .. Size[q] - 1 -> V \cup {byte}] /\ data[r.last] = byte
      /\ \A i \in (0 .. Size[q] - 1) \ {r.last} : data[i] = r.data[i]
  BY <1>1
<1>5. /\ p.data = data /\ p.first = r.first /\ p.last = following(q, r.last)
      /\ p.qty = r.qty + 1
      /\ p \in [data : [0 .. Size[q] - 1 -> V \cup {byte}], first : 0 .. Size[q] - 1,
                last : 0 .. Size[q] - 1, qty : 0 .. Size[q]]
  <2> HIDE DEF data
  <2> DEFINE next == following(q, r.last)
             more == r.qty + 1
  <2>1. p = [r EXCEPT !.data = data, !.last = next, !.qty = more]
    BY <1>1 DEF put, data
  <2>2. next \in 0 .. Size[q] - 1 /\ more \in 0 .. Size[q]
    BY <1>1, <1>2, <1>3
  <2> DEFINE D == [0 .. Size[q] - 1 -> V \cup {byte}]
             S == 0 .. Size[q] - 1
             N == 0 .. Size[q]
  <2>3. data \in D /\ next \in S /\ more \in N /\ r.first \in S
    BY <1>1, <1>4, <2>2
  <2>4. \E E : r \in [data : E, first : S, last : S, qty : N]
    BY <1>1
  <2> HIDE DEF p, r, D, S, N, next, more
  <2>5. /\ p.data = data /\ p.first = r.first /\ p.last = next /\ p.qty = more
        /\ p \in [data : D, first : S, last : S, qty : N]
    BY <2>1, <2>3, <2>4
  <2> QED BY <2>5 DEF D, S, N, next, more
<1> HIDE DEF p, r, data
<1>6. \A i \in 1 .. r.qty + 1 : data[wrapped(q, r.first + i - 1)] # NULL
  <2>1. TAKE i \in 1 .. r.qty + 1
  <2>2. CASE i = r.qty + 1
    <3>1. r.first + i - 1 = r.first + r.qty
      BY <1>1, <2>2
    <3> QED BY <1>2, <1>4, <3>1
  <2>3. CASE i \in 1 .. r.qty
    BY <1>2, <1>3, <1>4, <2>3
  <2> QED BY <1>1, <2>2, <2>3
<1>7. RingMemory(q, p)
  BY <1>5 DEF RingMemory
<1> QED BY <1>1, <1>3, <1>5, <1>6, <1>7 DEF Holds, nth, p

LEMMA GetHolds ==
  ASSUME NEW q \in Queues, Holds(q, ring[q]), ~ isEmpty(q)
  PROVE  Holds(q, get(q)) /\ get(q).qty < ring[q].qty /\ front(q) # NULL
<1> DEFINE r == ring[q]
           g == get(q)
<1>1. PICK V : r \in [data : [0 .. Size[q] - 1 -> V], first : 0 .. Size[q] - 1,
                      last : 0 .. Size[q] - 1, qty : 0 .. Size[q]]
  BY DEF Holds, RingMemory
<1>2. /\ Size[q] \in Nat \ {0} /\ r.qty > 0
      /\ r.last = wrapped(q, r.first + r.qty)
      /\ \A i \in 1 .. r.qty : r.data[wrapped(q, r.first + i - 1)] # NULL
  BY <1>1, QueueAssumption DEF isEmpty, Holds, nth
<1>3. front(q) # NULL
  <2>1. 1 \in 1 .. r.qty /\ r.first + 1 - 1 = r.first
    BY <1>1, <1>2
  <2>2. wrapped(q, r.first) = r.first
    BY <1>1, <1>2 DEF wrapped
  <2> QED BY <1>2, <2>1, <2>2 DEF front
<1>4. following(q, r.first) \in 0 .. Size[q] - 1
  BY <1>1, <1>2 DEF following
<1>5. /\ g.data = r.data /\ g.first = following(q, r.first) /\ g.last = r.last
      /\ g.qty = r.qty - 1
      /\ g \in [data : [0 .. Size[q] - 1 -> V], first : 0 .. Size[q] - 1,
                last : 0 .. Size[q] - 1, qty : 0 .. Size[q]]
  <2> DEFINE next == following(q, r.first)
             less == r.qty - 1
             D == [0 .. Size[q] - 1 -> V]
             S == 0 .. Size[q] - 1
             N == 0 .. Size[q]
  <2>1. g = [r EXCEPT !.first = next, !.qty = less]
    BY DEF get
  <2>2. /\ r \in [data : D, first : S, last : S, qty : N]
        /\ next \in S /\ less \in N
    BY <1>1, <1>2, <1>4
  <2> HIDE DEF g, r, D, S, N, next, less
  <2>3. /\ g.data = r.data /\ g.first = next /\ g.last = r.last /\ g.qty = less
        /\ g \in [data : D, first : S, last : S, qty : N]
    BY <2>1, <2>2
  <2> QED BY <2>3 DEF D, S, N, next, less
<1> HIDE DEF g, r
<1>6. g.last = wrapped(q, g.first + g.qty)
  BY <1>1, <1>2, <1>5 DEF wrapped, following
<1>7. \A i \in 1 .. g.qty : r.data[wrapped(q, g.first + i - 1)] # NULL
  <2>1. TAKE i \in 1 .. g.qty
  <2>2. /\ i \in 1 .. Size[q] - 1 /\ i + 1 \in 1 .. r.qty
        /\ r.first + (i + 1) - 1 = r.first + i /\ r.first \in 0 .. Size[q] - 1
    BY <1>1, <1>2, <1>5
  <2>3. wrapped(q, g.first + i - 1) = wrapped(q, r.first + i)
    BY <1>5, <2>2, ShiftedSlot
  <2> QED BY <1>2, <2>2, <2>3
<1>8. RingMemory(q, g)
  BY <1>5 DEF RingMemory
<1> QED BY <1>1, <1>2, <1>3, <1>5, <1>6, <1>7, <1>8 DEF Holds, nth, g, r

ByTimer == TimedLabels \cup {"eventTimer_wait"}

\* The menu has a key when its queue call ends; what is timed was asked to be.
Keyed(t) ==
  /\ line[t].call = "serial_option" => line[t].at # "exit" /\ line[t].then # "exit"
  /\ job[t].at = "moving" /\ pc[t].at \in ByTimer => job[t].call.timer # NULL
  /\ line[t].at = "key" /\ line[t].call = "serial_option" =>
       IF job[t].at = "moving" THEN job[t].call.timer = NULL ELSE line[t].key # NULL

KeyInv == SerialInv /\ Holds(Rx, ring[Rx]) /\ \A t \in Threads : Keyed(t)

\* A call closes what it opened, except for the menu.
Closes(t) ==
  line[t].at # "idle" /\ line'[t].at = "idle" =>
    critical'[t] = line[t].depth + IF line[t].call = "serial_option" THEN 1 ELSE 0

LEMMA KeyStep ==
  ASSUME KeyInv, SerialInv', NEW t \in Threads, Only(t),
         Holds(Rx, ring'[Rx]), Keyed(t)', Closes(t)
  PROVE  KeyInv' /\ \A u \in Threads : Closes(u)
<1>1. ASSUME NEW u \in Threads \ {t} PROVE Keyed(u)' /\ Closes(u)
  <2>1. pc'[u] = pc[u] /\ job'[u] = job[u] /\ line'[u] = line[u]
    BY DEF KeyInv, SerialInv, Shapes, Only
  <2> QED BY <2>1 DEF KeyInv, Keyed, Closes
<1> QED BY <1>1 DEF KeyInv, Holds, RingMemory, nth, wrapped

LEMMA KeyInit == SerialInit => KeyInv
<1> SUFFICES ASSUME SerialInit PROVE KeyInv
  OBVIOUS
<1>1. /\ ring = [q \in Queues |-> queue_init(q)] /\ Rx \in Queues
      /\ job = [t \in Threads |-> Idle] /\ line = [t \in Threads |-> NoLine]
  BY SerialAssumption DEF SerialInit, QueueInit
<1>2. Size[Rx] \in Nat \ {0}
  BY <1>1, QueueAssumption
<1>3. Holds(Rx, ring[Rx])
  <2> DEFINE data == [i \in 0 .. Size[Rx] - 1 |-> NULL]
             r == [data |-> data, first |-> 0, last |-> 0, qty |-> 0]
  <2>1. ring[Rx] = r
    BY <1>1 DEF queue_init
  <2>2. data \in [0 .. Size[Rx] - 1 -> {NULL}]
    OBVIOUS
  <2> HIDE DEF data
  <2>3. /\ r.first = 0 /\ r.last = 0 /\ r.qty = 0
        /\ r \in [data : [0 .. Size[Rx] - 1 -> {NULL}], first : 0 .. Size[Rx] - 1,
                  last : 0 .. Size[Rx] - 1, qty : 0 .. Size[Rx]]
    BY <1>2, <2>2
  <2> HIDE DEF r
  <2>4. wrapped(Rx, 0 + 0) = 0
    BY <1>2 DEF wrapped
  <2>5. RingMemory(Rx, r)
    BY <2>3 DEF RingMemory
  <2>6. r.last = wrapped(Rx, r.first + r.qty) /\ 1 .. r.qty = {}
    BY <2>3, <2>4
  <2>7. Holds(Rx, r)
    BY <2>5, <2>6 DEF Holds
  <2> QED BY <2>1, <2>7
<1>4. \A t \in Threads : Keyed(t)
  BY <1>1, FirstLine, IdleJob DEF Keyed, NoLine
<1> QED BY <1>3, <1>4, InitSerialInv DEF KeyInv

\* A call that leaves the rings alone takes no key.
LEMMA NoKey ==
  ASSUME KeyInv, NEW t \in Threads, InQueue(t), ring'[Rx] = ring[Rx]
  PROVE  line' = line
<1>1. ring[Rx].qty \in 0 .. Size[Rx] /\ Size[Rx] \in Nat
  <2>1. Rx \in Queues
    BY SerialAssumption
  <2> QED BY <2>1, QueueAssumption DEF KeyInv, Holds, RingMemory
<1>2. ~ (ring'[Rx].qty < ring[Rx].qty)
  BY <1>1
<1> QED BY <1>2 DEF InQueue

\* Where a kernel call that returns nothing leaves its thread.
LEMMA ReturnsAt ==
  ASSUME SerialInv, NEW t \in Threads, Returns(t)
  PROVE  pc'[t] = pc[t] \/ pc'[t].at = "user"
<1>1. pc = [u \in Threads |-> pc[u]] /\ At("user").at = "user"
  BY DEF SerialInv, Shapes, At
<1>2. pc' = pc \/ pc' = [pc EXCEPT ![t] = At("user")]
  BY DEF Returns, checkIRQ, yield_return, event_wait_return, timer_return,
         mutex_enter_retry, Finish, Entered
<1> QED BY <1>1, <1>2

LEMMA KeyCallStep ==
  ASSUME KeyInv, NEW t \in Threads, InQueue(t)
  PROVE  KeyInv' /\ \A u \in Threads : Closes(u)
<1>1. /\ SerialInv' /\ Only(t) /\ Closes(t) /\ Keyed(t) /\ Fits(t) /\ SerialInv
      /\ Holds(Rx, ring[Rx])
  BY CallStep DEF KeyInv, SerialInv, Closes
<1>2. /\ Rx # Tx /\ {Rx, Tx} = Queues /\ ring = [q \in Queues |-> ring[q]]
      /\ job = [u \in Threads |-> job[u]] /\ pc = [u \in Threads |-> pc[u]]
      /\ line = [u \in Threads |-> line[u]]
  BY SerialAssumption DEF KeyInv, SerialInv, Shapes
<1>3. At("user").at = "user" /\ At("yield").at = "yield" /\ {"user", "yield"} \cap ByTimer = {}
      /\ "event_wait" \notin ByTimer
  BY DEF At, ByTimer, TimedLabels
<1>4. ASSUME ring' = ring, line' = line => Keyed(t)'
      PROVE  KeyInv' /\ \A u \in Threads : Closes(u)
  <2>1. line' = line
    BY <1>4, NoKey
  <2> QED BY <1>1, <1>4, <2>1, KeyStep
<1>5. CASE Returns(t) /\ UNCHANGED <<ring, job>>
  <2>1. line' = line => Keyed(t)'
    BY <1>1, <1>3, <1>5, ReturnsAt DEF Keyed
  <2> QED BY <1>4, <1>5, <2>1
<1>6. CASE timed_entry(t)
  <2>1. /\ pc[t].at \in TimedLabels /\ ring' = ring
        /\ job'[t] = job[t] \/ job'[t] = Idle
        /\ pc' = [pc EXCEPT ![t] = At("user")]
    BY <1>2, <1>6 DEF timed_entry, mutexTimer_return, Entered, Finish
  <2>2. job[t].at = "moving" /\ job[t].call.timer # NULL /\ pc'[t].at = "user"
    BY <1>1, <1>2, <1>3, <2>1 DEF Keyed, Fits, ByTimer
  <2>3. ~ (line[t].at = "key" /\ line[t].call = "serial_option")
    BY <1>1, <2>2 DEF Keyed
  <2>4. line' = line => Keyed(t)'
    BY <1>1, <1>3, <2>1, <2>2, <2>3, IdleJob DEF Keyed
  <2> QED BY <1>4, <2>1, <2>4
<1>7. CASE queue_wait(t)
  <2>1. /\ job[t].at = "moving" /\ ring' = ring /\ job' = job
        /\ \/ job[t].call.timer # NULL
           \/ pc'[t].at = "event_wait"
    BY <1>2, <1>7 DEF queue_wait, event_wait, Leave, Inside, Doing
  <2>2. line' = line => Keyed(t)'
    BY <1>1, <1>3, <2>1 DEF Keyed
  <2> QED BY <1>4, <2>1, <2>2
<1>8. CASE timed_wait(t)
  <2>1. /\ pc[t].at = "eventTimer_wait" /\ job[t].at = "moving" /\ ring' = ring
        /\ pc'[t].at = "user"
    BY <1>2, <1>3, <1>8 DEF timed_wait, eventTimer_return, Finish
  <2>2. ~ (line[t].at = "key" /\ line[t].call = "serial_option")
    BY <1>1, <2>1 DEF Keyed, ByTimer
  <2>3. line' = line => Keyed(t)'
    BY <1>1, <1>3, <2>1, <2>2 DEF Keyed
  <2> QED BY <1>4, <2>1, <2>3
<1>9. CASE queue_leave(t)
  <2>1. /\ job[t].at = "leaving" /\ job'[t] = Idle /\ ring' = ring
    BY <1>2, <1>9 DEF queue_leave, Doing
  <2>2. line' = line => Keyed(t)'
    BY <1>1, <2>1, IdleJob DEF Keyed
  <2> QED BY <1>4, <2>1, <2>2
<1>10. CASE queue_move(t)
  <2>1. /\ job[t].at = "moving" /\ ~ stuck(job[t].call) /\ job'[t].at = "leaving"
        /\ ring' = [ring EXCEPT ![job[t].call.q] =
                      IF job[t].call.puts THEN put(job[t].call.q, nextByte(t))
                      ELSE get(job[t].call.q)]
    <3>1. \E key : line' = [line EXCEPT ![t].key = key] \/ line' = line
      BY DEF InQueue
    <3>2. SameLine(t)
      BY <1>1, <3>1, KeyKept
    <3> QED BY <1>1, <1>10, <3>2, MoveFits DEF queue_move, Doing
  <2>2. CASE job[t].call.q = Tx /\ line[t].at = "arm"
    <3>1. ring'[Rx] = ring[Rx]
      BY <1>2, <2>1, <2>2
    <3>2. line' = line
      BY <3>1, NoKey
    <3>3. Keyed(t)'
      BY <1>1, <2>1, <2>2, <3>2 DEF Keyed
    <3> QED BY <1>1, <3>1, <3>3, KeyStep
  <2>3. CASE job[t].call.q = Rx /\ ~ job[t].call.puts /\ line[t].at = "key"
    <3>1. ring'[Rx] = get(Rx) /\ ~ isEmpty(Rx)
      BY <1>2, <2>1, <2>3 DEF stuck
    <3>2. Holds(Rx, get(Rx)) /\ ring'[Rx].qty < ring[Rx].qty /\ front(Rx) # NULL
      BY <1>1, <1>2, <3>1, GetHolds
    <3>3. line' = [line EXCEPT ![t] = [line[t] EXCEPT !.key = front(Rx)]]
      BY <3>2 DEF InQueue
    <3>4. PICK V : line[t] \in Line(V)
      BY <1>1 DEF Fits, Good, IsLine
    <3> DEFINE s == [line[t] EXCEPT !.key = front(Rx)]
    <3>5. s.call = line[t].call /\ s.at = line[t].at /\ s.then = line[t].then
          /\ s.key = front(Rx)
      BY <3>4 DEF Line
    <3> HIDE DEF s
    <3>6. line'[t] = s
      BY <1>2, <3>3 DEF s
    <3>7. Keyed(t)'
      BY <1>1, <2>1, <3>2, <3>5, <3>6 DEF Keyed
    <3>8. Holds(Rx, ring'[Rx])
      BY <3>1, <3>2
    <3> QED BY <1>1, <3>7, <3>8, KeyStep
  <2> QED
    BY <1>1, <2>1, <2>2, <2>3 DEF Fits, ByteCall
<1> QED
  BY <1>5, <1>6, <1>7, <1>8, <1>9, <1>10 DEF InQueue, InCall

\* A step that leaves the receive queue and the kernel's points of t alone.
LEMMA KeyOtherStep ==
  ASSUME KeyInv, SerialInv', NEW t \in Threads, Only(t), ring'[Rx] = ring[Rx],
         UNCHANGED <<pc, job>>, job[t].at = "idle",
         line'[t].call = "serial_option" => line'[t].at # "exit" /\ line'[t].then # "exit",
         line'[t].at # "key", Closes(t)
  PROVE  KeyInv' /\ \A u \in Threads : Closes(u)
<1>1. Keyed(t)'
  BY DEF Keyed
<1> QED BY <1>1, KeyStep DEF KeyInv

LEMMA MenuBegins ==
  ASSUME NEW depth \in Int, NEW s \in begins("serial_option", depth)
  PROVE  s.then = "get" /\ s.at # "exit"
<1> DEFINE r == [NoLine EXCEPT !.call = "serial_option", !.depth = depth]
<1>1. IsLine(r)
  <2>1. NoLine \in Line({"idle", NULL, 0})
    BY DEF NoLine, Line
  <2>2. r \in Line({"idle", NULL, 0, "serial_option", depth})
    BY <2>1 DEF Line
  <2> HIDE DEF r
  <2> QED BY <2>2 DEF IsLine
<1>2. "serial_option" \notin DOMAIN sends
  BY DEF sends
<1>3. s = emit(r, OptLen[0], "get")
  BY <1>2 DEF begins
<1> HIDE DEF r
<1> QED BY <1>1, <1>3, Emits

LEMMA MenuChooses ==
  ASSUME NEW s, Good(s), s.call = "serial_option", s.key # NULL
  PROVE  answered(s).at # "exit" /\ answered(s).then # "exit"
<1> DEFINE qty  == Cardinality(DOMAIN OptLen)
           next == IF s.i + 1 >= qty THEN 0 ELSE s.i + 1
           prev == (IF s.i = 0 THEN qty ELSE s.i) - 1
           after == [s EXCEPT !.i = next]
           before == [s EXCEPT !.i = prev]
<1>1. answered(s) = chosen(s)
  BY DEF answered
<1>2. \/ chosen(s) = emit(s, 2, "idle")
      \/ chosen(s) = emit(after, redraw(s.i, next), "get")
      \/ chosen(s) = emit(before, redraw(s.i, prev), "get")
      \/ chosen(s) = emit(s, 0, "get")
  BY Zenon DEF chosen
<1> HIDE DEF qty, next, prev
<1>3. IsLine(s) /\ IsLine(after) /\ IsLine(before)
  <2>1. PICK V : s \in Line(V)
    BY DEF Good, IsLine
  <2>2. after \in Line(V \cup {next}) /\ before \in Line(V \cup {prev})
    BY <2>1 DEF Line
  <2> HIDE DEF after, before
  <2> QED BY <2>1, <2>2 DEF IsLine
<1> HIDE DEF after, before
<1> QED BY <1>1, <1>2, <1>3, Emits

LEMMA KeyLineStep ==
  ASSUME KeyInv, NEW t \in Threads,
         \/ \E c \in SerialCalls[t] : serial_begin(t, c)
         \/ _put_end(t) \/ _get_end(t) \/ serial_end(t)
  PROVE  KeyInv' /\ \A u \in Threads : Closes(u)
<1>1. /\ SerialInv /\ Good(line[t]) /\ critical[t] \in Int /\ Keyed(t)
      /\ line = [u \in Threads |-> line[u]] /\ line[t].depth \in Int
      /\ job[t].at = "idle" /\ UNCHANGED <<pc, job, ring>>
  BY DEF KeyInv, SerialInv, Shapes, Fits, Good, serial_begin, _put_end, _get_end, serial_end,
         AtStep, Doing, task_enterCritical, task_exitCritical, queueVars, mutexVars
<1>2. ASSUME NEW c, serial_begin(t, c)
      PROVE  KeyInv' /\ \A u \in Threads : Closes(u)
  <2>1. PICK s \in begins(c, critical[t]) : line' = [line EXCEPT ![t] = s]
    BY <1>2 DEF serial_begin
  <2>2. line'[t] = s /\ line[t].at = "idle" /\ SerialInv' /\ Only(t)
    BY <1>1, <1>2, <2>1, BeginStep DEF serial_begin, AtStep
  <2>3. s.at \in {"put", "get", "exit"} /\ s.call = c
    BY <1>1, <2>1, BeginsGood
  <2>4. c = "serial_option" => s.at # "exit" /\ s.then # "exit"
    BY <1>1, <2>1, MenuBegins
  <2> QED BY <1>1, <2>2, <2>3, <2>4, KeyOtherStep DEF Closes
<1>3. CASE _put_end(t)
  <2> DEFINE s == emit(line[t], line[t].out - 1, line[t].then)
  <2>1. /\ SerialInv' /\ Only(t) /\ critical'[t] = line[t].depth + 1
        /\ line'[t].at = "idle" => line[t].call = "serial_option"
    BY <1>1, <1>3, PutEndStep
  <2>2. line'[t] = finished(s)
    BY <1>1, <1>3 DEF _put_end
  <2>3. /\ Good(s) /\ s.at \in {"put", line[t].then} /\ s.then = line[t].then
        /\ s.call = line[t].call
    BY <1>1, <1>3, Emits DEF Good, _put_end, AtStep
  <2> HIDE DEF s
  <2>4. /\ line'[t].at # "key"
        /\ line'[t].call = "serial_option" => line'[t].at # "exit" /\ line'[t].then # "exit"
    <3>1. CASE s.at = "idle"
      BY <2>2, <3>1 DEF finished, NoLine
    <3>2. CASE s.at # "idle"
      <4>1. line'[t] = s
        BY <2>2, <3>2 DEF finished
      <4>2. line[t].at = "arm"
        BY <1>3 DEF _put_end, AtStep
      <4> QED BY <1>1, <2>3, <3>2, <4>1, <4>2 DEF Keyed, Good
    <3> QED BY <3>1, <3>2
  <2>5. Closes(t)
    BY <2>1 DEF Closes
  <2> QED BY <1>1, <2>1, <2>4, <2>5, KeyOtherStep
<1>4. CASE _get_end(t)
  <2>1. SerialInv' /\ Only(t) /\ line'[t].at # "idle"
    BY <1>1, <1>4, GetEndStep
  <2>2. line'[t] = finished(answered(line[t])) /\ line[t].at = "key"
    BY <1>1, <1>4 DEF _get_end, AtStep
  <2>3. line'[t] = answered(line[t])
    BY <1>1, <2>1, <2>2, AnsweredGood, FinishedGood
  <2>4. answered(line[t]).at # "key" /\ answered(line[t]).call = line[t].call
    BY <1>1, AnsweredGood
  <2>5. line[t].call = "serial_option" => line[t].key # NULL
    BY <1>1, <2>2 DEF Keyed
  <2> QED BY <1>1, <2>1, <2>3, <2>4, <2>5, MenuChooses, KeyOtherStep DEF Closes
<1>5. CASE serial_end(t)
  <2>1. SerialInv' /\ Only(t) /\ critical'[t] = line[t].depth
    BY <1>1, <1>5, EndStep
  <2>2. line'[t] = NoLine /\ line[t].at = "exit"
    BY <1>1, <1>5 DEF serial_end, AtStep
  <2>3. line'[t].at = "idle" /\ line'[t].then = "idle"
    BY <2>2 DEF NoLine
  <2>4. line[t].call # "serial_option"
    BY <1>1, <2>2 DEF Keyed
  <2>5. Closes(t)
    BY <1>1, <2>1, <2>4 DEF Closes
  <2> QED BY <1>1, <2>1, <2>3, <2>5, KeyOtherStep
<1> QED BY <1>2, <1>3, <1>4, <1>5

LEMMA KeyEnterStep ==
  ASSUME KeyInv, NEW t \in Threads, _put(t) \/ _get(t)
  PROVE  KeyInv' /\ \A u \in Threads : Closes(u)
<1>1. /\ SerialInv /\ Good(line[t]) /\ Keyed(t) /\ line[t].at \in {"put", "get"}
      /\ line = [u \in Threads |-> line[u]] /\ pc = [u \in Threads |-> pc[u]]
      /\ job = [u \in Threads |-> job[u]] /\ Holds(Rx, ring[Rx])
      /\ SerialInv' /\ Only(t) /\ line'[t].at # "idle"
  <2>1. SerialInv /\ Keyed(t) /\ Holds(Rx, ring[Rx])
    BY DEF KeyInv
  <2>2. SerialInv' /\ Only(t) /\ line'[t].at # "idle"
    BY <2>1, PutGetStep
  <2>3. Good(line[t]) /\ line[t].at \in {"put", "get"}
    BY <2>1 DEF SerialInv, Fits, _put, _get, AtStep
  <2> QED BY <2>1, <2>2, <2>3 DEF SerialInv, Shapes
<1>2. ASSUME NEW c, queue_enter(t, c)
      PROVE  /\ job'[t].at = "moving" /\ job'[t].call = c /\ ring' = ring
             /\ pc'[t].at \in ByTimer => c.timer # NULL
  <2>1. job'[t] = [at |-> "moving", call |-> c, done |-> 0] /\ ring' = ring
    BY <1>1, <1>2 DEF queue_enter
  <2>2. CASE c.timer = NULL
    <3>1. /\ At("user").at = "user"
          /\ \A m : Inside("mutex_enterCritical", m).at = "mutex_enterCritical"
          /\ {"user", "mutex_enterCritical"} \cap ByTimer = {}
      BY DEF At, Inside, ByTimer, TimedLabels
    <3>2. pc'[t] = At("user") \/ \E m : pc'[t] = Inside("mutex_enterCritical", m)
      BY <1>1, <1>2, <2>2
         DEF queue_enter, mutex_enter_free, mutex_enter_wait, staysCritical, Leave
    <3> QED BY <2>1, <3>1, <3>2
  <2> QED BY <2>1, <2>2
<1>3. PICK c : /\ queue_enter(t, c)
               /\ line'[t].at = "key" /\ line'[t].call = "serial_option" => c.timer = NULL
               /\ line'[t].call = "serial_option" => line'[t].then # "exit"
               /\ line'[t].at # "exit"
  <2>1. PICK V : line[t] \in Line(V)
    BY <1>1 DEF Good, IsLine
  <2>2. line[t].call = "serial_option" => line[t].then # "exit"
    BY <1>1 DEF Keyed
  <2>3. CASE _put(t)
    <3> DEFINE s == [line[t] EXCEPT !.at = "arm"]
    <3>1. line' = [line EXCEPT ![t] = s] /\ queue_enter(t, queue_put8(Tx))
      BY <2>3 DEF _put
    <3>2. s.at = "arm" /\ s.call = line[t].call /\ s.then = line[t].then
      BY <2>1 DEF Line
    <3>3. line'[t] = s
      BY <1>1, <3>1
    <3> HIDE DEF s
    <3> QED BY <2>2, <3>1, <3>2, <3>3
  <2>4. CASE _get(t)
    <3> DEFINE s0 == [line[t] EXCEPT !.at = "key"]
               s == [s0 EXCEPT !.key = NULL]
               half == [line EXCEPT ![t] = s0]
    <3>1. line' = [half EXCEPT ![t] = [half[t] EXCEPT !.key = NULL]]
      BY <2>4 DEF _get
    <3>2. /\ s0 \in Line(V \cup {"key"}) /\ s0.at = "key" /\ s0.call = line[t].call
          /\ s0.then = line[t].then
      BY <2>1 DEF Line
    <3> HIDE DEF s0
    <3>3. s.at = "key" /\ s.call = line[t].call /\ s.then = line[t].then
      BY <3>2 DEF Line
    <3>4. half[t] = s0
      BY <1>1
    <3>5. line'[t] = s
      BY <1>1, <3>1, <3>4
    <3>6. PICK c : queue_enter(t, c) /\ (line[t].call = "serial_option" => c.timer = NULL)
      <4>1. queue_get8(Rx).timer = NULL
        BY DEF queue_get8, call
      <4>2. ~ timed("serial_option")
        BY DEF timed
      <4> QED BY <2>4, <4>1, <4>2 DEF _get
    <3> HIDE DEF s, half
    <3> QED BY <2>2, <3>3, <3>5, <3>6
  <2> QED BY <2>3, <2>4
<1>4. Keyed(t)' /\ Closes(t) /\ ring' = ring
  BY <1>1, <1>2, <1>3 DEF Keyed, Closes
<1> QED BY <1>1, <1>4, KeyStep

LEMMA KeyClientStep ==
  ASSUME KeyInv, NEW t \in Threads,
         \/ line[t].at = "idle" /\ rest(t) /\ UNCHANGED <<txie, line>>
         \/ setTick_client(t)
  PROVE  KeyInv' /\ \A u \in Threads : Closes(u)
<1>1. /\ SerialInv /\ Keyed(t) /\ SerialInv' /\ Only(t) /\ Holds(Rx, ring[Rx])
      /\ UNCHANGED <<ring, job, line>> /\ job[t].at = "idle"
  BY ClientStep DEF KeyInv, rest, setTick_client, AtStep, Doing
<1>2. Keyed(t)' /\ Closes(t)
  BY <1>1 DEF Keyed, Closes
<1> QED BY <1>1, <1>2, KeyStep

\* Interrupts leave the points, calls and lines of all threads alone.
LEMMA KeySame ==
  ASSUME KeyInv, SerialInv', UNCHANGED <<pc, job, line>>, Holds(Rx, ring'[Rx])
  PROVE  KeyInv' /\ \A u \in Threads : Closes(u)
BY DEF KeyInv, Keyed, Closes, Holds, RingMemory, nth, wrapped

LEMMA KeyInterruptStep ==
  ASSUME KeyInv,
         \/ \E t \in Threads : _usciAB0_rx_isr(t) \/ _usciAB0_tx_isr(t)
         \/ (tick \/ interrupt) /\ UNCHANGED <<txie, line>>
         \/ UNCHANGED serialVars
  PROVE  KeyInv' /\ \A u \in Threads : Closes(u)
<1>1. /\ SerialInv' /\ Holds(Rx, ring[Rx]) /\ Rx \in Queues /\ Tx \in Queues /\ Rx # Tx
      /\ ring = [q \in Queues |-> ring[q]]
  BY InterruptStep, SerialAssumption DEF KeyInv, SerialInv, Shapes
<1>2. CASE \E t \in Threads : _usciAB0_rx_isr(t)
  <2>1. PICK key \in Hit : \/ ring' = ring
                           \/ ~ isFull(Rx) /\ ring' = [ring EXCEPT ![Rx] = put(Rx, key)]
    BY <1>2 DEF _usciAB0_rx_isr, queue_put8ISR
  <2>2. key # NULL
    BY SerialAssumption
  <2>3. Holds(Rx, ring'[Rx])
    BY <1>1, <2>1, <2>2, PutHolds
  <2>4. UNCHANGED <<pc, job, line>>
    BY <1>2 DEF _usciAB0_rx_isr, queue_put8ISR, notifyISR, event_notifyISR,
                ResumeFromPriorListISR, kernelVars
  <2> QED BY <1>1, <2>3, <2>4, KeySame
<1>3. CASE \E t \in Threads : _usciAB0_tx_isr(t)
  <2>1. /\ UNCHANGED <<pc, job, line>>
        /\ ring' = ring \/ \E r : ring' = [ring EXCEPT ![Tx] = r]
    BY <1>3 DEF _usciAB0_tx_isr, queue_get8ThdISR, notifyISR, event_notifyISR,
                ResumeFromPriorListISR, kernelVars, queueVars, mutexVars
  <2>2. ring'[Rx] = ring[Rx]
    BY <1>1, <2>1
  <2> QED BY <1>1, <2>1, <2>2, KeySame
<1>4. CASE ((tick \/ interrupt) /\ UNCHANGED <<txie, line>>) \/ UNCHANGED serialVars
  <2>1. UNCHANGED <<pc, job, line, ring>>
    BY <1>4 DEF tick, timer_tick, interrupt, event_notifyISR, ResumeFromPriorListISR,
                serialVars, queueVars, mutexVars
  <2> QED BY <1>1, <2>1, KeySame
<1> QED BY <1>2, <1>3, <1>4

LEMMA KeyBootStep ==
  ASSUME KeyInv, Boot
  PROVE  KeyInv' /\ \A u \in Threads : Closes(u)
<1>1. /\ SerialInv' /\ UNCHANGED <<ring, job, line>> /\ pc = [u \in Threads |-> pc[u]]
  BY BootFits DEF KeyInv, SerialInv, Shapes, Boot
<1>2. /\ At("run").at = "run" /\ At("user").at = "user" /\ {"run", "user"} \cap ByTimer = {}
  BY DEF At, ByTimer, TimedLabels
<1>3. \/ \E th \in Threads : pc' = [pc EXCEPT ![th] = At("user")]
      \/ pc' = [pc EXCEPT ![Background] = At("run")]
      \/ pc' = [pc EXCEPT ![Background] = At("user")]
  BY DEF Boot, boot, scheduler_add, scheduler_run, scheduler_run_return
<1>4. \A u \in Threads : pc'[u].at \in ByTimer => pc'[u] = pc[u]
  BY <1>1, <1>2, <1>3
<1>5. \A u \in Threads : Keyed(u)' /\ Closes(u)
  BY <1>1, <1>4 DEF KeyInv, Keyed, Closes
<1> QED BY <1>1, <1>5 DEF KeyInv, Holds, RingMemory, nth, wrapped

LEMMA NextKeyInv ==
  KeyInv /\ [SerialNext]_serialVars => KeyInv' /\ \A u \in Threads : Closes(u)
<1> SUFFICES ASSUME KeyInv, [SerialNext]_serialVars
             PROVE  KeyInv' /\ \A u \in Threads : Closes(u)
  OBVIOUS
<1>1. ASSUME NEW t \in Threads, SerialThread(t)
      PROVE  KeyInv' /\ \A u \in Threads : Closes(u)
  BY <1>1, KeyCallStep, KeyLineStep, KeyClientStep, KeyEnterStep DEF SerialThread
<1> QED
  BY <1>1, KeyBootStep, KeyClientStep, KeyInterruptStep DEF SerialNext, Transmit

\* Every path of a call leaves the thread in as many critical sections as it came
\* with (task.h:33-48), but for the one that serial_option keeps (serial-port.c:404):
\* that its loop never ends by a time-out is part of the argument.
THEOREM CallsCloseSections == SerialSpec => SectionsClosed
<1>1. KeyInv /\ [SerialNext]_serialVars =>
        [\A t \in Threads :
           line[t].at # "idle" /\ line'[t].at = "idle" =>
             critical'[t] =
               line[t].depth + IF line[t].call = "serial_option" THEN 1 ELSE 0]_serialVars
  BY NextKeyInv DEF Closes
<1>2. KeyInv /\ [SerialNext]_serialVars => KeyInv'
  BY NextKeyInv
<1> QED BY <1>1, <1>2, KeyInit, PTL DEF SerialSpec, SectionsClosed

-----------------------------------------------------------------------------
(* The serial calls as clients of the queues *)

\* t is in one of its calls, which receives nothing when it sends a value.
Meant(s, t) ==
  s.at # "idle" =>
    /\ s.call \in SerialCalls[t]
    /\ s.call \in DOMAIN sends => s.at \notin {"get", "key"} /\ s.then # "get"

AllMeant == \A t \in Threads : Meant(line[t], t)

LEMMA MeantStep ==
  ASSUME SerialInv, AllMeant, NEW t \in Threads, NEW s, Meant(s, t),
         line' = [line EXCEPT ![t] = s]
  PROVE  AllMeant'
BY DEF SerialInv, Shapes, AllMeant, Meant

LEMMA BeginMeant ==
  ASSUME SerialInv, AllMeant, NEW t \in Threads, NEW c \in SerialCalls[t], serial_begin(t, c)
  PROVE  AllMeant'
<1> DEFINE r == [NoLine EXCEPT !.call = c, !.depth = critical[t]]
<1>1. PICK s \in begins(c, critical[t]) : line' = [line EXCEPT ![t] = s]
  BY DEF serial_begin
<1>2. critical[t] \in Int /\ s.call = c
  BY <1>1, BeginsGood DEF SerialInv, Shapes
<1>3. IsLine(r)
  <2>1. r \in Line({"idle", NULL, 0, c, critical[t]})
    BY DEF Line, NoLine
  <2> QED
    BY <2>1 DEF IsLine
<1>4. PICK n, step : /\ s = emit(r, n, step)
                     /\ step = IF c \in DOMAIN sends THEN "exit" ELSE "get"
  BY <1>1, Zenon DEF begins
<1> HIDE DEF r
<1>5. s.then = step /\ s.at = IF n = 0 THEN step ELSE "put"
  BY <1>3, <1>4, Emits
<1>6. Meant(s, t)
  BY <1>2, <1>4, <1>5 DEF Meant
<1> QED
  BY <1>1, <1>6, MeantStep

LEMMA EnterMeant ==
  ASSUME SerialInv, AllMeant, NEW t \in Threads, _put(t) \/ _get(t)
  PROVE  AllMeant'
<1>1. Good(line[t]) /\ line = [u \in Threads |-> line[u]] /\ Meant(line[t], t)
  BY DEF SerialInv, Fits, Shapes, AllMeant
<1>2. CASE _put(t)
  <2> DEFINE s == [line[t] EXCEPT !.at = "arm"]
  <2>1. line[t].at = "put" /\ line' = [line EXCEPT ![t] = s]
    BY <1>2 DEF _put, AtStep
  <2>2. s.at = "arm" /\ s.call = line[t].call /\ s.then = line[t].then
    BY <1>1, <2>1, StepGood
  <2> HIDE DEF s
  <2>3. Meant(s, t)
    BY <1>1, <2>1, <2>2 DEF Meant
  <2> QED
    BY <2>1, <2>3, MeantStep
<1>3. CASE _get(t)
  <2> DEFINE s0 == [line[t] EXCEPT !.at = "key"]
             s == [s0 EXCEPT !.key = NULL]
  <2>1. line[t].at = "get"
    BY <1>3 DEF _get, AtStep
  <2>2. Good(s0) /\ s0.at = "key" /\ s0.call = line[t].call
    BY <1>1, <2>1, StepGood
  <2>3. line' = [line EXCEPT ![t] = s]
    BY <1>1, <1>3 DEF _get
  <2> HIDE DEF s0
  <2>4. s.call = line[t].call
    BY <2>2, KeyGood
  <2> HIDE DEF s
  <2>5. Meant(s, t)
    BY <1>1, <2>1, <2>4 DEF Meant
  <2> QED
    BY <2>3, <2>5, MeantStep
<1> QED
  BY <1>2, <1>3

LEMMA EndMeant ==
  ASSUME SerialInv, AllMeant, NEW t \in Threads, _put_end(t) \/ _get_end(t) \/ serial_end(t)
  PROVE  AllMeant'
<1>1. Good(line[t]) /\ Meant(line[t], t)
  BY DEF SerialInv, Fits, AllMeant
<1>2. Meant(NoLine, t)
  BY FirstLine DEF Meant
<1>3. ASSUME NEW s, Meant(s, t) PROVE Meant(finished(s), t)
  BY <1>2, <1>3 DEF finished
<1>4. CASE _put_end(t)
  <2> DEFINE s == emit(line[t], line[t].out - 1, line[t].then)
  <2>1. line[t].at = "arm" /\ line' = [line EXCEPT ![t] = finished(s)]
    BY <1>4 DEF _put_end, AtStep
  <2>2. s.at \in {"put", line[t].then} /\ s.call = line[t].call /\ s.then = line[t].then
    BY <1>1, Emits DEF Good
  <2> HIDE DEF s
  <2>3. Meant(s, t)
    BY <1>1, <2>1, <2>2 DEF Meant, Good
  <2> QED
    BY <1>3, <2>1, <2>3, MeantStep
<1>5. CASE _get_end(t)
  <2>1. line[t].at = "key" /\ line' = [line EXCEPT ![t] = finished(answered(line[t]))]
    BY <1>5 DEF _get_end, AtStep
  <2>2. answered(line[t]).call = line[t].call
    BY <1>1, AnsweredGood
  <2>3. Meant(answered(line[t]), t)
    BY <1>1, <2>1, <2>2 DEF Meant
  <2> QED
    BY <1>3, <2>1, <2>3, MeantStep
<1>6. CASE serial_end(t)
  BY <1>2, <1>6, MeantStep DEF serial_end
<1> QED
  BY <1>4, <1>5, <1>6

LEMMA NextMeant == SerialInv /\ AllMeant /\ [SerialNext]_serialVars => AllMeant'
<1> SUFFICES ASSUME SerialInv, AllMeant, [SerialNext]_serialVars PROVE AllMeant'
  OBVIOUS
<1>1. UNCHANGED line => AllMeant'
  BY DEF AllMeant, Meant
<1>2. ASSUME NEW t \in Threads, InQueue(t) PROVE AllMeant'
  <2>1. PICK s : /\ line' = [line EXCEPT ![t] = s]
                 /\ s.at = line[t].at /\ s.call = line[t].call /\ s.then = line[t].then
    <3>1. \E key : line' = [line EXCEPT ![t].key = key] \/ line' = line
      BY <1>2 DEF InQueue
    <3> QED
      BY <3>1, KeyKept DEF SameLine
  <2>2. Meant(s, t)
    BY <2>1 DEF Meant, AllMeant
  <2> QED
    BY <2>1, <2>2, MeantStep
<1>3. ASSUME NEW t \in Threads, SerialThread(t) PROVE AllMeant'
  BY <1>1, <1>2, <1>3, BeginMeant, EnterMeant, EndMeant DEF SerialThread
<1>4. ASSUME NEW t \in Threads, setTick_client(t) \/ _usciAB0_rx_isr(t) \/ _usciAB0_tx_isr(t)
      PROVE  UNCHANGED line
  BY <1>4 DEF setTick_client, _usciAB0_rx_isr, _usciAB0_tx_isr
<1> QED
  BY <1>1, <1>3, <1>4 DEF SerialNext, Transmit, Boot, serialVars

\* The calls of a thread are the queue calls of its serial calls.
LEMMA CallsAre ==
  ASSUME NEW t \in Threads
  PROVE  /\ \A c \in SerialCalls[t] : queueCalls(c) \subseteq Calls[t]
         /\ \A c \in Calls[t] :
              \/ c = queue_put8(Tx) \/ c = queue_get8(Rx)
              \/ \E tm \in TickLists : c = queueTimer_get8(Rx, tm)
<1>1. Calls[t] = UNION {queueCalls(c) : c \in SerialCalls[t]}
  BY CallsAssumption
<1>2. \A c \in SerialCalls[t] : queueCalls(c) \subseteq Calls[t]
  BY <1>1
<1>3. ASSUME NEW c \in Calls[t]
      PROVE  \/ c = queue_put8(Tx) \/ c = queue_get8(Rx)
             \/ \E tm \in TickLists : c = queueTimer_get8(Rx, tm)
  <2>1. PICK d \in SerialCalls[t] : c \in queueCalls(d)
    BY <1>1
  <2> QED
    BY <2>1 DEF queueCalls
<1> QED
  BY <1>2, <1>3

LEMMA SerialLeavesItsSide == LeavesItsSide
<1> SUFFICES ASSUME NEW t \in Threads, NEW c \in Calls[t] PROVE c.exit = side(c)
  BY DEF LeavesItsSide
<1>1. /\ queue_put8(Tx).exit = side(queue_put8(Tx))
      /\ queue_get8(Rx).exit = side(queue_get8(Rx))
      /\ \A tm : queueTimer_get8(Rx, tm).exit = side(queueTimer_get8(Rx, tm))
  BY DEF queue_put8, queue_get8, queueTimer_get8, call, side
<1> QED
  BY <1>1, CallsAre

\* The steps of sections and interrupts, which leave the threads where they are.
Outer(t) ==
  \/ (task_enterCritical(t) \/ task_exitCritical(t)) /\ UNCHANGED <<aboveKernel, ring, job>>
  \/ \E key : queue_put8ISR(t, Rx, key)
  \/ queue_get8ThdISR(t, Tx, Thd)

\* The serial port uses its queues as their clients may.
LEMMA SerialIs ==
  ASSUME SerialInv, AllMeant, [SerialNext]_serialVars
  PROVE  [QueueNext]_queueVars \/ \E t \in Threads : Outer(t)
<1>1. ASSUME NEW t \in Threads, _put(t) PROVE QueueNext
  <2>1. line[t].at = "put" /\ queue_enter(t, queue_put8(Tx))
    BY <1>1 DEF _put, AtStep
  <2>2. queue_put8(Tx) \in Calls[t]
    BY <2>1, CallsAre DEF AllMeant, Meant, queueCalls
  <2> QED
    BY <2>1, <2>2 DEF QueueNext
<1>2. ASSUME NEW t \in Threads, _get(t) PROVE QueueNext
  <2>1. line[t].at = "get" /\ line[t].call \in SerialCalls[t] /\ line[t].call \notin DOMAIN sends
    BY <1>2 DEF _get, AtStep, AllMeant, Meant
  <2>2. queueCalls(line[t].call) \subseteq Calls[t]
    BY <2>1, CallsAre
  <2>3. \E c \in Calls[t] : queue_enter(t, c)
    <3>1. CASE ~ timed(line[t].call) /\ queue_enter(t, queue_get8(Rx))
      BY <2>1, <2>2, <3>1 DEF queueCalls
    <3>2. CASE /\ timed(line[t].call)
               /\ \E tm \in TickLists : queue_enter(t, queueTimer_get8(Rx, tm))
      BY <2>1, <2>2, <3>2 DEF queueCalls
    <3> QED
      BY <1>2, <3>1, <3>2 DEF _get
  <2> QED
    BY <2>3 DEF QueueNext
<1>3. ASSUME NEW t \in Threads, setTick_client(t) PROVE QueueNext
  <2>1. PICK c \in SerialCalls[t] : timed(c)
    BY <1>3 DEF setTick_client
  <2>2. PICK tm \in TickLists, d \in Delays : task_setTimeout(t, tm, d)
    BY <1>3 DEF setTick_client
  <2>3. queueTimer_get8(Rx, tm) \in Calls[t]
    BY <2>1, CallsAre DEF queueCalls, timed, sends
  <2>4. queueTimer_get8(Rx, tm).timer = tm /\ tm # NULL
    BY ListAssumption DEF queueTimer_get8, call
  <2>5. setTimeout(t)
    BY <1>3, <2>2, <2>3, <2>4 DEF setTimeout, setTick_client, AtStep
  <2> QED
    BY <2>5 DEF QueueNext
<1>4. ASSUME NEW t \in Threads, \E c \in SerialCalls[t] : serial_begin(t, c)
      PROVE  Outer(t)
  BY <1>4 DEF serial_begin, Outer
<1>5. ASSUME NEW t \in Threads, SerialThread(t)
      PROVE  QueueNext \/ UNCHANGED queueVars \/ Outer(t)
  <2>1. InQueue(t) \/ rest(t) => QueueNext
    BY DEF InQueue, QueueNext
  <2>2. serial_end(t) => Outer(t)
    BY DEF serial_end, Outer
  <2>3. _put_end(t) \/ _get_end(t) => UNCHANGED queueVars
    BY DEF _put_end, _get_end
  <2> QED
    BY <1>1, <1>2, <1>4, <1>5, <2>1, <2>2, <2>3, Zenon DEF SerialThread
<1>6. ASSUME NEW t \in Threads, _usciAB0_rx_isr(t) \/ _usciAB0_tx_isr(t)
      PROVE  Outer(t) \/ UNCHANGED queueVars
  BY <1>6 DEF _usciAB0_rx_isr, _usciAB0_tx_isr, Outer
<1>7. Boot \/ ((tick \/ interrupt) /\ UNCHANGED <<txie, line>>) => QueueNext
  BY DEF Boot, QueueNext
<1>8. UNCHANGED serialVars => UNCHANGED queueVars
  BY DEF serialVars
<1> QED
  BY <1>3, <1>5, <1>6, <1>7, <1>8, Zenon DEF SerialNext, Transmit

-----------------------------------------------------------------------------
(* Who waits for room in the transmit queue *)

\* The queues below the serial calls, and that nobody waits for room that is there.
Served == Waits(Tx, TRUE) # {} => ring[Tx].qty > Thd

Serving ==
  /\ SerialInv /\ AllMeant
  /\ QueuesLinked /\ JobTypes /\ Held /\ AllBegun /\ Rings
  /\ WaitsInside /\ Served

LEMMA InitServing == SerialInit => Serving
<1> SUFFICES ASSUME SerialInit PROVE Serving
  OBVIOUS
<1>1. SerialInv /\ QueuesLinked /\ JobTypes /\ Held /\ AllBegun /\ Rings
  BY InitSerialInv, InitQueuesLinked, InitJobTypes, InitHeld, InitChannels, InitRings
     DEF SerialInit
<1>2. WaitsInside /\ Served
  <2>1. \A t \in Threads : In(pc[t]) = {}
    BY DEF SerialInit, QueueInit, MutexInit, TimerInit, KernelInit, In, At
  <2> QED
    BY <2>1 DEF WaitsInside, Served, Waits
<1>3. AllMeant
  BY FirstLine DEF SerialInit, AllMeant, Meant
<1> QED
  BY <1>1, <1>2, <1>3 DEF Serving

\* A kernel call of a section or an interrupt sends nobody to wait.
LEMMA OuterCalm ==
  ASSUME QueuesApart, Serving, UNCHANGED <<pc, job>>, UNCHANGED aboveKernel,
         \/ \E t \in Threads : task_enterCritical(t) \/ task_exitCritical(t)
         \/ \E t \in Threads, e \in Events : event_notifyISR(t, e)
         \/ UNCHANGED kernelVars
  PROVE  /\ QueuesLinked' /\ JobTypes' /\ Held' /\ AllBegun' /\ WaitsInside'
         /\ MutexFit(MutexPoints, QueueUses)
         /\ \A q \in Queues, puts \in BOOLEAN : Waits(q, puts)' \subseteq Waits(q, puts)
<1> DEFINE P == MutexPoints
           U == QueueUses
<1>1. /\ Below(P) /\ Abortable \subseteq TimerLabels
      /\ QueuesLinked /\ JobTypes /\ Held /\ AllBegun /\ WaitsInside
      /\ UNCHANGED <<now, due, busy, inside>>
  BY DEF Serving, QueuesLinked, QueuesApart, aboveKernel
<1>2. TimerNext \/ UNCHANGED kernelVars
  BY DEF TimerNext, TimerThread, TimerInterrupt, EventThread, EventInterrupt, KernelThread,
         aboveKernel
<1>3. Below(P)'
  BY <1>1, <1>2, MutexPointsEntry, BelowTimer, BelowSame DEF kernelVars, mutexVars
<1>4. MutexFit(P, U)
  BY <1>1, <1>3, QueuesFit
<1>5. MutexSteps(U)
  BY <1>1, <1>2, <1>4, MutexBelowStep DEF kernelVars
<1>6. QueuesLinked' /\ Stays
  BY <1>3, <1>5 DEF MutexSteps, QueuesLinked
<1>7. Calm
  <2>1. CASE UNCHANGED k
    BY <2>1 DEF Calm
  <2>2. ASSUME NEW t \in Threads, NEW e \in Events, event_notifyISR(t, e)
        PROVE  Aside(SideEvents)
    <3>1. e \in PriorLists /\ ResumeFromPriorListISR(t, e)
      BY <2>2, EventAssumption DEF event_notifyISR
    <3> QED
      BY <1>1, <1>4, <3>1, NotifyStep DEF MutexFit, Steps
  <2> QED
    BY <2>1, <2>2 DEF Calm, task_enterCritical, task_exitCritical, kernelVars
<1>8. /\ WaitsInside'
      /\ \A q \in Queues, puts \in BOOLEAN : Waits(q, puts)' \subseteq Waits(q, puts)
  BY <1>1, <1>6, <1>7, CalmInside
<1>9. JobTypes' /\ Held' /\ AllBegun'
  BY <1>1, SameHeld DEF JobTypes, AllBegun, Begun
<1> QED
  BY <1>4, <1>6, <1>8, <1>9

\* The ring an interrupt routine puts a byte in, or takes one from.
LEMMA OuterRings ==
  ASSUME Rings, NEW t \in Threads, Outer(t)
  PROVE  /\ Rings' /\ UNCHANGED <<pc, job, now, due, busy, inside>>
         /\ ring'[Tx] # ring[Tx] =>
              ring'[Tx].qty = ring[Tx].qty - 1 /\ queue_get8ThdISR(t, Tx, Thd)
<1>1. Tx \in Queues /\ Rx \in Queues /\ Rx # Tx /\ ring = [q \in Queues |-> ring[q]]
  BY SerialAssumption DEF Rings
<1>2. UNCHANGED <<pc, job, now, due, busy, inside>>
  BY DEF Outer, task_enterCritical, task_exitCritical, queue_put8ISR, queue_get8ThdISR,
         notifyISR, event_notifyISR, ResumeFromPriorListISR, kernelVars, aboveKernel
<1>3. CASE UNCHANGED ring
  BY <1>2, <1>3 DEF Rings, RingsSound
<1>4. ASSUME NEW key, queue_put8ISR(t, Rx, key), ~ UNCHANGED ring
      PROVE  Rings' /\ ring'[Tx] = ring[Tx]
  <2>1. ~ isFull(Rx) /\ ring' = [ring EXCEPT ![Rx] = put(Rx, key)]
    BY <1>4 DEF queue_put8ISR
  <2> QED
    BY <1>1, <2>1, TouchRings
<1>5. CASE queue_get8ThdISR(t, Tx, Thd)
  <2>1. ~ isEmpty(Tx) /\ ring' = [ring EXCEPT ![Tx] = get(Tx)]
    BY <1>5 DEF queue_get8ThdISR
  <2>2. Rings'
    BY <1>1, <2>1, TouchRings
  <2>3. get(Tx).qty = ring[Tx].qty - 1
    <3>1. 1 \in Nat \ {0} /\ Sound(Tx, ring[Tx]) /\ IsRing(Tx, ring[Tx])
      BY <1>1 DEF Rings, RingsSound
    <3> QED
      BY <1>1, <2>1, <3>1, GetTakesFirst
  <2>4. ring'[Tx] = get(Tx)
    BY <1>1, <2>1
  <2> QED
    BY <1>2, <1>5, <2>2, <2>3, <2>4
<1> QED
  BY <1>2, <1>3, <1>4, <1>5 DEF Outer

\* The transmit routine takes a byte.  When no more than the threshold are left it
\* notifies the only thread that can wait for room.
LEMMA OuterServing ==
  ASSUME QueuesApart, Serving, SerialInv', AllMeant', NEW t \in Threads, Outer(t)
  PROVE  Serving'
<1>1. Tx \in Queues /\ Rx \in Queues /\ Thd \in Int /\ Output[Tx] = Ev(Tx, TRUE)
      /\ Input[Rx] \in Events /\ Output[Tx] \in Events
  BY SerialAssumption, QueueAssumption DEF Ev
<1>2. /\ Rings' /\ UNCHANGED <<pc, job, now, due, busy, inside>>
      /\ ring'[Tx] # ring[Tx] =>
           ring'[Tx].qty = ring[Tx].qty - 1 /\ queue_get8ThdISR(t, Tx, Thd)
  BY OuterRings DEF Serving
<1>3. \/ task_enterCritical(t) \/ task_exitCritical(t)
      \/ \E e \in Events : event_notifyISR(t, e)
      \/ UNCHANGED kernelVars
  BY <1>1 DEF Outer, queue_put8ISR, queue_get8ThdISR, notifyISR
<1>4. /\ QueuesLinked' /\ JobTypes' /\ Held' /\ AllBegun' /\ WaitsInside'
      /\ MutexFit(MutexPoints, QueueUses)
      /\ Waits(Tx, TRUE)' \subseteq Waits(Tx, TRUE)
  BY <1>1, <1>2, <1>3, OuterCalm DEF aboveKernel
<1>5. Served'
  <2>1. CASE ring'[Tx] = ring[Tx]
    BY <1>4, <2>1 DEF Serving, Served
  <2>2. CASE ring'[Tx] # ring[Tx] /\ ring'[Tx].qty > Thd
    BY <2>2 DEF Served
  <2>3. CASE ring'[Tx] # ring[Tx] /\ ~ ring'[Tx].qty > Thd
    <3>1. ring[Tx].qty \in Nat
      BY <1>1, QueueAssumption DEF Serving, Rings, RingsSound, Sound
    <3>2. notifyISR(t, Ev(Tx, TRUE))
      <4>1. ring'[Tx].qty = ring[Tx].qty - 1 /\ queue_get8ThdISR(t, Tx, Thd)
        BY <1>2, <2>3
      <4>2. ring[Tx].qty - 1 <= Thd
        BY <1>1, <2>3, <3>1, <4>1
      <4> QED
        BY <1>1, <4>1, <4>2 DEF queue_get8ThdISR
    <3>3. CASE k.head[Ev(Tx, TRUE)] = NULL
      <4>1. Waits(Tx, TRUE) = Waiters(Ev(Tx, TRUE))
        BY <1>1, WaitersAre DEF Serving, QueuesLinked
      <4>2. Waiters(Ev(Tx, TRUE)) = {}
        BY <3>3, ChainNull DEF Waiters
      <4> QED
        BY <1>4, <4>1, <4>2 DEF Served
    <3>4. CASE event_notifyISR(t, Ev(Tx, TRUE))
      <4>1. Waits(Tx, TRUE)' = {}
        BY <1>1, <1>2, <1>4, <3>4, NotifyEmpties DEF MutexFit, Serving
      <4> QED
        BY <4>1 DEF Served
    <3> QED
      BY <3>2, <3>3, <3>4 DEF notifyISR
  <2> QED
    BY <2>1, <2>2, <2>3
<1> QED
  BY <1>2, <1>4, <1>5 DEF Serving

\* The queue calls of the transmit queue put, and wait only while it is full.
LEMMA QueueServing ==
  ASSUME QueuesApart, EventsApart, Thd < Size[Tx],
         Serving, SerialInv', AllMeant', [QueueNext]_queueVars
  PROVE  Serving'
<1>1. Tx \in Queues /\ Tx # Rx /\ Thd \in Int /\ Size[Tx] \in Int
  BY SerialAssumption, QueueAssumption
<1>2. /\ QueuesLinked /\ JobTypes /\ Held /\ AllBegun /\ Rings /\ WaitsInside
      /\ Below(MutexPoints) /\ ring[Tx].qty \in Nat
  BY <1>1, QueueAssumption DEF Serving, QueuesLinked, Rings, RingsSound, Sound
<1>3. QueuesLinked' /\ Stays /\ JobTypes' /\ Held' /\ AllBegun' /\ Rings'
  BY <1>2, SerialLeavesItsSide, QueuesLinkedNext, NextJobs, NextHeld, NextBegun, NextRings
<1>4. MutexFit(MutexPoints, QueueUses)
  BY <1>2, <1>3, QueuesFit DEF QueuesLinked
<1>5. /\ WaitsInside'
      /\ \/ Waits(Tx, TRUE)' \subseteq Waits(Tx, TRUE)
         \/ Stuck(Tx, TRUE) /\ UNCHANGED ring
  BY <1>1, <1>2, <1>3, <1>4, NextInside
<1>6. ring'[Tx].qty \in Nat /\ ring'[Tx].qty >= ring[Tx].qty
  <2>1. ASSUME NEW t \in Threads, queue_move(t)
        PROVE  ring'[Tx].qty >= ring[Tx].qty
    <3> PICK c : c = job[t].call
      OBVIOUS
    <3>1. c.q = Tx => c.puts
      BY <1>1, <2>1 DEF Serving, SerialInv, Fits, ByteCall, queue_move, Doing
    <3>2. /\ ring'[c.q].qty = IF c.puts THEN ring[c.q].qty + 1 ELSE ring[c.q].qty - 1
          /\ \A q \in Queues \ {c.q} : ring'[q] = ring[q]
      BY <1>2, <2>1, MoveQty
    <3> QED
      BY <1>1, <1>2, <3>1, <3>2
  <2>2. ring'[Tx].qty \in Nat
    BY <1>1, <1>3, QueueAssumption DEF Rings, RingsSound, Sound
  <2> QED
    BY <1>2, <2>1, <2>2, RingMoves
<1>7. Served'
  <2>1. CASE Waits(Tx, TRUE)' \subseteq Waits(Tx, TRUE)
    <3>1. Waits(Tx, TRUE)' # {} => ring[Tx].qty > Thd
      BY <2>1 DEF Serving, Served
    <3>2. ring[Tx].qty > Thd => ring'[Tx].qty > Thd
      BY <1>1, <1>2, <1>6
    <3> QED
      BY <3>1, <3>2 DEF Served
  <2>2. CASE Stuck(Tx, TRUE) /\ UNCHANGED ring
    BY <1>1, <1>2, <2>2 DEF Served, Stuck, isFull
  <2> QED
    BY <1>5, <2>1, <2>2
<1> QED
  BY <1>3, <1>5, <1>7 DEF Serving

\* Nobody waits for room that is there (serial-port.c:108): the routine notifies when no
\* more than the threshold of bytes are left, and the mutex of the side lets one thread
\* wait, so that one notification suffices; for every size of the queue above the
\* threshold, and every use of it by threads of priorities of their own.
THEOREM SendersServed ==
  ASSUME QueuesApart, EventsApart, Thd < Size[Tx]
  PROVE  SerialSpec => []SenderServed
<1>1. Serving => SenderServed
  <2> SUFFICES ASSUME Serving PROVE SenderServed
    OBVIOUS
  <2>1. Tx \in Queues /\ Output[Tx] = Ev(Tx, TRUE)
    BY SerialAssumption DEF Ev
  <2>2. Waiters(Ev(Tx, TRUE)) = Waits(Tx, TRUE)
    BY <2>1, WaitersAre DEF Serving, QueuesLinked
  <2> QED
    BY <2>1, <2>2 DEF Serving, Served, SenderServed
<1>2. SerialInit => Serving
  BY InitServing
<1>3. Serving /\ [SerialNext]_serialVars => Serving'
  <2> SUFFICES ASSUME Serving, [SerialNext]_serialVars PROVE Serving'
    OBVIOUS
  <2>1. SerialInv /\ AllMeant /\ SerialInv' /\ AllMeant'
    BY NextSerialInv, NextMeant DEF Serving
  <2>2. [QueueNext]_queueVars \/ \E t \in Threads : Outer(t)
    BY <2>1, SerialIs
  <2> QED
    BY <2>1, <2>2, OuterServing, QueueServing
<1> QED
  BY <1>1, <1>2, <1>3, PTL DEF SerialSpec

=============================================================================
