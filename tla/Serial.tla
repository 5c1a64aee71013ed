-------------------------------- MODULE Serial --------------------------------
(***************************************************************************)
(* The serial port driver, serial-port.c: a queue of received bytes, a     *)
(* queue of bytes to send, the two interrupt routines of the USCI and the  *)
(* calls that print values and edit a line of text.                        *)
(*                                                                         *)
(* A call is one critical section in which every byte is a queue call.     *)
(* line[t] is the call of t: the bytes it still has to send, what it does  *)
(* then, and the state of the line editor or of the menu.  Only what the   *)
(* editor distinguishes of a received byte, its key, is modelled; of the   *)
(* bytes to send, how many they are.                                       *)
(***************************************************************************)
EXTENDS Queue

CONSTANTS
  Tx, Rx,      \* the queues
  Thd,         \* the threshold of the transmit routine (2 of 4 bytes)
  SerialCalls, \* SerialCalls[t]: the calls thread t makes
  Hit,         \* the keys that are hit
  Words,       \* the lengths of the strings that are sent
  BufferSize,  \* the size of the buffers the editors fill
  OptLen,      \* the lengths of the options of serial_option, from 0
  MaxLeaks     \* BOUND: how many sections serial_option leaves open

\* What the editors distinguish of the bytes received.
Keys == {"digit", "letter", "plus", "minus", "back", "control"}

ASSUME SerialAssumption ==
  /\ Queues = {Tx, Rx} /\ Tx # Rx /\ Thd \in 0 .. Size[Tx]
  /\ Words \subseteq Nat /\ Hit \subseteq Keys /\ BufferSize \in Nat \ {0}
  /\ IsFiniteSet(DOMAIN OptLen) /\ 0 \in DOMAIN OptLen
  /\ DOMAIN OptLen = 0 .. Cardinality(DOMAIN OptLen) - 1
  /\ NULL \notin Keys /\ MaxLeaks \in Nat

VARIABLES
  txie,  \* IE2 & UCA0TXIE: the transmit interrupt is enabled
  line   \* line[t]: the serial call of t

serialVars == <<queueVars, txie, line>>

-----------------------------------------------------------------------------
(* The calls *)

\* How many bytes the calls that send a value may put.
sends ==
  [putchar     |-> {1},
   serial_char |-> {1},
   serial_endl |-> {2},
   serial_line |-> {n + 2 : n \in Words},
   serial_msg  |-> Words,
   serial_bool |-> {4, 5},
   serial_x8   |-> {2},
   serial_x16  |-> {4},
   serial_u16  |-> 1 .. 5,
   serial_s16  |-> 1 .. 6,
   serial_u8   |-> 1 .. 3]

\* The keys the editors put in the buffer, and those that end the line.
accepts(c, key) ==
  IF c = "serial_getStr" THEN key \notin {"back", "control"} ELSE key = "digit"

ends(c, key) == key = "control" \/ (c = "serial_option" /\ key = "back")

timed(c) == c \in {"serialTimer_get", "serialTimer_getNum"}

\* The queue calls of a call, for each byte it sends or receives.
queueCalls(c) ==
  {queue_put8(Tx)} \cup
    (IF c \in DOMAIN sends THEN {}
     ELSE IF timed(c) THEN {queueTimer_get8(Rx, tm) : tm \in TickLists}
     ELSE {queue_get8(Rx)})

ASSUME CallsAssumption ==
  \A t \in Threads : Calls[t] = UNION {queueCalls(c) : c \in SerialCalls[t]}

\* at: the next step; out: the bytes to send, then: the step after them;
\* key: the byte received; count: the bytes in the buffer; i: the option;
\* depth: the critical sections of the thread when it made the call.
NoLine == [at |-> "idle", call |-> NULL, out |-> 0, then |-> "idle",
           key |-> NULL, count |-> 0, i |-> 0, depth |-> 0]

\* The line with n bytes to send and a step that follows them.
emit(s, n, step) ==
  [s EXCEPT !.out = n, !.then = step, !.at = IF n = 0 THEN step ELSE "put"]

begins(c, depth) ==
  LET s == [NoLine EXCEPT !.call = c, !.depth = depth]
  IN  IF c \in DOMAIN sends THEN {emit(s, n, "exit") : n \in sends[c]}
      ELSE IF c = "serial_option" THEN {emit(s, OptLen[0], "get")}
      ELSE {emit(s, 0, "get")}

\* The bytes that replace option i by option j on the screen.
redraw(i, j) == 3 * OptLen[i] + OptLen[j]

\* Mutant: takes one character more than the buffer holds.
edited_full(s) ==
  IF accepts(s.call, s.key)
  THEN IF s.count <= BufferSize - 1
       THEN emit([s EXCEPT !.count = @ + 1], 1, "get") ELSE emit(s, 0, "get")
  ELSE emit(s, 0, IF ends(s.call, s.key) THEN "exit" ELSE "get")

\* What an editor does with a key.
edited(s) ==
  IF accepts(s.call, s.key)
  THEN IF s.count < BufferSize - 1
       THEN emit([s EXCEPT !.count = @ + 1], 1, "get") ELSE emit(s, 0, "get")
  ELSE IF s.key = "back"
  THEN IF s.count > 0
       THEN emit([s EXCEPT !.count = @ - 1], 3, "get") ELSE emit(s, 0, "get")
  ELSE IF ends(s.call, s.key) THEN emit(s, 2, "exit") ELSE emit(s, 0, "get")

\* What the menu does with a key.  It returns inside its critical section.
chosen(s) ==
  LET qty  == Cardinality(DOMAIN OptLen)
      next == IF s.i + 1 >= qty THEN 0 ELSE s.i + 1
      prev == (IF s.i = 0 THEN qty ELSE s.i) - 1
  IN  IF ends(s.call, s.key) THEN emit(s, 2, "idle")
      ELSE IF s.key = "plus" THEN emit([s EXCEPT !.i = next], redraw(s.i, next), "get")
      ELSE IF s.key = "minus" THEN emit([s EXCEPT !.i = prev], redraw(s.i, prev), "get")
      ELSE emit(s, 0, "get")

\* Mutant: a time-out returns without leaving the section.
answered_leaking(s) ==
  IF s.call \in {"serial_get", "serialTimer_get"} THEN emit(s, 0, "exit")
  ELSE IF s.key = NULL THEN emit([s EXCEPT !.count = 0], 0, "idle")
  ELSE IF s.call = "serial_option" THEN chosen(s)
  ELSE edited(s)

\* What a call does with the byte it received, or with the time-out.
answered(s) ==
  IF s.call \in {"serial_get", "serialTimer_get"} THEN emit(s, 0, "exit")
  ELSE IF s.key = NULL THEN emit([s EXCEPT !.count = 0], 0, "exit")
  ELSE IF s.call = "serial_option" THEN chosen(s)
  ELSE edited(s)

-----------------------------------------------------------------------------
(* The steps of a call *)

SerialInit == QueueInit /\ txie = FALSE /\ line = [t \in Threads |-> NoLine]

\* t is between two queue calls, at a step of its serial call.
AtStep(t, step) == Doing(t, "idle") /\ line[t].at = step

finished(s) == IF s.at = "idle" THEN NoLine ELSE s

serial_begin(t, c) ==
  /\ AtStep(t, "idle")
  /\ c = "serial_option" => critical[t] < MaxLeaks
  /\ task_enterCritical(t)
  /\ \E s \in begins(c, critical[t]) : line' = [line EXCEPT ![t] = s]
  /\ UNCHANGED <<aboveKernel, ring, job, txie>>

\* _put: the queue call, then the transmit interrupt is enabled.
_put(t) ==
  /\ AtStep(t, "put") /\ queue_enter(t, queue_put8(Tx))
  /\ line' = [line EXCEPT ![t].at = "arm"]
  /\ UNCHANGED txie

\* Mutant: forgets to enable the interrupt.
_put_end_unarmed(t) ==
  /\ AtStep(t, "arm")
  /\ line' = [line EXCEPT ![t] = finished(emit(@, @.out - 1, @.then))]
  /\ UNCHANGED <<queueVars, txie>>

_put_end(t) ==
  /\ AtStep(t, "arm") /\ txie' = TRUE
  /\ line' = [line EXCEPT ![t] = finished(emit(@, @.out - 1, @.then))]
  /\ UNCHANGED queueVars

\* _get and _getTimeout.
_get(t) ==
  /\ AtStep(t, "get")
  /\ \/ ~ timed(line[t].call) /\ queue_enter(t, queue_get8(Rx))
     \/ timed(line[t].call) /\ \E tm \in TickLists : queue_enter(t, queueTimer_get8(Rx, tm))
  /\ line' = [line EXCEPT ![t].at = "key", ![t].key = NULL]
  /\ UNCHANGED txie

_get_end(t) ==
  /\ AtStep(t, "key")
  /\ line' = [line EXCEPT ![t] = finished(answered(@))]
  /\ UNCHANGED <<queueVars, txie>>

serial_end(t) ==
  /\ AtStep(t, "exit") /\ task_exitCritical(t)
  /\ line' = [line EXCEPT ![t] = NoLine]
  /\ UNCHANGED <<aboveKernel, ring, job, txie>>

\* A step inside a queue call: a byte that is got becomes the key.
InQueue(t) ==
  /\ InCall(t)
  /\ line' = IF ring'[Rx].qty < ring[Rx].qty
             THEN [line EXCEPT ![t].key = front(Rx)] ELSE line
  /\ UNCHANGED txie

-----------------------------------------------------------------------------
(* The interrupt routines, when t runs *)

\* The buffer is free.  With nothing to send, the routine disables itself.
_usciAB0_tx_isr(t) ==
  /\ txie
  /\ \/ queue_get8ThdISR(t, Tx, Thd) /\ UNCHANGED txie
     \/ /\ InterruptsEnabled(t) /\ isEmpty(Tx)
        /\ txie' = FALSE /\ UNCHANGED queueVars
  /\ UNCHANGED line

\* A key was hit.  A full queue drops it.
_usciAB0_rx_isr(t) ==
  /\ \E key \in Hit : queue_put8ISR(t, Rx, key)
  /\ UNCHANGED <<txie, line>>

\* The time-out a client sets before its timed call.
setTick_client(t) ==
  /\ AtStep(t, "idle") /\ \E c \in SerialCalls[t] : timed(c)
  /\ \E tm \in TickLists, d \in Delays : task_setTimeout(t, tm, d)
  /\ UNCHANGED <<timeOnly, ring, job, txie, line>>

SerialThread(t) ==
  \/ InQueue(t)
  \/ \E c \in SerialCalls[t] : serial_begin(t, c)
  \/ line[t].at = "idle" /\ rest(t) /\ UNCHANGED <<txie, line>>
  \/ _put(t)
  \/ _put_end(t)
  \/ _get(t)
  \/ _get_end(t)
  \/ serial_end(t)

Transmit == \E t \in Threads : _usciAB0_tx_isr(t)

Boot == boot /\ UNCHANGED <<ring, job, txie, line>>

SerialNext ==
  \/ Boot
  \/ \E t \in Threads : SerialThread(t) \/ setTick_client(t) \/ _usciAB0_rx_isr(t)
  \/ Transmit
  \/ (tick \/ interrupt) /\ UNCHANGED <<txie, line>>

SerialSpec == SerialInit /\ [][SerialNext]_serialVars

-----------------------------------------------------------------------------
(* Properties *)

\* The transmitter does not go to sleep on bytes that wait (serial-port.c:137-140
\* against 104-121): while there are bytes to send the interrupt is enabled, or
\* a thread has put one and is about to enable it, whoever preempts it meanwhile.
TransmitterArmed ==
  ring[Tx].qty > 0 =>
    txie \/ \E t \in Threads : line[t].at = "arm" /\ job[t].at \in {"leaving", "idle"}

\* The editors and the menu stay in their memory (serial-port.c:302-349, 406-414),
\* whatever keys come, and with them the time-outs.
EditorInBounds ==
  \A t \in Threads : line[t].count < BufferSize /\ line[t].i \in DOMAIN OptLen

\* Every path of a call, time-outs and dropped keys included, leaves the thread
\* in as many critical sections as it came with (task.h:33-48), but for the one
\* that serial_option keeps (serial-port.c:404).
SectionsClosed ==
  [][\A t \in Threads :
       line[t].at # "idle" /\ line'[t].at = "idle" =>
         critical'[t] =
           line[t].depth + IF line[t].call = "serial_option" THEN 1 ELSE 0]_serialVars

\* Nobody waits for room that is there (serial-port.c:108): a thread waits for the
\* transmit queue only while it holds more bytes than the threshold, so that the
\* routine, which TransmitterArmed keeps enabled, still has a notification to make.
SenderServed == Waiters(Output[Tx]) # {} => ring[Tx].qty > Thd

=============================================================================
