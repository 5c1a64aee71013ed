# anyRTOS in TLA+

A verification development of anyRTOS: TLA+ modules translated from the C
sources of the kernel, its byte queues, its drivers and its two programs, TLC
configurations that check them on small instances, and theorems that TLAPS
proves for every instance. All paths below are relative to `src/`.

## 1. The system

anyRTOS is a preemptive scheduler for microcontrollers with a few hundred bytes
of memory. It allocates nothing: a thread is a `thread_t` that its client
declares, and every queue of the kernel is a linked list threaded through
members of `thread_t`. Interrupts are masked while the kernel works; a call that
blocks opens a window for them (`_checkIRQ`) before it returns.

| Component | Source | State | Operations |
|---|---|---|---|
| Thread lists | `anyRTOS/src/thread-list.h` | `nextPr`, `nextTk`, back pointers `prevPr`, `prevTk`, first and last pointers | put, get, remove in lists sorted by priority, lists sorted by tick, FIFO ready queues |
| Scheduler | `anyRTOS/src/anyRTOS.c:1-160` | `_running`, `_ready[]`, one saved context and one section counter per thread | init, add, run, jump, yield, resume |
| Task control | `anyRTOS.c:165-243` | `critical`, `prior`, `tick` of the running thread | enterCritical, exitCritical, setPriority, yield, suspend, resume, yieldISR, tick setting |
| Events | `anyRTOS.c:248-289` | one priority list | wait, notify, notifyAll, and both for interrupt routines |
| Mutexes | `anyRTOS.c:294-341` | owner and one priority list | enter, exit, both with a critical section |
| Timers | `anyRTOS.c:346-430` | tick counter and one tick list | tick, wait, shift, period, delay, abort |
| Semaphores | `anyRTOS.c:433-473` | red or green and one priority list | wait, signal, signalISR |
| Timed waits | `anyRTOS.c:480-558` | a thread in a priority list and a tick list at once | eventTimer_wait, mutexTimer_enter(Critical), semTimer_wait |
| Port | `anyRTOS/src/port.h` | saved registers | change context, enable and disable interrupts |
| Byte queues | `anyRTOS-util/queue.c` | ring of bytes, two mutexes, two events | put and get of bytes, blocks, strings; timed; in interrupts |
| Timer driver | `demo/foundation/msp-exp430g2/timers.c` | count of users, run bit | on, off, tick interrupt |
| Serial port | `.../serial-port.c` | two queues, interrupt enable bits | print values, read keys, edit lines, choose options; both interrupts |
| ADC, board | `.../adc.c`, `.../board-msp-exp430g2.c` | event, mutex | convert, wait for the switch; their interrupts |
| Calendar and clock | `demo/intervalometer/src/date-time`, `.../rtcc` | time, alarm, season, flag | count seconds, set, print, start, stop, alarm |
| Intervalometer | `demo/intervalometer/src/intervalometer` | command, settings, two outputs | run, HDR, stop, settings |
| Prompt, switch | `demo/intervalometer/src/prompt`, `.../switch` | a line | the commands |
| Demo program | `demo/anyRTOS-msp-exp430g2/src` | clock, queue, event | LED, clock, terminal with its tests, sender |

**Interaction.** Everything above the scheduler moves threads between lists:
a wait puts the running thread in the list of an object and jumps; a
notification, signal, exit or tick takes threads out and puts them in the ready
queues; whoever does so yields if it made a higher priority thread ready
(`_resume`), or, in an interrupt routine, returns the advice to yield, which the
driver follows with `task_yieldISR` (`timers.c:168`). The switch and the ADC
instead call `event_notify` inside their routines, which then yields there. The
queues join threads with each other and with the interrupt routines of the
serial port; the programs join their threads with shared variables, which
they guard by staying in a critical section except while they wait.

**What is hard.** `nextPr` serves the ready queues and the priority lists in
turn, so every put must not trust what the last list left in it. A timed wait is
in two lists, and whoever takes it out of one takes it out of the other through
a back pointer written when it was put. Tick counters wrap around. Interrupt
routines run between any two instructions outside a section, and inside every
call that blocks. The interrupt flag belongs to a context, the counter of
nested sections to a thread, and context switches come between. Above the
kernel, each wait inside a critical section opens it: what was tested before
may be false after. Queue calls wait in the middle of their message, the serial
interrupt disables itself beside a thread that is about to enable it, a stop comes
at any step of a shooting, and dates are typed in the place where they count.

**What makes each component correct.**
Lists: they end, hold the threads that were put and no other, in their order.
Scheduler: some thread always runs; none is lost and none is in two places; no
ready thread has a higher priority than the running one; equal priorities take
turns; client sections are not preempted. Events: a notification wakes a thread that waits.
Timers: a tick wakes exactly those whose time has come. Mutexes: exclusion, and no
waiter left behind at a free mutex. Semaphores: no signal is lost. Timed waits: one
cause wakes the thread, and the result names it. Queues: bytes come out once, in
order and by whole messages, and nobody waits for a notification that will not
come. Serial port: the transmitter does not stop on bytes that wait, the editors stay
in their buffers, sections are left as often as entered. Timer driver: nobody waits
for a timer that stands still. Clock: nobody sees half a date, time goes on, alarms are
called in time and once. Intervalometer: the outputs are off when no process runs,
a stop is not slept over, exposures last as long as they should.

## 2. Modules

```
ThreadList ── Kernel ── Event ── Timer ──┬── Mutex ── Client ──┬── TimerDriver ── Program ──┬── Intervalometer
                                         ├── Sem               │                            ├── Rtcc (and Calendar)
                                         │                     │                            └── Demo (and Queue, DemoCalendar)
                                         │                     └── Queue ──┬── Serial
                                         │                                 └── QueueRefinement ──> Channel
                                         └── SchedulerRefinement ──> AbstractScheduler

KernelProofs ── ListProofs ──┬── MutexProofs ──┬── QueueProofs ── SerialProofs
                             ├── SemProofs     └── RtccProofs
                             └── ProgramProofs
```

A line is `EXTENDS`; the arrows are `INSTANCE ... WITH` a refinement mapping. `MC*.tla`
give the constants values for TLC; `*Proofs.tla` hold the theorems, each module about the
one it is named after (`KernelProofs` about `Kernel`, `Event` and `Timer`, `MutexProofs`
about `Client` too, `ProgramProofs` about `Intervalometer` and `DemoCalendar`); those in a line
share invariants and lemmas. Each layer adds its actions to
the next-state relation of the one below, so a mutex is checked together with the
suspensions, ticks and preemptions under it. The programs keep the kernel's
memory, pointers included, and take instead of the free clients of the lower layers
their own threads, statement by statement.

**ThreadList** (`thread-list.h`) has no variables. A memory `k` is a record of
the pointer members the list code reads and writes; each C function is an
operator from a memory to the memory after the call. A `thread_t**` is an
address, `[field, of]`: the head of a list or a link of a thread, and `Store`
writes through it. Nothing is recomputed that the code keeps: a link or back
pointer that the code does not update stays as it was. Loops that walk a list
are defined by the set of threads the cursor visits, so the module has no
recursive operator. `first` of a list is `head` here, as `first` names the
pointer of a ready queue. `BasicMode` is `ANYRTOS_BASIC_MODE`: one link for both kinds of
list and no back pointers. The intervalometer is built with it, the demo program without. `HalfRound` is
how far ahead a tick can compare as later (`thread-list.h:38`).

**Kernel** (`anyRTOS.c:49-243`). `k` is the memory, with the running thread;
`critical[t]` the section counter; `sr[t]` the interrupt flag, the processor's
own while `t` runs and the saved one otherwise; `pc[t]` the place where `t` goes
on: `"user"` in client code, otherwise the call it is inside of. Interrupts are
masked in the kernel, so a call that does not switch is one step. A call that
switches is three: up to the jump, the `eint` of `_checkIRQ`, and from its `dint`
to the return. An interrupt routine is one step of the thread it interrupts,
enabled by its flag. `KernelInit` is the state after `scheduler_init`, when
`main` adds its threads.

**Event**, **Timer**, **Mutex**, **Sem** follow the code call by call under its
own names; a call that switches is split as above (`event_wait`,
`event_wait_return`). `Timer` keeps beside the wrapped tick of every thread
(`k.tick`) the time it stands for (`due`), and beside the tick of a timer the
count of its ticks (`now`); the list operators see residues only, the properties
compare times. `Mutex` keeps what clients know (`inside`) beside `busy`. `Sem`
models that `sem_signalISR` leaves a section inside the interrupt routine, which
enables interrupts there: `frame[t]` is what the interrupted routine still has
to do, and other interrupts come first.

**AbstractScheduler** says what the scheduler promises: a running thread and one
FIFO queue per priority; the running thread starts, yields, blocks, wakes others
or changes its priority, and a wake-up yields exactly when it makes a higher
priority ready. **SchedulerRefinement** maps the pointers to it: a queue is what a
walk from its first pointer reads. The kernel and the timers implement it. Objects with
lists of waiters are not part of it: `event_notifyAll` and `mutex_exit` do not implement it (section 5).

**Client** has what all code above the kernel shares: the start of the threads, the
second halves of the kernel calls, and the interrupt routines that call `event_notify`,
which yield inside of the routine and end it later (`notifyInISR`).

**Queue** (`queue.c`). `ring[q]` is the memory with `first`, `last` and `qty`; `job[t]` the
call of `t` and how many bytes it has moved. The calls for blocks, bytes and strings,
plain and timed, are the same loop with few differences, which a call record
names: side, length, terminator, timer, and the mutex it leaves, which for
`queueTimer_put8` is the wrong one (`queue.c:207`). A byte and the notification that
follows it are one step, since interrupts are masked and nobody else looks between
them. A byte is a record of its writer, its place in the message and whether it is
the terminator. **Channel** is the promise, a bounded FIFO of bytes whose messages
are whole, and **QueueRefinement** the mapping.

**Serial** (`serial-port.c`). `line[t]` is the serial call of `t`: the bytes it still
sends, what it does next, and the state of the line editor or the menu. Every byte
is a queue call, followed by the step that enables the transmit interrupt (`txie`).
Of the bytes received only the kind of key is kept, of those sent their number.
`queueCalls` are the queue calls a serial call is made of; `CallsAssumption` gives `Calls` by them.

**TimerDriver** (`timers.c:149-251`): `qty` and `running` of each timer.

**Program** is the form of an application: `task[t].at` is the next statement of `t`,
the other fields its locals, and the operators (`Enter`, `WaitEvent`, `Sleep`, ...) are
statements made of one kernel call. Statements between two kernel calls are one step.

**Calendar** (`date-time.c` of the intervalometer and `rtcc.c:197-245`) and
**DemoCalendar** (`date-time.c` of the demo) are pure. **Rtcc** is the clock thread and the
clock commands of the prompt; **Intervalometer** the shooter, the shooting commands of the
prompt, and the switch; **Demo** the LED, the clock, the terminal with all its
commands and the sender.

The settings of `Intervalometer` are times in seconds, as they are typed, and `sec` is
`timer1_sec` (`timers.h:59-60`): it multiplies by the ticks of a second (`Freq`, 3900 in the
build) and cuts the product to the width of a tick. `_speeds` is the table of ticks that the
compiler makes of the times `Speeds`: a time that fits is in it as it is, one that does not
is any tick, as C leaves its conversion undefined. What was set (`asked`) is computed
without the width, so that the property compares both.

Operators marked *Mutant* are slips that could be made in the definition they
precede (a forgotten link, an inverted comparison, a missing wake-up). Nothing
uses them; put in the place of that definition, each breaks the property
`PROJECT.json` pairs it with, which shows that the property looks at the code.

### Clients, devices and time

Below the programs what clients do is nondeterministic within what the headers ask of
them: `task_resume` gets a suspended thread (`task.h:75`), `mutex_exit` comes from the
owner, a mutex is not entered twice, `mutex_exitCritical` is called inside a
section, the background thread never blocks (the kernel would have nobody to
run), sections are left as often as entered. The constants say which threads
make which waits, so that a run can be small.

In the programs the lines typed and the room to print are events that interrupts notify
at any time (`Line`, `Room`); `Serial` is the module of what happens behind them. A thread
that reads or prints finds what it needs or waits for it, once or many times.

A tick of a timer lasts longer than the return of a thread which the tick before woke
(`Tick`): a tick in that window, of a few instructions, would be a tick that the
thread does not see. Ticks may come at all other moments, also while late threads
are ready.

## 3. What TLC checks

| Run | Instance | Shows |
|---|---|---|
| `Kernel` | 3 threads, priorities 0 1 1, that raise them, nesting 2, fair | types, `ImplementsScheduler`, `NeverJumpsToNull`, `InterruptMask`, `NoThreadLost`, `PreemptivePriority`, `ClientSectionHeld`, `TakesTurns` |
| `Mutex` | 3 threads, 1 mutex, 1 timed entry, 2 events, nesting 1, 2 ticks | `MutualExclusion`, `NoStrandedWaiter`, `MutexLosesNoThread`, `InterruptMask`, `TimeoutNotEarly` |
| `Sem` | 3 threads, 3 waiters at one semaphore, a timed one at another | `SemLosesNoThread`, `NoLostSignal`, `ListsSorted`, `PreemptiveAfterInterrupts` |
| `Refinement` | 3 threads, priorities 0 1 1, a change of priority, all waits for timers, from 1 tick late to 2 ahead, the calls that set a tick, modulo 8, aborts | types, `ImplementsScheduler`, `TickWakesExactlyTheDue`, `TimerLosesNoThread` |
| `Queue` | a queue of 2 bytes, messages of 1 to 3, 3 threads on both sides, timeouts | `ImplementsChannel`, `NobodyStranded`, `QueueTypeOK` |
| `Serial` | queues of 2 and 1 bytes, threshold 1, a sender that also waits for another event, an editor with a timeout, a menu | `TransmitterArmed`, `SenderServed`, `EditorInBounds`, `SectionsClosed` |
| `Intervalometer` | shooter, prompt, switch; 2 shots, 3 speeds; first settings that the tick cannot follow and typed ones that it can; ticks modulo 14, 4 of them | `SleeperTimed`, `LedsSafe`, `StopNotSleptOver`, `ExposureLasts`, `ExposureNotLonger` |
| `Rtcc` | clock and prompt; 6 dates at the ends of months, years and seasons; 3 seconds of 2 ticks | `DatesValid`, `ClockGoesOn`, `AlarmOnTime`, `AlarmKept`, `NoLostStart`, `NoTimerLeft` |
| `EventShared` | 2 threads of one priority | violated: `OnlyBlockedAreListed` |
| `SemPass` | 3 waiters | violated: `WokenFindsGreen` |
| `QueuePut8` | 3 threads, single bytes | violated: `MutualExclusion` |
| `Demo` | the 4 threads of the program | violated: `WaitIsOver` |

**NoThreadLost and its kin** (`MutexLosesNoThread` ...) say where every thread is:
it runs, or is in the ready queue of its priority, or is in exactly the lists its
call put it in, or is suspended or new; and every list ends. They relate the
links to the places of all threads, and a slip in any list operation shows up
there, often several calls later.

**NobodyStranded** is the reason for the rule by which the queue calls notify (when the
ring gets full or empty, and at their end): a side waits only while the ring stops
it, or while a call of the other side is in the middle of its bytes and will notify.
It needs rings of two bytes or more for longer timed calls, whose first byte never
notifies (`queue.c:169`, `:188`); the instance has two.

**SectionsClosed** says that a serial call leaves as many sections as it entered, and
states the exception: `serial_option` keeps one (`serial-port.c:404`).

**ExposureLasts** says that an exposure takes the ticks of the time that was set, in the
processes that the tick can follow (`Followed`): delay and interval beyond the focus, and exposures so
far, of at most half a round, which is 8 seconds in the build (`thread-list.h:38`), and in a shooting a
part of the interval before the focus that is shorter than the focus. The condition is part of the property
and not of the run, whose first settings break it: an exposure that is cut to 3 ticks of 17, a speed beyond
the width, and an interval too long. The code's comments have no such condition (`intervalometer.c:47-52`,
`:81-84`, `:92`); what they say is false beyond it (section 5). **ExposureNotLonger** is what is left there:
an exposure is cut short, never drawn out.

**ImplementsScheduler** is checked of `KernelSpec` and of `TimerSpec`: in `Kernel` with yields, suspensions,
sections, interrupts and raised priorities, in `Refinement` with all waits for timers, ticks that wake
several, aborts and lowered priorities. It says nothing of events, mutexes and semaphores. Those need
priorities of their own, as finding 1 breaks their lists otherwise, and `event_notifyAll` and `mutex_exit`
compare the first waiter alone with the running thread, which is no step of the abstract scheduler
(section 5). For the signals of semaphores `PreemptiveAfterInterrupts` in `Sem` says it instead.

**Bounds, and why they are enough.** Three threads beside the background thread
give a list with a first, a middle and a last element, which is every case of
the list code; priorities 0 1 1 give a queue of two beside a higher priority.
`MaxNest` bounds how deep clients nest sections; 2 is the first depth at which
leaving one must not enable interrupts, and the code depends only on whether the
counter is zero. `TickMod` stands for 2^16; in `Refinement` the waits, from
one tick late to two ahead, span what a counter modulo 8 can tell apart: modulo 6 the
code's comparison fails there, and `TickWakesExactlyTheDue` with it, as the hypothesis `Near` of
its theorem does. The loops of
`timer_tick` and `threadQueueArray_putList` are given twice as many turns as there are
threads, more than a list that is not corrupted can use. `Sem` lets one signalling
routine at a time be interrupted per thread. A ring of two bytes with messages of
three gets full, empty and wrapped inside of one call. The serial queues of two and one byte
and a buffer of two reach every branch of the editors and of both interrupt routines,
the dropped key included. Four ticks cover two shots of one tick, as a half typed
zero makes them, or one of two, with the waits before, and a stop in each of these waits, with a second of one tick and 2 seconds of
focus (`Lead`, 3 in the code); six ticks are three seconds, over an end of
month, year or season, and a stop and a start of the clock. `MaxLeaks` bounds two
counters that the code itself lets grow: the sections that `serial_option` keeps, and
the timer users that a stop before the first shot leaves (`intervalometer.c:185-203`).

**Symmetry** is not used: the threads of every run differ in priority or in their calls.

**Fairness.** Only `Kernel` assumes any: the processor executes
the thread that runs, whose pending call returns, whose pending interrupts are
served, and which yields again and again (weak fairness of `Cooperate(t)`). It
is what the processor does for a client loop that calls `task_yield`. No
fairness is assumed of interrupts, suspensions or resumptions. Without the last
condition a thread may keep the processor from its equals for ever, which is the
code's intention: it has no time slices. For the layers above, what must happen is
stated as safety: nobody waits whom nobody will wake (`NobodyStranded`, `SenderServed`
with `TransmitterArmed`, `NoLostStart`, `StopNotSleptOver`, `SleeperTimed`).

`TimerUsers`, `TimedUsers` and the other user sets of the passing runs keep out the
cases of section 5. In the `Intervalometer` run prompt and switch have different
priorities, while `main.c` gives them one, which is the case of `EventShared`.
Deadlock is checked in every run.

## 4. What is proved

All theorems hold for every value of the constants that the named assumptions allow; the
hypotheses beyond them are part of the theorem and listed here. The assumptions say what C
gives for nothing (`ListAssumption`, `AddressAssumption`: threads are finitely many, `NULL` and
the removed mark are no thread, list or address, a list is of one kind) and what the headers
ask (`KernelAssumption`: other threads have a priority above the background thread's, which
never suspends itself; the assumptions of the other modules: who waits is not the
background thread, and waits for objects of the right kind).

### The scheduler

`KernelProofs.tla` proves of `KernelSpec`, for every set of threads, number of
priorities, assignment and change of priorities, and depth of nesting:

- `KernelTypesCorrect`: `[]KernelTypeOK`
- `SomebodyRuns`: `[]NeverJumpsToNull`
- `MaskFollowsSections`: `[]InterruptMask`
- `SectionsAreHeld`: `ClientSectionHeld`
- `NoThreadIsLost`: `[]NoThreadLost`
- `HighestPriorityRuns`: `[]PreemptivePriority`, if `task_setPriority` only raises a thread to
  the highest priority (`NewPriors \subseteq {0}`). It does not reschedule, so a thread that lowers
  itself goes on, above those that are ready (section 5); with it the property is false.

and of `TimerSpec`, with events, timers, timed waits and aborts of every kind:

- `TimerTypesCorrect`: `[]TimerTypeOK`
- `SomebodyRunsUnderTimers`: `[]NeverJumpsToNull`

**The argument.** None of these properties is inductive. That the scheduler never
jumps through a null pointer needs that somebody is ready whenever the running
thread gives up the processor. `IInv` follows the one thread that is always there. `Sound`
says that the background thread alone has the lowest priority, that no first pointer but that
of the lowest queue leads to it, and that no link of any thread does; `Guarded` adds
that it runs and the lowest queue is empty (`Vacant`), or that it is both the first and
the last of that queue (`Parked`). From this a put or get in any other queue, whatever its
links, cannot take the background thread out of its place (`PutThread`, `JumpGuarded`), and
`LeastElement` finds the queue `_jump` takes from. For the layers `Fenced` says the same of
every list and back pointer: nothing leads to the background thread, and it waits nowhere,
whatever the lists hold and however stale their pointers are; these theorems
hold in the broken cases of section 5, too. The loops that walk a list are read as recursive
functions, of which a least counterexample is ruled out. `Masked` extends `InterruptMask` from the
running thread to all of them, since the flag of a thread that does not run is what it will
run with.

`NoThreadIsLost` needs what a queue contains, that is, what links lead to. Induction along
them is out of the prover's reach, but `Chain(next, start)` is the least set that holds `start` and
follows the links, so a fact about a chain is proved by naming a set that does
(`ChainLeast`). `SInv` says of each ready queue that its chain ends at its last pointer
(`WellQueued`), that the chains are disjoint and hold the threads of their priority
(`Settled`), and that a thread that neither runs nor is ready suspended itself or is new
(`Dispatched`).

### The lists

`ListProofs.tla` proves of `TimerSpec`, `SemProofs.tla` of `SemSpec` and `MutexProofs.tla` of
`MutexSpec`:

- `TimersLoseNoThread`: `[]TimerLosesNoThread`, `SemaphoresLoseNoThread`: `[]SemLosesNoThread`,
  `MutexesLoseNoThread`: `[]MutexLosesNoThread`
- `TimeoutsNotEarly` and, of the entries of mutexes, `EntriesNotEarly`: `[]TimeoutNotEarly`,
  if `MaxDelay` is within the half range (`InHalfRange`)
- `TicksWakeTheDue`: `TickWakesExactlyTheDue`, if the window of waits is within half a round
  of the counter (`Near`)
- `ListsStaySorted`: `[]ListsSorted`
- `SignalsAreNotLost`: `[]NoLostSignal`
- `InterruptsKeepPriorities`: `[]PreemptiveAfterInterrupts`, if nobody lowers its priority and no event
  is notified to all (`Meek`)
- `NobodyWaitsForFreeMutex`: `[]NoStrandedWaiter`

They say of any number of threads and objects what the code is about, and so need the
conditions under which it works, each of which keeps out one of the findings of section 5.
They are stated of the *uses*, the pairs of a thread and the lists it waits in at once, which the
user sets of the constants give (`TimerUses`, `SemUses`, `MutexUses`):

- `Alone`: who waits with a timeout shares neither of its two lists with another thread. Back
  pointers go out of date as soon as a list has two threads (finding 2).
- `Distinct`: who waits in a priority list has its priority for itself, and nobody changes priority.
  Otherwise the stale link of finding 1 leads the list into a ready queue.
- `Abortable \subseteq TimerLabels`: nobody aborts a timed wait.
- `InHalfRange`: a longer wait compares as one in the past (`thread-list.h:38`).
- `Near`: `MaxDelay + MaxLate` is at most `HalfRound`, and `MaxLate` below it, so that any two
  times in one list, and each of them and the counter, compare as they are.
- `Meek`: `task_setPriority` and `event_notifyAll` leave a higher priority ready (section 5).

The runs `Refinement` and `Sem` satisfy these hypotheses, with several threads in one list and a
timed wait beside them. The run `Mutex` goes further in one point: one thread waits with a
timeout at a mutex that others wait for, too, which `Alone` excludes. With its three
threads nothing breaks; what it adds to the theorems is this case, and `TimeoutNotEarly`
and `MutexLosesNoThread` are only model-checked there.

**The argument.** `Hung(m, h)` relates the memory to a map `h` from threads to the lists that
hold them: each list ends and its chain is the set of threads that `h` says; a thread is in at most
one list by each of its links; the back pointer of who is alone in its two lists leads to their
heads; and behind its first thread a priority list is in order (`LineSorted`), for which the loop
of a put has to end between the lower and the higher (`LoopStops`). For each operation on a list one lemma says how it changes `h` (a put adds the list,
a removal takes it out of both), and for each loop one set of threads that it has passed.
`Strung` adds the ready queues (`WellQueued`, `Settled`, `Dispatched`) and joins both: who runs or is
ready hangs nowhere (`Pending`), and a waiter of a priority list has a clean `nextPr` when it runs,
for which it must be alone in its ready queue. The list of a timer is in the order of times that
nobody stores: the memory has their residues only. So `RowSorted` says of it that there are times
with these residues, within half a round (`Spaced`), in whose order the threads come; a put goes on
with the times of a put, and `Knit` has the actual ones, which are within the window (`Windowed`). As
residues of times within half a round tell their distance (`SameGap`), both orders are the same,
and when the loop of a tick ends at a first thread whose time has not come, nor has that of
those behind it (`LaterStays`). `Knit(U)` says it of the program: what hangs is what the
places `pc` of the threads say they wait for, and these are uses of `U`; it is the inductive invariant,
with one lemma per call. What the layers above need of a step is `Steps(U, M)`: `Knit(U)` again, nothing is
done to those that wait for an object of `M` but to wake them (`Aside`), and no higher priority stays
ready (`Preempts`). So the semaphores add to it only that who waits for a green
one has been `Prompted`, with a woken thread on its way, and the mutexes only `Free`: nobody
hangs in the list of a free one.

### Objects and programs

`SemProofs.tla` also proves `SemTypesCorrect` (`[]SemTypeOK`).

`MutexProofs.tla` proves of `MutexSpec`, whatever the lists do and with no hypothesis:
`MutexExcludes`, `[]MutualExclusion`; `MaskFollowsCalls`, `[]InterruptMask`; and
`MutexTypesCorrect`, `[]MutexTypeOK`. The invariant
`Owned` adds to exclusion that owners are threads and that `inside` has its type;
only the four steps that take or release a mutex touch it, and each of those tests
or writes the owner itself: whatever a list wakes, a thread enters only a mutex it finds
free. `Mask` says of every thread, not of the running one only, what
its flag is at each place of a call; its lemmas say it once of each
way to leave a thread, whatever the place it is left in, so that a call adds one citation.

`QueueProofs.tla` proves for rings of every size that `put` appends (`PutAppends`) and
`get` takes the first (`GetTakesFirst`), that the indices stay sound under `QueueSpec`
(`IndicesSound`, from `Rings`, which adds the types of the three numbers), and
`QueuesExclude`: if every call leaves the mutex of its own side (`LeavesItsSide`) then
`QueueSpec => []MutualExclusion`. Its invariant `Held` says which mutex a thread is inside
of at each point of its call, so that it is the owner who leaves. `LeavesItsSide` is
exactly what `queueTimer_put8` breaks and the run `QueuePut8` shows. `QueueTypesCorrect` is
`[]QueueTypeOK`, for all calls, that one included.

`QueuesAreChannels` is the refinement: `QueueSpec => ImplementsChannel`, if every call leaves the
mutex of its own side and begins with its first byte (`Whole`). The mapping reads of each side
who is in the middle of a call, so the proof shows first that there is at most one
(`Sole`): a call past its first byte is inside of the mutex of its side, and the mutex
excludes. Then a byte that is moved appends to the bytes of the channel or takes their
first, by `PutAppends` and `GetTakesFirst`, and every other step leaves the channel (`CalmChannels`).

`NoSideIsStranded` is `[]NobodyStranded`, for rings of every size above one. That bound is needed:
the first byte of a timed call notifies nobody, so one that fills or empties a
queue of a single byte leaves the other side asleep (`queue.c:169`). Its invariant `Attended`
joins the queues' calls to the lists: who waits for an event of a queue is in the middle of a
call of that side (`WaitsInside`); and while a side waits, the ring does not stop the other one,
and, once the ring does not stop the first either, somebody of the other side is in the middle
of its bytes and will notify (`Awake`). The hypotheses are those of the
lists (`QueuesApart`) and that no two sides share an event (`EventsApart`), since a notification
wakes one thread. The run `Queue` has timed calls on both sides of one queue, which
`QueuesApart` excludes: theorem and run complete each other.

`RtccProofs.tla` proves first of the calendar of the intervalometer, for every date-time whose
fields are in their ranges: comparing the fields one by one is comparing the times
(`LaterIsNotSooner`), and `_incSecond` leads to such a date-time, later than the one before but
where winter begins (`SecondLater`). Month lengths enter only as numbers from 28 to 31, so
that the leap years of the code do not matter.

It proves then of `RtccSpec`, for every set of threads, typed dates, missed fields
and functions:

- `AlarmsOnTime`: `[]AlarmOnTime`
- `TimeGoesOn`: `ClockGoesOn`
- `AlarmsKept`: `AlarmKept`

They rest on the assumptions of the layers and on `RtccAssumption`: two different threads
above the background, objects of their kinds, numbers that are typed are natural numbers,
and `NULL` is no function. The invariant `RtccInv` has three parts. `Control` holds who may run:
`Mask`, `Owned` and, of each of the two threads (`Placed`), that past its first statement it is
in its critical section and at certain statements also inside of `_mutex`; `Holding` adds that
nobody runs between the decision about the alarm and its call. `Stamps` says that the time
of the clock is in its ranges unless it is just being typed (`Half`), and the same
of the alarm: it is the last check of the ranges that allows to forget how a date was
typed, and the mutex that keeps the clock away before. `AlarmAt` is the property with one
more point, the return of the function, when the alarm must still be the one
that was called.

`DatesStayValid` is `DatesValid` as far as it is true: the code takes every year that ends a century
for a leap year (section 5), so a 29 February 2100 passes. The theorem says that at every moment
at which neither the clock nor the alarm is in such a year (`NoLeapCentury`) both are dates of the
calendar; `Stamps` holds for it that a date that is not half typed has a day of its month by the
code's own table (`InMonth`).

`StartsNotLost` (`[]NoLostStart`) and `TimerGivenBack` (`[]NoTimerLeft`) need the lists, too, and so
their hypotheses (`MutexesApart`), and that the byte that counts the users of a timer can
count two (`QtyMod > 2`). Their invariant `Served` adds to the lists how many of the two
threads are at statements where they need the timer (`TimerCounted`), who may wait for what
(`Awaits`), that the clock decides to wait and waits without anybody running in between
(`Resting`), and that it does not wait while it should go (`Told`).

`SerialProofs.tla` proves of `SerialSpec`, for every number of threads, size of queues and
buffers, threshold, menu and input:

- `TransmitterStaysArmed`: `[]TransmitterArmed`
- `EditorsInBounds`: `[]EditorInBounds`
- `CallsCloseSections`: `SectionsClosed`

They need of `SerialAssumption` that the queues are two, that the options of a menu are
numbered from 0, and that `NULL` is no key. The invariant `SerialInv` says of each thread
(`Fits`) how its serial call, the queue call in it and the kernel call in that agree: a queue
call puts one byte in the transmit queue when the line is at `arm` and gets one when it is at
`key`, and the sections of the thread are those of its client, one for the serial call, one
for the queue call and one for a kernel call that has not returned, the entry of a
critical mutex counting as the queue call's. One byte is the whole of a call, so that the call
that put it is past its loop and leads to `_put_end`: this is what keeps the transmitter
armed. `SectionsClosed` needs more, since in `answered` a `serial_option` whose queue
call came back with no key would leave its section: `KeyInv` adds that the receive queue holds keys from its first to its
last (`Holds`, kept by `PutHolds` and `GetHolds`) and that a call without a timer
does not come back with none.

`SendersServed` is `[]SenderServed`, and stands on the proofs of the queues: each step of the serial
port is one of `QueueNext`, or enters or leaves a section, or is a byte of an interrupt
routine (`SerialIs`). So what `QueueProofs` says of who waits where (`WaitsInside`) holds here too. A thread
goes to wait when the transmit queue is full, which is above the threshold, and only the transmit
routine takes bytes from it; when it comes down to the threshold it notifies, and the mutex of the side
lets one thread wait, so that after one notification nobody does (`NotifyEmpties`). The
hypotheses are `QueuesApart` and `EventsApart`, as for the queues, and that the threshold is less
than the size; the run `Serial` satisfies them.

`ProgramProofs.tla` proves `CameraLeftInPeace`: `InterSpec => []LedsSafe`, for every setting, typed
command and moment of a stop. The invariant `Following` ties the outputs to the statement the shooter
is at: each LED that shines was lit for the wait it is in. It needs that the three threads of the
program are different (`IntervalometerAssumption`, which also says which list is the timer's and which are
events), and nothing of the lists: a shooter woken
too early or too late still goes on at its next statement.

Three more properties of the intervalometer rest on the lists of `ListProofs`. Their hypothesis
is `TimersApart` (`Alone`, `Distinct` and the condition on aborts above, for `TimerUses`):

- `StopsAreNotSleptOver`: `[]StopNotSleptOver`
- `SleepersAreTimed`: `[]SleeperTimed`, if moreover the shooter has the highest priority
  (`ShooterFirst`), which is how the `main.c` of the program sets the priorities

The run `Intervalometer` satisfies both. `Knotted` is `Knit(TimerUses)` for this program, whose
interrupt routines also run on top of a thread that waits, in frames of their own (`Framed`).
`Stopped` then says that the shooter, when there is a stop, is ready or waits for something else than
the timer: a stop takes it out of the list, and each wait of the shooter tests for a stop first, in one
critical section with it. `SleeperTimed` needs the invariant `Tended`, since the timer runs as
long as its counter is above zero, and the counter is not the number of those who need it: a stop
before the first shot leaves a user behind. `Tally` says that the counter is the users plus these leaks,
and that the leaks stay within `MaxLeaks`, a bound of the model; `Seats`, that who waits
for the timer is one of the users. They hold because the shooter, of the highest
priority, runs whenever it can (`ShooterRuns`): when another thread comes to a statement of its own the
shooter waits at its event with no command, or at the timer, so a stop or a start never meets it
halfway between a statement that counts and the one that waits.

`ExposuresLast` is `[]ExposureLasts`, for every number of ticks of a second and of a round, table of
speeds, settings typed at any moment, and other threads below the shooter. Which processes last as they
should is the condition `Followed` of the property itself; the conversion `sec` and its width are in the
proof, where `SecFits` says that a time within half a round comes through it as it is. The
hypotheses are the two above and `Near`: the window of waits is within half a round. As `MaxDelay` and
`MaxLate` bound the waits of the model, a behaviour ends under `Near` at the first wait beyond half a
round, and the theorem says nothing of what comes after. That this leaves out no process that the tick
can follow is `FollowedWaits`: every wait that the shooter comes to in such a process is within the window,
if `MaxDelay` is `HalfRound`. What comes after a wait that the tick could not follow is only model-checked,
in the run `Intervalometer`, whose window reaches beyond half a round: it does not satisfy `Near`, and
theorem and run complete each other.

The invariant is five parts: `Knotted` and `Tended`; `Shielded`, that the shooter is in its critical section
from its first statement on, so that no tick comes between two of its waits; `Offered`, that a setting is a
number of its kind whenever the shooter may read it, half typed ones included; and `Clocked`, that in a
process followed so far the tick of the shooter is between two waits the time of the timer but for a shift's
interval (`Behind`), and that while it waits its time has not come. A tick keeps that by the lemma behind
`TicksWakeTheDue`: it wakes the shooter at its time and not before (`SystemsSleep`), nothing else but a stop
wakes it (`OthersSleep`), and, as nobody of a lower priority can take the processor (`NobodyPreempts`), the
next tick finds it waiting again.

It proves of the demo's calendar, for every date: the comparison is a total order
(`ComparisonIsTotalOrder`), a second after a date is a date (`SecondAfterDateIsDate`), later, and
nothing lies between (`SecondAfterIsNext`).

**Only model-checked:** `WaitIsOver` and `OnlyBlockedAreListed`, which fail; `ExposureNotLonger`;
`ImplementsScheduler`, whose mapping reads a ready queue as a sequence, by recursion over its links;
and `TakesTurns`, as liveness under fairness is out of the prover's
reach. No module uses a `RECURSIVE` operator.

## 5. Where the code and its documentation differ

Found while modelling, each shown by a violated run:

1. **A list of waiters can lead into a ready queue** (`thread-list.h:228-231`, run
   `EventShared`). The empty-list branch of `priorList_put` leaves `nextPr` of the
   thread as the ready queue left it. With two threads of one priority, a
   notification then sets a thread ready that was not waiting. Both programs have
   such threads: prompt and switch, clock and sender.
2. **Back pointers go out of date** (`thread-list.h:93`, `:247`, `:312-320`, run `Demo`). The
   successor of a removed thread keeps its old `prevPr` and `prevTk`, and the next
   removal through them writes in the wrong link. In the demo program the LED and the
   clock before the terminal in the list of timer 0 and a key hit before its timeout
   (`main.c:269`) are enough: the terminal runs while it is still in the list.
3. **A woken waiter passes a red semaphore** (`anyRTOS.c:452`, run `SemPass`).
4. **`queueTimer_put8` leaves the mutex of the getters** (`queue.c:207`, run `QueuePut8`), also
   while one of them is inside of it, and keeps its own for ever.

Read in the code, with no run of their own:

- Priority lists are sorted only behind their first thread (`thread-list.h:234`), so a
  notification may wake a lower priority first, and `event_notifyAll` and `mutex_exit`, which
  compare the first waiter only (`anyRTOS.c:112-114`), may fail to yield to a higher one, against
  `event.h:61-63`. `ListsSorted` states what does hold.
- **Long exposures end at the next tick.** `timer1_sec` multiplies seconds by 3900 and cuts the product to
  the 16 bits of a tick (`timers.h:59-60`). From 9 seconds on a wait is beyond half a round and compares as
  one of the past (`thread-list.h:38`), from 17 on it is also cut. So are six of the HDR speeds, 10" to 30"
  (`intervalometer.c:43-44`, against the comment at `:92`), a `_long` of such a size, and the waits that
  `_delay` and `_intv` of such sizes make. `Followed` keeps them out of `ExposureLasts`.
- In the basic mode the timed waits are inline functions that ignore the timer (`event.h:90-94`,
  `mutex.h:88-102`, `sem.h:79`), and `mutexTimer_enterCritical` (`mutex.h:98-102`) calls `mutex_enter`:
  it enters no critical section, although its callers leave one with `mutex_exitCritical`. The timed
  calls of `queue.c` would use it in that mode; the intervalometer calls none of them.
- `timer_abort` of a thread in a timed wait leaves it in the priority list (`anyRTOS.c:415`;
  `Abortable` holds plain waits only); a timed mutex entry returns false before its
  time when another thread has taken the mutex again (`:513`); late and far waits
  together beyond the half range of the tick unsort the list (`thread-list.h:38`, `MaxDelay`);
  `task_setPriority` does not reschedule.
- `serial_option` returns inside its critical section (`serial-port.c:404`).
- `timer_status` of timer 0 gives the users of timer 1 (`timers.c:254`).
- A stop before the first shot skips `timer_off` (`intervalometer.c:185`, `:195`, `:197`, `:203`).
- The interval of a shooting is a `timer_shift` (`:212`), which gives the thread its tick
  back: shots come sooner than "How long between shutter clicks" (`:86`) by the part
  before the focus, and when that part is longer than the focus the waits that follow
  are in the past, the next exposure included.
- The clock leaves out the last day of every month (`rtcc.c:202` has `<`), does not
  decrement the year (`:220-226`), gives the season where the day of week is asked for
  (`:237`) and, started again, counts a second at once (`:258-264`). The check of
  a typed day is never true (`:81`); `dateTime_checkRanges` refuses years ending in 99 (`date-time.c:47`).
- The century rule of leap years never applies (`date-time.c:87`), and no date of
  October is winter time but its last Sunday (`:145-146`).
- The demo's `dateTime_check` lets the day 0 pass (demo `date-time.c:60`); its terminal prints a
  date while the clock counts (`main.c:330-340`).

## 6. What is not modelled, and what is left

Not modelled: the machine code of the context switch (`port.h`), whose contract is
`sr` and `pc`; the inline timed waits of the basic mode, which no program built in it calls; the set-up of devices (baud rate, prescaler, clock, pins); the text that is
printed and the conversion of numbers; the `reset` command, which restarts the
device with nothing kept, and so the initial state again; `switch_setFunc`, the switch
always calling `interval_run`; `queue_get8ISR` enters no run, as no driver calls it. `Demo` tests
the last byte got where the code tests the result of the call (`gotPointer`): its sender puts a whole
pointer in one call without a timeout, so that the call returns true if any byte was got. The two
halves of the intervalometer program are checked apart, `Rtcc` with its prompt and
`Intervalometer` with its prompt; what joins them is the alarm's call of `interval_run`,
which `Intervalometer` has as a call of the switch. `Demo` is too large, and by finding 2 too
broken, for a passing run: it is the ground of that finding, and its queue, serial port,
timer driver and kernel are checked on their own.
Interrupt routines other than the signalling one and those that call `event_notify` are
taken as atomic, since the MSP430 masks interrupts in them and their kernel calls do
not unmask.

Plan, most important first:

1. *Done*: the kernel and its objects, the abstract scheduler and its refinement; the
   queues and their refinement; the drivers; both programs; the proofs of section 4.
2. Proofs from the lists of `ListProofs`, carried through `Client` as `MutexProofs` carries them
   through the mutexes: *done* for `NobodyStranded` of the queues, `SenderServed` of the serial port, `NoLostStart` and
   `NoTimerLeft` of the clock and `StopNotSleptOver`, `SleeperTimed` and `ExposureLasts` of the
   intervalometer. With them every invariant of a passing run but `ExposureNotLonger` is a theorem, `DatesValid` outside
   of the leap years that the code invents.
3. `Rtcc` and `Intervalometer` in one module, with the alarm.
4. Progress: a stop that returns and a byte that is sent, under fairness of the running
   thread and of the transmit interrupt.
