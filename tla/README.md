# Verification of the traffic light firmware

The repository holds a Zephyr firmware for a pair of traffic lights
(`LIIKENNEVALOT/src/main.c`), the time parser it contains a copy of
(`parser/TimeParser.cpp`) with unit tests, a template superloop
(`parser/RTOS_main_example/main.c`) and a vendored googletest.  This directory
models the firmware and the parser in TLA+, checks them with TLC on small
instances and proves the main results with TLAPS.

## Inventory

Colours are put into `seq_fifo` by three kinds of producer.  One dispatcher
takes them one at a time and triggers the LED task of the colour, which lights
it for a second, logs, measures and gives a semaphore the dispatcher waits for.

| Component | State | Operations | Interaction |
|---|---|---|---|
| `dispatcher_task` (318-354) | local `ch` | get and free an item, set trigger under the mutex, signal, take `release_sem` | reads `seq_fifo`; condition variable per colour |
| `red_/yellow_/green_led_task` (356-440) | trigger flags, pins `red` and `green` (yellow lights both) | wait for the trigger, log, switch on, sleep, log, switch off, measure, give | two tasks share each pin; `taskdbg_fifo`, `meas_fifo`, heap |
| `uart_task` (269-316) | `time_mode`, `time_buf`, `timer_color`, `timer_delay_s`, `dbg_on` | a byte at a time: colours, `D`, `A`+HHMMSS | `seq_fifo`, `taskdbg_fifo`, timer, heap |
| `time_parse` (20-40, TimeParser.cpp 5-34) | none | six digits to seconds or an error | called by `uart_task` |
| Buttons, timer, work items (96-119, 229-253) | timer running, system work queue | interrupts submit work; work puts a colour | `seq_fifo`, heap, reads `timer_color` |
| `debug_task` (442-499) | `seq_count`, `seq_sum_us` | wait for a message, print, free, then print and free all measurements | empties `taskdbg_fifo`, `meas_fifo` |
| Heap (`CONFIG_HEAP_MEM_POOL_SIZE=1024`) | free chunks | `k_malloc`, `k_free` | shared by all of the above; every caller drops its item silently when it is full |
| Start-up (163-225) | pins, interrupts, callbacks | configure, one driver call after another, and give up at the first whose failure is looked at | `main` ignores the results, `init_buttons` that of `gpio_add_callback`; interrupts and the work queue run already |
| `RTOS_main_example` (32-58) | `buffer`, `cnt` | store a character, hand a line to `parser` | none: a template of its own |

What is hard here: eight contexts of execution (five threads of equal
priority, a lower one, a cooperative work queue, interrupts) over shared pins, flags
and queues; hand-shakes where a lost wakeup stops everything; one heap whose
items are freed by other tasks than those that allocate them; and a debug switch that
changes who frees.  Correctness, by component:

* dispatch: one light at a time, the pins show it, every accepted colour is shown
  once and in order, nothing stalls;
* UART: bytes mean what the typed string as a whole means;
* parser: exactly the times of a day, and the same in both copies;
* work queue: an abandoned time never lights;
* debug log: no measurement is left behind while debugging is on;
* heap: nothing leaks, and exhaustion passes;
* start-up: the lights are left out, the buttons work together but for one whose own callback could
  not be added, and what is pressed meanwhile is not lost;
* the example: the parser gets the line that was typed.

`PROJECT.json` lists the hazards at their lines, with the properties that
watch them.

## Modules

```
LightService <------------- refines -------------+
   ^ refines                                     |
LightDispatch --------> LightSequence            |    one colour at a time, stage by stage
                           ^ used by             |
StartUp ------------> TrafficLights -------------+
           refines     ^   |
                       |   +---- UartTask <--- MCUartTask
                       |   |        +--------- TimeParser <--- MCTimeParser
                       |   +---- WorkQueue
                       |   +---- DebugTask <--- MCDebugTask
              MCTimer, MCAnnounce                          Superloop (apart)
```

The proofs about a module are in a module of their own: `LightDispatch_proofs`, `TimeParser_proofs`,
`MCTimeParser_proofs`, `MCUartTask_proofs`, `MCDebugTask_proofs`, `StartUp_proofs`, `Superloop_proofs`, and, about
`TrafficLights` with the reader of `MCAnnounce`, `TrafficLights_proofs`.

* **LightDispatch** is the hand-shake in full: `DispatchGet`, `DispatchLock`, `DispatchSet`,
  `DispatchSignal`, `DispatchTake` are lines 323-352 in order; the LED tasks, which differ only in
  colour and pins, are one set of actions with the colour as a parameter.
  Code that runs under a mutex is a step of its own; the two pins of yellow are
  written in two steps.  Producers are `Put`.  The initial state is the one
  `main` leaves: it runs at priority 0 without blocking, so it has returned
  before any thread of priority 5 starts.
* **LightSequence** is the same as one sequence of stages, without the hand-shake
  or the pins.  LightDispatch is shown to implement it, which licenses
  TrafficLights to use it in LightDispatch's place: the states stay few enough to
  add the other components.
* **LightService** is the user's view: accept, light, dim.  LightDispatch implements it as a component,
  and TrafficLights as a whole, where what the full heap refuses is not accepted.
* **TimeParser** has both versions of the parser as operators on strings of bytes; two
  reference operators write a time as digits.
* **UartTask** has one action per way a byte can be taken.  Steps end where
  another context could see a difference: a colour is first assigned to `timer_color` and then put;
  `D` posts its message before `dbg_on` changes; a new delay is stored before
  the timer is restarted.
* **WorkQueue** has the interrupts, the timer and the system work queue, with
  the coalescing of `k_work_submit`.
* **DebugTask** has the two queues and the task that empties them.  A measured
  duration is represented by the measurement itself and `seq_sum_us` by the
  sequence of what it adds up.
* **StartUp** has the driver calls of `init_led` and `init_buttons` as a list that
  `Succeed`, `Fail` and `FailUnseen` walk through: a failure that is looked at ends its function (`Checked`), a failure of
  `gpio_add_callback`, whose result nobody looks at (215, 218, 221), is passed over; button presses and work items come between
  them, but only once both the interrupt and the callback of the button are set up.
  `main` runs below the work queue's thread and above every task.
* **Superloop** is the template's loop.  The buffer starts with arbitrary
  bytes, as the stack does.
* **TrafficLights** joins an action of one component with the calls it makes to
  others, and adds the heap and the priorities: threads run only when the work
  queue is empty (its thread is cooperative), `debug_task` (priority 7) only when every thread
  of priority 5 sleeps or is blocked.  Threads of priority 5 interleave freely.

* The `MC` modules add a history to a component (`MCUartTask`, `MCDebugTask`, `MCAnnounce`) or bound its input
  (`MCTimer`, `MCTimeParser`).  The rest is checked as it stands.

Operators called `Mutant...` are deliberately wrong variants of the definition
that follows them; nothing uses them.  Each was put in place of that
definition once, and TLC found the property it is paired with in `PROJECT.json`
violated: they show that the properties can fail.

## Runs

| Run | What it shows | Bounds |
|---|---|---|
| `dispatch` | `OneInService`, `LampShowsTask`, `NoLostWakeup`, `NoLostHandover`; the dispatch implements `LightService` and `LightSequence` | three queued items: one in hand and three behind it, so every ordered pair of colours, equal or not, is handed over |
| `dispatch_live` | every accepted colour is shown, each stage is reached; `IInv`, the invariant of the proofs, holds | two items |
| `parser` | the two parsers agree; exactly the times of a day are accepted | all strings up to seven characters over `/ 0 2 3 4 5 6 9 :` (the neighbours of the digits and the digits where the limits lie) and the null pointer |
| `uart` | `FramesRight`, `LastSettings`: what the task did equals a reading of the whole string | eight bytes: a whole frame (`a` and six characters) and one command around it, over `a 1 G D CR NUL` |
| `system_log` | `TypeOK`, `HeapConserved`, `LogTellsState`: the log ends with the true debug state; the firmware as a whole implements `LightService` (`ShowsInOrder`) | a button, `R`, `D`; a heap of four chunks, which two messages or colours fill, so that every kind of item is refused at times |
| `system_recovers` | `MeasurementsLogged`, `RedRecovers` | red typed and pressed; seven chunks |
| `system_served` | `PressServed`; a wedged firmware stays so (`WedgeLasts`) | `D` and the green button; four chunks, so that a press is refused too, and for ever once measurements nobody prints fill them |
| `timer` | `NoStaleExpiry`, `TimerLights` | `A` and six digits, without buttons; the timer may expire at any time after it is started; four chunks |
| `log_totals` | `TotalsOfThree` | seven measurements (two totals and one over), two waiting messages |
| `start_up` | `LeavesDark`, `ButtonsTogether`; start-up implements `TrafficLights` | all three buttons; four chunks, room for two presses |
| `superloop` | `ParserGetsLines` | a buffer of four bytes, three characters, one of them the zero byte that ends a string early, three lines: a line can be followed by a shorter one and by a longer one |
| `system_wedged` | **violated**, see below | `R`, `D`; four chunks |

`parser`, `uart` and `superloop` end when the last character is typed and `start_up`
when `main` returns, so their deadlocks are not checked; all other runs
check for deadlock.

`LeavesDark`, `ButtonsTogether` and `ParserGetsLines` also say what goes wrong: red stays on after
start-up when green cannot be configured (191; `main` ignores it and the tasks
run); a button whose `gpio_add_callback` fails is dead while the others work, and start-up
reports "Buttons configured" all the same (215-223); and the example's first line is followed by whatever the
stack held, because the buffer is cleared only after its first use (44, 51).  No doc or
comment promises otherwise, so these are stated as properties and not as findings.

**The heap of the model.**  On the 32-bit target an item costs its size, a pointer
`k_malloc` keeps and a chunk header, in chunks of 8 bytes: `seq_item` and
`taskdbg_msg` two, `meas_item` three.  The pool has about 120 of them; the runs have
four or seven.  Each is one more than a multiple of three, as is the pool's
size as we computed it, so that measurements alone can fill the heap up to one
chunk.  That is the interesting residue: with it no other item fits.  The
counter ignores fragmentation, which could only make allocations fail earlier.

**Fairness.**  In `dispatch_live` each thread is weakly fair: equal priority,
nothing else at or above it that runs for long, and no thread loops without
blocking except `uart_task`, which sleeps 5 ms whenever no byte is waiting.
`TrafficLights` asks for strong fairness of the threads, because
interrupts and threads of higher priority disable them again and again; the
idle time between them is long (a light lasts 1 s, a byte at 115200 baud
arrives every 87 us at most).  For the same reason `uart_task` sleeps
again and again.  Nobody is assumed to press or type.  `MCTimer` adds
that the timer, once started, expires: the system clock does not stop.

**The violated run.**  `main.c:256` says of a typed colour "syttyy heti" (lights
at once).  With debugging off, `taskdbg_push` returns at line 147, `debug_task` waits for
ever at 447 and never reaches the loop that frees measurements, while the LED tasks allocate one
per light (377).  When the heap has no room left for a `seq_item`, each colour, typed,
pressed or timed, is dropped.  Switching debugging on again does not
help: its message cannot be allocated either.  `TypedColourLights` asks only
that a colour typed for ever, with `D` typed no more, lights; TLC ends
in a loop where `R` is typed and never lit.  `RedRecovers` shows the
contrast: without `D` the same heap recovers from any burst.  The run shows one heap and one input; the theorem
`WedgeForEver` says the same of every heap, every button and every byte.

## Proofs

`LightDispatch_proofs` proves, for every `MaxQueue`, `Spec => []IInv` and from it
`TypeOK`, `OneInService`, `LampShowsTask`, `NoLostWakeup` and `NoLostHandover`, and that
`Spec` implements `LightService!Spec`.  None of the properties is inductive: that two tasks are never in
service together depends on where the one token is.  `IInv` adds

* `OneToken`: the dispatcher has the token, or it is in the trigger of the
  dispatcher's last colour, or with that colour's task, or in the semaphore;
  all other tasks are quiet;
* `MutexHeld`: a mutex is held exactly by the code between its lock and its unlock;
* `PinsDriven`: a pin is on exactly while a task stands between writing it high
  and low.

The induction has one lemma for the producers, one for the dispatcher and one
for the LED tasks, with a step per action.  The only assumption is that
`MaxQueue` is a positive number.

From the same invariant it proves that `Spec` implements `LightSequence!Spec`: each step of the
dispatcher and of the LED tasks is a stage of the sequence or a stutter, since only the task with the
token moves past its trigger.  This is what allows the next module to be about
`LightSequence`.

`TrafficLights_proofs` proves about the whole firmware, for every `HeapSize \in Nat`, every
set of `Buttons` and every set of bytes `Input`:

* `AlwaysTyped`: the types that the other inductions need;
* `HeapNeverLeaks`: `HeapConserved` is inductive with these types.  Each step that
  allocates also puts the item, and each that frees has taken one out;
* `NoExpiryIsStale`: `uart_task` starts the timer only while the work queue is empty, and expiry stops it;
* `AlwaysTypeOK`: the whole type invariant.  It needs that `time_parse` returns an error or a second of a day, that a
  queued work item is not queued twice, and, for the bound on the heap, `HeapConserved`;
* `NoMeasurementLeft`: `MeasurementsLogged`, assuming that no byte of `Input` is a `D` (`NoToggle`).
  The strengthening is `LogInv`: debugging stays on, and between the `OFF` message and the
  measurement either the message waits in its queue or the heap is too full for it, and so
  for the measurement, which is larger.  With `D` typed the property is false in a harmless way: debugging
  switched off leaves measurements where they are, which is what `system_wedged` is about;
* `HeapComesBack`, from it and `HeapConserved`: under the same assumption an idle firmware holds nothing of the
  heap but the colours behind a light.  This is the safety half of `RedRecovers`;
* `WedgeForEver`: once no colour and no message is queued and neither finds room, no step of anyone changes that.
  `Wedged` is inductive with the types, and `WedgeLasts` with the darkness that follows for ever;
* `LogIsTrue`: `LogTellsState`.  The strengthening is `AnnounceInv`: what the log will have said once the queue is
  printed (`Tells`: the last `D` message of the queue, or if there is none what is known now) is `Target`, the
  state `dbg_on` has or is about to be given, unless the last `D` was dropped;
* `OrderKept`: `ShowsInOrder`, the refinement of `LightService` by the firmware.  A put that finds room is `Accept`,
  `SwitchOn` is `Light`, `SwitchOff` is `Dim`, everything else stutters.

`TimeParser_proofs` proves for every C string that the two parsers agree, that
what is accepted is the text of the time returned, and that every time of day
is accepted.  The only assumption is that the null pointer is no string.
`MCTimeParser_proofs` derives from it the two properties of the run `parser`, for every alphabet.

`MCUartTask_proofs` proves `TypeOK`, `FramesRight` and `LastSettings` for every alphabet `Input` and, `MaxInput` being
arbitrary, for strings of every length.  The reference `Reading(s)` is a recursive function of the position.  That there is
one (`ReadingExists`, `ReadingIs`) is an induction from the end of the string to its beginning; it is done with the
least-number principle (`LeastNumber`, `Downwards`), which follows from `NatLessThanWellFounded`, and not with an induction
theorem.  `FramesRight` speaks of one string and of the end of the steps of a byte; the invariant `UartInv` that implies it
speaks of all strings `t` that begin with what is typed, and of every moment.  Its part `Account` says that the reading of `t` is
`Done`, what the task has done and the call it stands before, followed by the reading of `t` from `Here`, the `A`
of the time being typed or else the next byte, in the debug state `Debug`.  `FrameInv` says that `time_buf` is what was typed
after that `A`, without a newline.  A character of a time then moves nothing, its end moves `Here` over the whole frame, and the string
typed is the `t` that ends here.  `LastInv`, on top of it, says that the timer's settings are the last ones in `Done`.

`MCDebugTask_proofs` proves `TotalsOfThree` for any number of lights and messages.  `MeasInv` places every measurement
put, in order: three in each total, then those of `seq_sum`, then those in `meas_fifo`.

`StartUp_proofs` proves `LeavesDark`, `ButtonsTogether` and the refinement of `TrafficLights` for every `HeapSize \in Nat` and
every set of buttons.  `StartInv` says for each place in the list of calls which pins, interrupts and callbacks
are set up and what has failed: up to the last call no failure of a button that `init_buttons` looks at, and no
`gpio_add_callback` before its turn, so that the callbacks added are always those before `pc` less the failed ones.
It also says which works and colours are queued.  The refinement needs it to know that a press
which has an effect is a `Press` of `TrafficLights`.

`Superloop_proofs` proves `ParserGetsLines` for every `Size \in Nat` and every set of characters.  `LoopInv` says that the
buffer holds the unfinished line, and behind it zeros from the first newline on.

Model-checked only, since liveness under fairness cannot be proved with the installed provers: `ServiceLive`, `SequenceLive`,
`RedRecovers`, `PressServed`, `TimerLights`.  Every invariant, action property and refinement of the passing runs is proved.

## Not modelled

* `parser/googletest`: a vendored third-party test framework.  It makes up 242 of
  the 256 files and nearly all lines of the repository, is no part of the program, and only
  the host-side unit tests use it.  Of the repository's own code everything that changes
  state is modelled.
* The unit tests of `TimeParser`.  What they assert are instances of `ParsesClockTimes`.
* Lines longer than the example's buffer: undefined behaviour, of which nothing useful can be said.
  `PROJECT.json` keeps the hazard.
* A failure of `gpio_pin_set_dt` on a pin that is configured (193-194 and in the LED tasks): the models
  assume that there is none.
* Fragmentation of the heap, printed text, measured durations, and bytes lost in the UART
  hardware (a byte lost is a byte not typed).

## Order of the work

The modules were written in this order: `LightService`, `LightDispatch`, `LightSequence`, `TimeParser`,
`UartTask`, `WorkQueue`, `DebugTask`, `TrafficLights`; then `StartUp`, `MCDebugTask`, `MCAnnounce`,
`MCTimer`, `Superloop`, and the proofs about `TrafficLights` and the refinement of
`LightSequence`; then the proofs about `MCUartTask`, `MCDebugTask`, `StartUp` and `Superloop`, of the log, of the wedge and
of `ShowsInOrder`.  What could follow is a heap with addresses, to bring fragmentation in, and, for the
liveness properties, proofs that each helpful step stays possible until it is taken.
