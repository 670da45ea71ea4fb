---------------------------- MODULE TrafficLights ---------------------------
(***************************************************************************)
(* The firmware of LIIKENNEVALOT/src/main.c as a whole: uart_task, the     *)
(* dispatcher and LED tasks (as the LightSequence that LightDispatch       *)
(* implements), the interrupts and work items, debug_task, the heap their  *)
(* messages share, and the priorities they run at on the one processor.    *)
(* Every action is an action of one component, joined with the calls it    *)
(* makes to the others.                                                    *)
(*                                                                         *)
(* The heap is counted in chunks of 8 bytes and never fragments.           *)
(* A k_malloc and the put of its item are one step, and so are the         *)
(* dispatcher's get and its k_free.                                        *)
(***************************************************************************)
EXTENDS Naturals, Sequences, SequencesExt

CONSTANTS NULL, Input, Buttons, HeapSize

ASSUME HeapAssumption == HeapSize \in Nat
ASSUME ButtonsAssumption == Buttons \subseteq {"R", "Y", "G"}

SeqSize  == 2   \* chunks of a seq_item
DbgSize  == 2   \* chunks of a taskdbg_msg
MeasSize == 3   \* chunks of a meas_item

VARIABLES
  seq_fifo, stage, colour, starting,                                 \* Lights
  time_mode, time_buf, timer_color, timer_delay_s, dbg_on, upc, cmd, \* Uart
  armed, workq,                                                      \* Work
  taskdbg_fifo, meas_fifo, dpc, seq_count, seq_sum,                  \* Debug
  heap                                                               \* free chunks

Lights == INSTANCE LightSequence
Uart   == INSTANCE UartTask
Work   == INSTANCE WorkQueue
Debug  == INSTANCE DebugTask

lightVars == <<seq_fifo, stage, colour, starting>>
uartVars  == <<time_mode, time_buf, timer_color, timer_delay_s, dbg_on, upc, cmd>>
workVars  == <<armed, workq>>
debugVars == <<taskdbg_fifo, meas_fifo, dpc, seq_count, seq_sum>>
vars == <<lightVars, uartVars, workVars, debugVars, heap>>

Init == /\ Lights!Init /\ colour = "R"
        /\ Uart!Init /\ Work!Init /\ Debug!Init
        /\ heap = HeapSize

(* An item one chunk larger than the room there is. *)
MutantAllocate(size, put, no_put) == \/ heap + 1 >= size /\ heap' = heap - size /\ put
                                     \/ heap + 1 < size /\ UNCHANGED heap /\ no_put

(* k_malloc, and what is done with the item; nothing is when it fails. *)
Allocate(size, put, no_put) == \/ heap >= size /\ heap' = heap - size /\ put
                               \/ heap < size /\ UNCHANGED heap /\ no_put

Free(size) == heap' = heap + size

PutColour(c) == Allocate(SeqSize, Lights!Put(c), UNCHANGED lightVars)

Post(m) == Allocate(DbgSize, Debug!Post(m), UNCHANGED debugVars)
-----------------------------------------------------------------------------
(* Priorities.  Interrupts run at any time; the work queue's thread before *)
(* the threads of priority 5, which share the processor; debug_task, of    *)
(* priority 7, when all of those sleep or are blocked.                     *)
Idle == Work!NoWork /\ upc = "sleep" /\ Lights!Blocked
-----------------------------------------------------------------------------
(* Interrupts and the work queue. *)
Press(c) == Work!Press(c) /\ UNCHANGED <<lightVars, uartVars, debugVars, heap>>

Expire == Work!Expire /\ UNCHANGED <<lightVars, uartVars, debugVars, heap>>

RunWork == /\ Work!Run
           /\ PutColour(Work!ColourPut(Head(workq), timer_color))
           /\ UNCHANGED <<uartVars, debugVars>>

(* uart_task *)
UartLocal == /\ Work!NoWork
             /\ Uart!Sleep \/ Uart!Wake \/ Uart!SetDebug \/ \E b \in Input : Uart!Read(b)
             /\ UNCHANGED <<lightVars, workVars, debugVars, heap>>

(* uart_task runs before a queued work item. *)
MutantUartArm == /\ Uart!Arm /\ Work!Restart
                 /\ UNCHANGED <<lightVars, debugVars, heap>>

UartArm == /\ Work!NoWork
           /\ Uart!Arm /\ Work!Restart
           /\ UNCHANGED <<lightVars, debugVars, heap>>

UartPut == /\ Work!NoWork
           /\ Uart!PutColour /\ PutColour(cmd)
           /\ UNCHANGED <<workVars, debugVars>>

(* What the message about a toggle says; in the mutant, of the old state. *)
MutantToggled == IF dbg_on THEN "1" ELSE "0"
Toggled == IF dbg_on THEN "0" ELSE "1"

UartPost == /\ Work!NoWork
            /\ Uart!PostToggle /\ Post(<<"D", Toggled>>)
            /\ UNCHANGED <<lightVars, workVars>>

UartTask == UartLocal \/ UartArm \/ UartPut \/ UartPost

(* dispatcher_task and the LED tasks; the dispatcher frees what it gets.   *)
LogItem == <<IF stage = "on_put" THEN "1" ELSE "0", colour>>

LightTasks ==
  /\ Work!NoWork
  /\ \/ Lights!Get /\ Free(SeqSize) /\ UNCHANGED debugVars
     \/ /\ \/ ~dbg_on /\ Lights!LogSkip
           \/ dbg_on /\ Lights!LogCheck
           \/ Lights!Begin \/ Lights!SwitchOn \/ Lights!Sleep \/ Lights!SwitchOff
           \/ Lights!Give \/ Lights!Take
        /\ UNCHANGED <<debugVars, heap>>
     \/ Lights!LogPut /\ Post(LogItem)
     \/ Lights!Measure /\ Allocate(MeasSize, Debug!PutMeasure(colour), UNCHANGED debugVars)
  /\ UNCHANGED <<uartVars, workVars>>

Start(c) == /\ Work!NoWork
            /\ \/ ~dbg_on /\ Lights!StartSkip(c) /\ UNCHANGED <<debugVars, heap>>
               \/ dbg_on /\ Lights!StartCheck(c) /\ UNCHANGED <<debugVars, heap>>
               \/ Lights!StartPut(c) /\ Post(<<"S", c>>)
            /\ UNCHANGED <<uartVars, workVars>>

(* debug_task keeps the measurements; or the messages. *)
MutantDebugTask == /\ Idle
                   /\ \/ /\ \/ Debug!GetMessage \/ Debug!AddMeasure
                            \/ Debug!FreeMeasure \/ Debug!Drained
                         /\ UNCHANGED heap
                      \/ Debug!FreeMessage /\ Free(DbgSize)
                   /\ UNCHANGED <<lightVars, uartVars, workVars>>

MutantDebugTaskMessages ==
  /\ Idle
  /\ \/ /\ \/ Debug!GetMessage \/ Debug!FreeMessage
           \/ Debug!AddMeasure \/ Debug!Drained
        /\ UNCHANGED heap
     \/ Debug!FreeMeasure /\ Free(MeasSize)
  /\ UNCHANGED <<lightVars, uartVars, workVars>>

(* debug_task; it frees what it prints. *)
DebugTask == /\ Idle
             /\ \/ (Debug!GetMessage \/ Debug!AddMeasure \/ Debug!Drained) /\ UNCHANGED heap
                \/ Debug!FreeMessage /\ Free(DbgSize)
                \/ Debug!FreeMeasure /\ Free(MeasSize)
             /\ UNCHANGED <<lightVars, uartVars, workVars>>

Next == \/ \E c \in Buttons : Press(c)
        \/ Expire \/ RunWork \/ UartTask \/ LightTasks \/ DebugTask
        \/ \E c \in Lights!Colours : Start(c)

Spec == Init /\ [][Next]_vars

(* Each thread runs again and again although interrupts and threads of     *)
(* higher priority stop it: the presses of a button, the bytes of the      *)
(* serial line and the 5 ms sleeps of uart_task leave the processor idle   *)
(* most of the time.  Nobody need press or type.                           *)
Fairness == /\ WF_vars(RunWork)
            /\ SF_vars(UartTask)
            /\ SF_vars(UartTask /\ Uart!Sleep)
            /\ SF_vars(LightTasks)
            /\ SF_vars(DebugTask)
            /\ \A c \in Lights!Colours : SF_vars(Start(c))

FairSpec == Spec /\ Fairness
-----------------------------------------------------------------------------
TypeOK == /\ Lights!TypeOK /\ Uart!TypeOK /\ Work!TypeOK /\ Debug!TypeOK
          /\ heap \in 0..HeapSize

(* No item leaks and none is freed twice: the heap holds the items of the  *)
(* three queues, the one debug_task has in hand, and nothing else.         *)
HeapConserved ==
  heap + SeqSize * Len(seq_fifo) + DbgSize * Len(taskdbg_fifo) + MeasSize * Len(meas_fifo)
       + (IF dpc = "print" THEN DbgSize ELSE 0)
       + (IF dpc = "added" THEN MeasSize ELSE 0) = HeapSize

(* A pending expiry is always one of the present setting: no setting made  *)
(* by uart_task leaves timer_work of the timer it replaced in the queue,   *)
(* although k_timer_stop does not take it out (main.c:285).                *)
NoStaleExpiry == armed => ~Contains(workq, "timer")

(* As long as debugging is never switched off, no measurement is left      *)
(* behind when debug_task waits for a message, though the LED tasks put    *)
(* theirs after the message that wakes it (main.c:370,378).                *)
MeasurementsLogged == Idle /\ Debug!Waiting => meas_fifo = <<>>

(* What the firmware as a whole promises, whoever asks and whatever the    *)
(* heap refuses: every colour that found room is shown once, in the order  *)
(* of the puts, and the lights go out in between (main.c:323-355).         *)
Accepted == IF stage \in {"trigger", "on_log", "on_put", "on"}
            THEN <<colour>> \o seq_fifo ELSE seq_fifo
Shown    == IF stage \in Lights!Lit THEN colour ELSE "dark"

Service == INSTANCE LightService WITH
             Colours <- Lights!Colours, Dark <- "dark", queue <- Accepted, shown <- Shown

ShowsInOrder == Service!Spec

(* Nothing frees the heap but what a message or a colour in a queue sets   *)
(* going.  Once there is neither, and no room for one, it stays so: no     *)
(* button, no timer, no byte, not even the D that switches debugging on    *)
(* again, changes that any more (main.c:147, 299, 305, 377, 447).          *)
Wedged == /\ seq_fifo = <<>> /\ stage = "get"
          /\ Debug!Waiting
          /\ heap < SeqSize /\ heap < DbgSize

WedgeLasts == [][Wedged => Wedged']_vars

(* A full heap drops commands, but passes: while red is asked for again    *)
(* and again, by its button or on the serial line, red is lit again and    *)
(* again.                                                                  *)
RedAskedFor == Contains(workq, "R") \/ (upc = "put" /\ cmd = "R")
RedRecovers == []<>RedAskedFor => []<>Lights!Glows("R")

(* "R/Y/G: syttyy heti" (main.c:256): a colour that is typed lights at     *)
(* once; here, only that it lights at all if it is typed again and again   *)
(* and D no more.                                                          *)
TypedColourLights == []<>(upc = "put" /\ cmd = "R") /\ <>[](upc # "toggle")
                       => []<>Lights!Glows("R")

(* Every press is served: the colour of the button lights, unless the heap *)
(* had no room at some time in between (main.c:231-253).                   *)
PressServed ==
  \A c \in Buttons : Contains(workq, c) ~> (Lights!Glows(c) \/ heap < SeqSize)
=============================================================================
