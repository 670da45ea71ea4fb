------------------------------- MODULE StartUp -------------------------------
(***************************************************************************)
(* main of LIIKENNEVALOT/src/main.c: init_led and init_buttons one driver  *)
(* call after another, each of which may fail, while buttons are pressed.  *)
(* main ignores what they return, and init_buttons what gpio_add_callback  *)
(* returns, so the tasks run on whatever is set up.                        *)
(*                                                                         *)
(* main has priority 0 and never blocks: before its end interrupts and the *)
(* work queue run, and no task.  init_uart and k_timer_init leave nothing  *)
(* that is seen here.  Setting a pin that is configured does not fail.     *)
(***************************************************************************)
EXTENDS Naturals, Sequences, FiniteSets

CONSTANTS NULL, Buttons, HeapSize

ASSUME HeapAssumption == HeapSize \in Nat

VARIABLES
  pc,               \* the next call of main
  failed,           \* the calls that failed, noticed or not
  lit,              \* the pins that are driven high
  irqs, callbacks,  \* the buttons whose interrupt, callback is set up
  armed, workq,     \* WorkQueue
  seq_fifo, heap

vars == <<pc, failed, lit, irqs, callbacks, armed, workq, seq_fifo, heap>>

Work == INSTANCE WorkQueue

(* What the tasks will find, and what a full system does until they start. *)
System == INSTANCE TrafficLights WITH
            Input <- {}, stage <- "get", colour <- "R",
            starting <- [c \in {"R", "Y", "G"} |-> "log"],
            time_mode <- FALSE, time_buf <- <<>>, timer_color <- "R",
            timer_delay_s <- 0, dbg_on <- TRUE, upc <- "poll", cmd <- "R",
            taskdbg_fifo <- <<>>, meas_fifo <- <<>>, dpc <- "get",
            seq_count <- 0, seq_sum <- <<>>

(* The green pin configured before the red one. *)
MutantLedCalls == << <<"ready", "leds">>, <<"output", "green">>, <<"output", "red">>,
                     <<"clear", "red">>, <<"clear", "green">> >>

LedCalls == << <<"ready", "leds">>, <<"output", "red">>, <<"output", "green">>,
               <<"clear", "red">>, <<"clear", "green">> >>

(* Each button set up at once. *)
MutantButtonCalls ==
  << <<"ready", "buttons">>,
     <<"input", "R">>, <<"irq", "R">>, <<"callback", "R">>,
     <<"input", "Y">>, <<"irq", "Y">>, <<"callback", "Y">>,
     <<"input", "G">>, <<"irq", "G">>, <<"callback", "G">> >>

ButtonCalls == << <<"ready", "buttons">>,
                  <<"input", "R">>, <<"input", "Y">>, <<"input", "G">>,
                  <<"irq", "R">>, <<"irq", "Y">>, <<"irq", "G">>,
                  <<"callback", "R">>, <<"callback", "Y">>, <<"callback", "G">> >>

Calls == LedCalls \o ButtonCalls

(* The calls whose result is looked at.  That of gpio_add_callback is not. *)
Checked == {"ready", "output", "input", "irq"}

Done == pc > Len(Calls)

Init == /\ pc = 1 /\ failed = {}
        /\ lit = {} /\ irqs = {} /\ callbacks = {}
        /\ Work!Init /\ seq_fifo = <<>> /\ heap = HeapSize

Insert(call, kind, set) == IF call[1] = kind THEN set \cup {call[2]} ELSE set

(* A call succeeds; a pin that becomes an output is driven high. *)
Succeed == /\ Work!NoWork /\ ~Done
           /\ LET call == Calls[pc]
              IN /\ lit' = IF call[1] = "clear" THEN lit \ {call[2]}
                           ELSE Insert(call, "output", lit)
                 /\ irqs' = Insert(call, "irq", irqs)
                 /\ callbacks' = Insert(call, "callback", callbacks)
           /\ pc' = pc + 1
           /\ UNCHANGED <<failed, armed, workq, seq_fifo, heap>>

(* A checked call fails: init_led or init_buttons returns there. *)
Fail == /\ Work!NoWork /\ ~Done
        /\ Calls[pc][1] \in Checked
        /\ failed' = failed \cup {Calls[pc]}
        /\ pc' = IF pc <= Len(LedCalls) THEN Len(LedCalls) + 1 ELSE Len(Calls) + 1
        /\ UNCHANGED <<lit, irqs, callbacks, armed, workq, seq_fifo, heap>>

(* gpio_add_callback fails: the button is left out and nobody notices. *)
FailUnseen == /\ Work!NoWork /\ ~Done
              /\ Calls[pc][1] = "callback"
              /\ failed' = failed \cup {Calls[pc]}
              /\ pc' = pc + 1
              /\ UNCHANGED <<lit, irqs, callbacks, armed, workq, seq_fifo, heap>>

(* A press without interrupt or callback is lost. *)
Press(c) == /\ c \in irqs \cap callbacks
            /\ Work!Press(c)
            /\ UNCHANGED <<pc, failed, lit, irqs, callbacks, seq_fifo, heap>>

(* The item is put without asking whether it could be allocated. *)
MutantRunWork == /\ Work!Run
                 /\ seq_fifo' = Append(seq_fifo, Head(workq))
                 /\ heap' = IF heap >= 2 THEN heap - 2 ELSE heap
                 /\ UNCHANGED <<pc, failed, lit, irqs, callbacks>>

RunWork == /\ Work!Run
           /\ IF heap >= System!SeqSize
              THEN /\ seq_fifo' = Append(seq_fifo, Head(workq))
                   /\ heap' = heap - System!SeqSize
              ELSE UNCHANGED <<seq_fifo, heap>>
           /\ UNCHANGED <<pc, failed, lit, irqs, callbacks>>

Next == Succeed \/ Fail \/ FailUnseen \/ RunWork \/ \E c \in Buttons : Press(c)

Spec == Init /\ [][Next]_vars
-----------------------------------------------------------------------------
(* The lights are out when main returns, as LightDispatch assumes, with    *)
(* one exception: red stays on when green cannot be configured             *)
(* (main.c:190-194).  Green is never left on.                              *)
LeavesDark ==
  Done => lit = IF <<"output", "green">> \in failed THEN {"red"} ELSE {}

(* A failure that init_buttons looks at leaves no button working, however  *)
(* far it got (main.c:206-212).  One that it ignores, of gpio_add_callback *)
(* (main.c:215, 218, 221), leaves just that button dead while the others   *)
(* work; nothing else splits them.                                         *)
GaveUp == \E call \in failed : call[1] \in {"input", "irq"} \/ call = <<"ready", "buttons">>

ButtonsTogether ==
  Done => irqs \cap callbacks =
            IF GaveUp THEN {}
            ELSE {c \in {"R", "Y", "G"} : <<"callback", c>> \notin failed}

(* What the presses of start-up leave for the tasks, however early they    *)
(* come, is a state of TrafficLights that it reaches before its tasks have *)
(* run: its initial state loses no behaviour.                              *)
ImplementsSystem == System!Init /\ [][System!Next]_(System!vars)
=============================================================================
