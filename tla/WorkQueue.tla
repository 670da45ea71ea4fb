----------------------------- MODULE WorkQueue ------------------------------
(***************************************************************************)
(* The interrupt side of LIIKENNEVALOT/src/main.c: the button interrupts,  *)
(* the timer, and the four work items they submit to the system work queue *)
(* of Zephyr.                                                              *)
(*                                                                         *)
(* The queue's thread is cooperative: once an item is queued, no           *)
(* application thread runs before the queue is empty (NoWork guards their  *)
(* steps); interrupts come at any time.                                    *)
(***************************************************************************)
EXTENDS Sequences, SequencesExt

CONSTANT Buttons   \* the colours whose button is pressed

Works == {"timer", "R", "Y", "G"}   \* timer_work, red_work, yel_work, grn_work

VARIABLES armed,   \* timer is running
          workq    \* items submitted and not yet run

vars == <<armed, workq>>

Init == armed = FALSE /\ workq = <<>>

(* k_work_submit of an item that is queued already does nothing. *)
Submit(w) == workq' = IF Contains(workq, w) THEN workq ELSE Append(workq, w)

(* btn_red_isr, btn_yel_isr, btn_grn_isr *)
Press(c) == Submit(c) /\ UNCHANGED armed

(* timer_work is not submitted. *)
MutantExpire == armed /\ armed' = FALSE /\ UNCHANGED workq

(* The timer expires (once, its period is K_NO_WAIT): timer_handler. *)
Expire == /\ armed
          /\ armed' = FALSE
          /\ Submit("timer")

(* k_timer_stop, k_timer_start.  Stopping does not unqueue timer_work. *)
Restart == armed' = TRUE /\ UNCHANGED workq

(* The queue's thread takes the next item, which may be submitted again    *)
(* from then on, and runs its function.                                    *)
Run == workq # <<>> /\ workq' = Tail(workq) /\ UNCHANGED armed

NoWork == workq = <<>>

MutantColourPut(w, timer_color) == timer_color   \* the buttons', too

(* The colour the item w puts, for the present timer_color. *)
ColourPut(w, timer_color) == IF w = "timer" THEN timer_color ELSE w

TypeOK == /\ armed \in BOOLEAN
          /\ workq \in Seq(Works)
          /\ IsInjective(workq)
=============================================================================
