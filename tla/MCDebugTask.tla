---------------------------- MODULE MCDebugTask -----------------------------
(***************************************************************************)
(* debug_task alone, with the measurements put and the totals printed so   *)
(* far.  The other tasks put measurements and messages in any order.       *)
(***************************************************************************)
EXTENDS DebugTask

CONSTANTS MaxPut,       \* bound: how many measurements are put
          MaxMessages   \* bound: how many messages wait

VARIABLES put,      \* the measurements put, numbered from 1
          totals    \* what each printed total added up

mcVars == <<vars, put, totals>>

MCInit == Init /\ put = <<>> /\ totals = <<>>

MCPost == /\ Len(taskdbg_fifo) < MaxMessages
          /\ Post("message")
          /\ UNCHANGED <<put, totals>>

MCPut == /\ Len(put) < MaxPut
         /\ PutMeasure(Len(put) + 1)
         /\ put' = Append(put, Len(put) + 1)
         /\ UNCHANGED totals

(* The line "Total (3 tasks)" is printed when seq_count has come to 3.     *)
MCAdd == /\ AddMeasure
         /\ totals' = IF seq_count' = 0
                      THEN Append(totals, Append(seq_sum, Head(meas_fifo)))
                      ELSE totals
         /\ UNCHANGED put

MCNext == \/ MCPost \/ MCPut \/ MCAdd
          \/ (GetMessage \/ FreeMessage \/ FreeMeasure \/ Drained) /\ UNCHANGED <<put, totals>>

MCSpec == MCInit /\ [][MCNext]_mcVars
-----------------------------------------------------------------------------
(* "Total (3 tasks)" (main.c:488): each total is of three lights that      *)
(* followed one another, and every light that was measured is in exactly   *)
(* one total, or in the sum or the queue still: however its measurement    *)
(* and the messages that wake debug_task interleave.                       *)
TotalsOfThree ==
  /\ \A i \in DOMAIN totals : totals[i] = SubSeq(put, 3 * i - 2, 3 * i)
  /\ seq_sum \o meas_fifo = SubSeq(put, 3 * Len(totals) + 1, Len(put))
=============================================================================
