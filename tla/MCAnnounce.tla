----------------------------- MODULE MCAnnounce ------------------------------
(***************************************************************************)
(* TrafficLights with what the reader of the log knows of the debug state. *)
(***************************************************************************)
EXTENDS TrafficLights

VARIABLES announced,   \* the state the last "DEBUG" line printed
          unheard      \* the last D could not be announced: k_malloc failed

mcVars == <<vars, announced, unheard>>

MCInit == Init /\ announced = TRUE /\ unheard = FALSE

MCNext == /\ Next
          /\ unheard' = IF UartPost THEN heap < DbgSize ELSE unheard
          /\ announced' = IF Debug!GetMessage /\ Head(taskdbg_fifo)[1] = "D"
                          THEN Head(taskdbg_fifo)[2] = "1"
                          ELSE announced

MCSpec == MCInit /\ [][MCNext]_mcVars

(* When debug_task has nothing left to print, the last line about the      *)
(* debug state tells what it is, however fast D was typed (main.c:302-311, *)
(* 475): the only exception is a last D whose message the full heap        *)
(* dropped, for dbg_on changes all the same.                               *)
LogTellsState == Idle /\ Debug!Waiting /\ ~unheard => announced = dbg_on
=============================================================================
