------------------------------ MODULE MCTimer -------------------------------
(***************************************************************************)
(* TrafficLights without buttons, and with times typed without mistakes:   *)
(* the bytes of a time are all Ones, for an A among them only ends in a    *)
(* time that is refused.                                                   *)
(***************************************************************************)
EXTENDS TrafficLights

One == 49

MCNext == \/ UartLocal /\ time_buf' \in Seq({One})
          \/ UartArm \/ UartPut \/ UartPost
          \/ Expire \/ RunWork \/ LightTasks \/ DebugTask
          \/ \E c \in Lights!Colours : Start(c)

(* A timer that was started expires: the system clock does not stop. *)
MCSpec == Init /\ [][MCNext]_vars /\ Fairness /\ WF_vars(Expire)

(* A timer once started lights its colour, however its interrupt, the      *)
(* lights and the typing of further times interleave; unless it is started *)
(* anew, or finds no room in the heap (main.c:106-119).                    *)
TimerLights ==
  armed ~> (Lights!Glows(timer_color) \/ upc = "arm" \/ heap < SeqSize)
=============================================================================
