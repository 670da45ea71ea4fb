------------------------------ MODULE UartTask ------------------------------
(***************************************************************************)
(* uart_task of LIIKENNEVALOT/src/main.c: the framing of the bytes typed   *)
(* on the serial line into colours, debug toggles and times.               *)
(*                                                                         *)
(* The task is interrupted between two writes that others can see: before  *)
(* it (re)starts the timer, before it allocates and puts an item, and      *)
(* before it assigns dbg_on.  What a put does, and whether the allocation  *)
(* before it succeeds, is left to the modules that use this one.           *)
(***************************************************************************)
EXTENDS TimeParser, SequencesExt

CONSTANT Input   \* the bytes that may be typed

VARIABLES
  time_mode, time_buf,           \* a time is being typed; its characters
  timer_color, timer_delay_s,    \* what the timer lights, and its delay
  dbg_on,
  upc,                           \* where the task is
  cmd                            \* its local c: the colour it will put

frameVars == <<time_mode, time_buf>>
timerVars == <<timer_color, timer_delay_s>>
vars == <<time_mode, time_buf, timer_color, timer_delay_s, dbg_on, upc, cmd>>

Stages == {"poll", "sleep", "put", "arm", "toggle", "assign"}

NewLine == {10, 13}
Lower == 97..122
toupper(b) == IF b \in Lower THEN b - 32 ELSE b

ColourOf == [b \in {82, 89, 71} |-> CASE b = 82 -> "R" [] b = 89 -> "Y" [] b = 71 -> "G"]

(* The string in a buffer ends at its first zero byte. *)
CString(buf) == LET zero == SelectInSeq(buf, LAMBDA b : b = 0)
                IN IF zero = 0 THEN buf ELSE SubSeq(buf, 1, zero - 1)

Init == /\ time_mode = FALSE
        /\ time_buf = <<>>
        /\ timer_color = "R"
        /\ timer_delay_s = 0
        /\ dbg_on = TRUE
        /\ upc = "poll"
        /\ cmd = "R"                 \* not yet assigned

time_mode_reset == time_mode' = FALSE /\ time_buf' = <<>>

(* uart_poll_in has nothing: k_msleep(5). *)
Sleep == upc = "poll" /\ upc' = "sleep" /\ UNCHANGED <<frameVars, timerVars, dbg_on, cmd>>
Wake  == upc = "sleep" /\ upc' = "poll" /\ UNCHANGED <<frameVars, timerVars, dbg_on, cmd>>
-----------------------------------------------------------------------------
(* A byte b in time mode. *)
TimeEnd(b) == /\ upc = "poll" /\ time_mode
              /\ b \in NewLine
              /\ time_mode_reset
              /\ UNCHANGED <<timerVars, dbg_on, upc, cmd>>

(* One character more than the buffer has room for. *)
MutantTimeChar(b) == /\ upc = "poll" /\ time_mode
                     /\ b \notin NewLine
                     /\ Len(time_buf) <= 5
                     /\ time_buf' = Append(time_buf, b)
                     /\ UNCHANGED <<time_mode, timerVars, dbg_on, upc, cmd>>

TimeChar(b) == /\ upc = "poll" /\ time_mode
               /\ b \notin NewLine
               /\ Len(time_buf) < 5
               /\ time_buf' = Append(time_buf, b)
               /\ UNCHANGED <<time_mode, timerVars, dbg_on, upc, cmd>>

(* A time that is refused does not end the time mode. *)
MutantTimeLast(b) ==
  /\ upc = "poll" /\ time_mode
  /\ b \notin NewLine
  /\ Len(time_buf) = 5
  /\ LET secs == time_parse(CString(Append(time_buf, b)))
     IN IF secs >= 0
        THEN timer_delay_s' = secs /\ upc' = "arm" /\ time_mode_reset
        ELSE UNCHANGED <<timer_delay_s, upc, frameVars>>
  /\ UNCHANGED <<timer_color, dbg_on, cmd>>

(* The sixth character completes the time.  The reset, which no one else   *)
(* sees, follows the arming of the timer in the code.                      *)
TimeLast(b) ==
  /\ upc = "poll" /\ time_mode
  /\ b \notin NewLine
  /\ Len(time_buf) = 5
  /\ LET secs == time_parse(CString(Append(time_buf, b)))
     IN IF secs >= 0
        THEN timer_delay_s' = secs /\ upc' = "arm"
        ELSE UNCHANGED <<timer_delay_s, upc>>
  /\ time_mode_reset
  /\ UNCHANGED <<timer_color, dbg_on, cmd>>

(* k_timer_stop, then k_timer_start with timer_delay_s. *)
Arm == upc = "arm" /\ upc' = "poll" /\ UNCHANGED <<frameVars, timerVars, dbg_on, cmd>>
-----------------------------------------------------------------------------
(* A byte b in command mode. *)
StartTime(b) == /\ upc = "poll" /\ ~time_mode
                /\ toupper(b) = 65
                /\ time_buf' = <<>> /\ time_mode' = TRUE
                /\ UNCHANGED <<timerVars, dbg_on, upc, cmd>>

(* The timer keeps the colour it had. *)
MutantColour(b) == /\ upc = "poll" /\ ~time_mode
                   /\ toupper(b) \in DOMAIN ColourOf
                   /\ cmd' = ColourOf[toupper(b)]
                   /\ upc' = "put"
                   /\ UNCHANGED <<frameVars, timerVars, dbg_on>>

Colour(b) == /\ upc = "poll" /\ ~time_mode
             /\ toupper(b) \in DOMAIN ColourOf
             /\ timer_color' = ColourOf[toupper(b)]
             /\ cmd' = ColourOf[toupper(b)]
             /\ upc' = "put"
             /\ UNCHANGED <<frameVars, timer_delay_s, dbg_on>>

(* The colour goes to seq_fifo, or is dropped when k_malloc fails. *)
PutColour == upc = "put" /\ upc' = "poll" /\ UNCHANGED <<frameVars, timerVars, dbg_on, cmd>>

Toggle(b) == /\ upc = "poll" /\ ~time_mode
             /\ toupper(b) = 68
             /\ upc' = "toggle"
             /\ UNCHANGED <<frameVars, timerVars, dbg_on, cmd>>

(* The message 'D' with the new state, before dbg_on has it. *)
PostToggle == upc = "toggle" /\ upc' = "assign" /\ UNCHANGED <<frameVars, timerVars, dbg_on, cmd>>

SetDebug == /\ upc = "assign"
            /\ dbg_on' = ~dbg_on
            /\ upc' = "poll"
            /\ UNCHANGED <<frameVars, timerVars, cmd>>

(* Any other byte: as if there had been none. *)
Ignore(b) == /\ upc = "poll" /\ ~time_mode
             /\ toupper(b) \notin {65, 68} \cup DOMAIN ColourOf
             /\ upc' = "sleep"
             /\ UNCHANGED <<frameVars, timerVars, dbg_on, cmd>>

Read(b) == \/ TimeEnd(b) \/ TimeChar(b) \/ TimeLast(b)
           \/ StartTime(b) \/ Colour(b) \/ Toggle(b) \/ Ignore(b)

(* A delay is a second of a day. *)
IsDelay(n) == n \in Nat /\ n < 24 * 3600

TypeOK == /\ time_mode \in BOOLEAN
          /\ time_buf \in Seq(Input) /\ Len(time_buf) <= 5
          /\ timer_color \in {"R", "Y", "G"} /\ cmd \in {"R", "Y", "G"}
          /\ IsDelay(timer_delay_s)
          /\ dbg_on \in BOOLEAN
          /\ upc \in Stages
=============================================================================
