----------------------------- MODULE MCUartTask -----------------------------
(***************************************************************************)
(* uart_task alone: every string of bytes over a small alphabet, with what *)
(* it makes the task do, compared with a reading of the string as a whole. *)
(***************************************************************************)
EXTENDS UartTask

CONSTANT MaxInput   \* bound: how many bytes are typed

VARIABLES hist,    \* the bytes typed so far
          calls    \* what the task did: <<"put", colour>>, <<"arm", delay>>,
                   \* <<"toggle", new state>>

mcVars == <<vars, hist, calls>>

MCInit == Init /\ hist = <<>> /\ calls = <<>>

MCRead == /\ Len(hist) < MaxInput
          /\ \E b \in Input : Read(b) /\ hist' = Append(hist, b)
          /\ UNCHANGED calls

Does(step, call) == step /\ calls' = Append(calls, call) /\ UNCHANGED hist

(* Polls that find nothing to read are left out: they change upc only. *)
MCNext == \/ MCRead
          \/ (Wake \/ PostToggle) /\ UNCHANGED <<hist, calls>>
          \/ Does(Arm, <<"arm", timer_delay_s>>)
          \/ Does(PutColour, <<"put", cmd>>)
          \/ Does(SetDebug, <<"toggle", ~dbg_on>>)

MCSpec == MCInit /\ [][MCNext]_mcVars
-----------------------------------------------------------------------------
(* The reference reads a string from position i on: in command mode a byte *)
(* is a command; an A begins a frame of the bytes up to the next newline,  *)
(* or of six bytes.                                                        *)
FrameEnd(s, i) == LET stop == SelectInSubSeq(s, i, Len(s), LAMBDA b : b \in NewLine)
                  IN IF stop # 0 /\ stop < i + 6 THEN stop ELSE i + 5

TimeCall(s, i) == LET delay == time_parse(CString(SubSeq(s, i, i + 5)))
                  IN IF FrameEnd(s, i) > Len(s) \/ s[FrameEnd(s, i)] \in NewLine \/ delay < 0
                     THEN <<>>
                     ELSE << <<"arm", delay>> >>

CallAt(s, i, dbg) ==
  LET b == toupper(s[i])
  IN IF b = 65 THEN TimeCall(s, i + 1)
     ELSE IF b \in DOMAIN ColourOf THEN << <<"put", ColourOf[b]>> >>
     ELSE IF b = 68 THEN << <<"toggle", ~dbg>> >>
     ELSE <<>>

NextAt(s, i) == IF toupper(s[i]) = 65 THEN FrameEnd(s, i + 1) + 1 ELSE i + 1

DebugAt(s, i, dbg) == IF toupper(s[i]) = 68 THEN ~dbg ELSE dbg

Reading(s) ==
  LET read[i \in 1..Len(s) + 7] ==
        [dbg \in BOOLEAN |->
           IF i > Len(s) THEN <<>>
           ELSE CallAt(s, i, dbg) \o read[NextAt(s, i)][DebugAt(s, i, dbg)]]
  IN read

Expected(s) == Reading(s)[1][TRUE]

(* Whatever was typed before, the task does what the string as a whole     *)
(* says: no letter inside a time is taken for a command, no rest of a      *)
(* broken time stays in time_buf, no frame is one byte too long or short   *)
(* (main.c:269-316).                                                       *)
FramesRight == upc \in {"poll", "sleep"} => calls = Expected(hist)

(* What the last call of a kind said. *)
LastOf(s, kind, none) == LET i == SelectLastInSeq(s, LAMBDA call : call[1] = kind)
                         IN IF i = 0 THEN none ELSE s[i][2]

(* The timer always lights the last colour typed, after the last valid     *)
(* delay, however the two were interleaved (main.c:256-258): a time that   *)
(* is refused or abandoned changes neither.                                *)
LastSettings ==
  upc \in {"poll", "sleep"} =>
    LET expected == Expected(hist)
    IN /\ timer_color = LastOf(expected, "put", "R")
       /\ timer_delay_s = LastOf(expected, "arm", 0)
=============================================================================
