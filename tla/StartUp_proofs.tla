--------------------------- MODULE StartUp_proofs ---------------------------
(***************************************************************************)
(* What start-up leaves behind, for every set of buttons that is pressed   *)
(* and every size of the heap.                                             *)
(***************************************************************************)
EXTENDS StartUp, SequenceTheorems, TLAPS

Colours == {"R", "Y", "G"}

(* The calls of main, numbered. *)
LEMMA CallList ==
  /\ Len(LedCalls) = 5 /\ Len(Calls) = 15
  /\ Calls[1] = <<"ready", "leds">>
  /\ Calls[2] = <<"output", "red">> /\ Calls[3] = <<"output", "green">>
  /\ Calls[4] = <<"clear", "red">>  /\ Calls[5] = <<"clear", "green">>
  /\ Calls[6] = <<"ready", "buttons">>
  /\ Calls[7] = <<"input", "R">> /\ Calls[8] = <<"input", "Y">> /\ Calls[9] = <<"input", "G">>
  /\ Calls[10] = <<"irq", "R">> /\ Calls[11] = <<"irq", "Y">> /\ Calls[12] = <<"irq", "G">>
  /\ Calls[13] = <<"callback", "R">> /\ Calls[14] = <<"callback", "Y">>
  /\ Calls[15] = <<"callback", "G">>
  BY DEF Calls, LedCalls, ButtonCalls
-----------------------------------------------------------------------------
(* Where main is tells which pins are high, ...                            *)
PinsInv ==
  /\ pc <= 2 => lit = {}
  /\ pc = 3 => lit = {"red"}
  /\ pc = 4 => lit = {"red", "green"}
  /\ pc = 5 => lit = {"green"}
  /\ pc <= 5 => failed = {}
  /\ pc > 5 => lit = IF <<"output", "green">> \in failed THEN {"red"} ELSE {}

(* ... which interrupts and callbacks are set up, ...                      *)
Heard(colours) == {c \in colours : <<"callback", c>> \notin failed}

ButtonsInv ==
  /\ pc <= 10 => irqs = {}
  /\ pc = 11 => irqs = {"R"}
  /\ pc = 12 => irqs = {"R", "Y"}
  /\ pc \in 13..15 => irqs = Colours
  /\ pc <= 13 => callbacks = {}
  /\ pc = 14 => callbacks = Heard({"R"})
  /\ pc = 15 => callbacks = Heard({"R", "Y"})
  /\ pc <= 15 => ~GaveUp
  /\ pc = 16 => irqs \cap callbacks = IF GaveUp THEN {} ELSE Heard(Colours)

(* ... which callbacks cannot have failed yet, ...                         *)
UnseenInv ==
  /\ pc <= 13 => <<"callback", "R">> \notin failed
  /\ pc <= 14 => <<"callback", "Y">> \notin failed
  /\ pc <= 15 => <<"callback", "G">> \notin failed

(* ... and what the work queue can hold.                                   *)
QueueInv == workq \in Seq(Colours) /\ heap \in Nat

StartInv == pc \in 1..16 /\ PinsInv /\ ButtonsInv /\ UnseenInv /\ QueueInv

LEMMA InitStart == Init => StartInv
  BY HeapAssumption, EmptySeq
     DEF Init, Work!Init, StartInv, PinsInv, ButtonsInv, UnseenInv, QueueInv, GaveUp

LEMMA SucceedPins ==
  ASSUME StartInv, Succeed
  PROVE  PinsInv'
  <1>1. pc \in 1..15 /\ pc' = pc + 1 /\ failed' = failed
    BY CallList DEF Succeed, StartInv, Done
  <1>2. lit' = IF Calls[pc][1] = "clear" THEN lit \ {Calls[pc][2]}
               ELSE Insert(Calls[pc], "output", lit)
    BY DEF Succeed
  <1>3. PinsInv
    BY DEF StartInv
  <1>4. CASE pc = 1
    BY <1>1, <1>2, <1>3, <1>4, CallList DEF PinsInv, Insert
  <1>5. CASE pc = 2
    BY <1>1, <1>2, <1>3, <1>5, CallList DEF PinsInv, Insert
  <1>6. CASE pc = 3
    BY <1>1, <1>2, <1>3, <1>6, CallList DEF PinsInv, Insert
  <1>7. CASE pc = 4
    BY <1>1, <1>2, <1>3, <1>7, CallList DEF PinsInv, Insert
  <1>8. CASE pc = 5
    BY <1>1, <1>2, <1>3, <1>8, CallList DEF PinsInv, Insert
  <1>9. CASE pc > 5
    <2>1. Calls[pc][1] \notin {"output", "clear"}
      BY <1>1, <1>9, CallList
    <2>2. lit' = lit
      BY <1>2, <2>1 DEF Insert
    <2>3. QED
      BY <1>1, <1>3, <1>9, <2>2 DEF PinsInv
  <1>10. QED
    BY <1>1, <1>4, <1>5, <1>6, <1>7, <1>8, <1>9

LEMMA SucceedButtons ==
  ASSUME StartInv, Succeed
  PROVE  ButtonsInv' /\ UnseenInv'
  <1>1. pc \in 1..15 /\ pc' = pc + 1 /\ failed' = failed
    BY CallList DEF Succeed, StartInv, Done
  <1>2. /\ irqs' = Insert(Calls[pc], "irq", irqs)
        /\ callbacks' = Insert(Calls[pc], "callback", callbacks)
    BY DEF Succeed
  <1>3. ButtonsInv /\ UnseenInv
    BY DEF StartInv
  <1>4. UnseenInv' /\ GaveUp' = GaveUp
    BY <1>1, <1>3 DEF UnseenInv, GaveUp
  <1>5. \A colours : Heard(colours)' = Heard(colours)
    BY <1>1 DEF Heard
  <1>6. CASE pc < 10
    <2>1. Calls[pc][1] \notin {"irq", "callback"}
      BY <1>1, <1>6, CallList
    <2>2. irqs' = irqs /\ callbacks' = callbacks
      BY <1>2, <2>1 DEF Insert
    <2>3. QED
      BY <1>1, <1>3, <1>4, <1>6, <2>2 DEF ButtonsInv
  <1>7. CASE pc = 10
    BY <1>1, <1>2, <1>3, <1>4, <1>7, CallList DEF ButtonsInv, Insert
  <1>8. CASE pc = 11
    BY <1>1, <1>2, <1>3, <1>4, <1>8, CallList DEF ButtonsInv, Insert
  <1>9. CASE pc = 12
    BY <1>1, <1>2, <1>3, <1>4, <1>9, CallList DEF ButtonsInv, Insert, Colours
  <1>10. CASE pc = 13
    BY <1>1, <1>2, <1>3, <1>4, <1>10, CallList DEF ButtonsInv, UnseenInv, Insert, Heard
  <1>11. CASE pc = 14
    BY <1>1, <1>2, <1>3, <1>4, <1>11, CallList DEF ButtonsInv, UnseenInv, Insert, Heard
  <1>12. CASE pc = 15
    BY <1>1, <1>2, <1>3, <1>4, <1>12, CallList
       DEF ButtonsInv, UnseenInv, Insert, Heard, Colours
  <1>13. QED
    BY <1>1, <1>4, <1>6, <1>7, <1>8, <1>9, <1>10, <1>11, <1>12

(* A failure that is noticed skips the rest of init_led, or of init_buttons. *)
LEMMA FailStart ==
  ASSUME StartInv, Fail
  PROVE  pc' \in 1..16 /\ PinsInv' /\ ButtonsInv' /\ UnseenInv'
  <1>1. pc \in 1..15 /\ Calls[pc][1] \in Checked
    BY CallList DEF Fail, StartInv, Done
  <1>2. /\ failed' = failed \cup {Calls[pc]} /\ UNCHANGED <<lit, irqs, callbacks>>
        /\ pc' = IF pc <= 5 THEN 6 ELSE 16
    BY CallList DEF Fail
  <1>3. PinsInv /\ ButtonsInv /\ UnseenInv
    BY DEF StartInv
  <1>4. pc \notin {4, 5, 13, 14, 15}
    BY <1>1, CallList DEF Checked
  <1>5. PinsInv'
    <2>1. CASE pc = 1
      BY <1>2, <1>3, <2>1, CallList DEF PinsInv
    <2>2. CASE pc = 2
      BY <1>2, <1>3, <2>2, CallList DEF PinsInv
    <2>3. CASE pc = 3
      BY <1>2, <1>3, <2>3, CallList DEF PinsInv
    <2>4. CASE pc > 5
      <3>1. Calls[pc] # <<"output", "green">>
        BY <1>1, <2>4, CallList
      <3>2. QED
        BY <1>1, <1>2, <1>3, <2>4, <3>1 DEF PinsInv
    <2>5. QED
      BY <1>1, <1>4, <2>1, <2>2, <2>3, <2>4
  <1>6. callbacks' = {}
    BY <1>1, <1>2, <1>3, <1>4 DEF ButtonsInv
  <1>7. CASE pc <= 5
    <2>1. Calls[pc] \in {<<"ready", "leds">>, <<"output", "red">>, <<"output", "green">>}
      <3>1. pc = 1 \/ pc = 2 \/ pc = 3
        BY <1>1, <1>4, <1>7
      <3>2. QED
        BY <3>1, CallList
    <2>2. ~GaveUp'
      BY <1>1, <1>2, <1>3, <1>7, <2>1 DEF ButtonsInv, GaveUp
    <2>3. ButtonsInv'
      BY <1>1, <1>2, <1>3, <1>6, <1>7, <2>2 DEF ButtonsInv
    <2>4. UnseenInv'
      BY <1>1, <1>2, <1>3, <1>7, <2>1 DEF UnseenInv
    <2>5. QED
      BY <1>2, <1>5, <1>7, <2>3, <2>4
  <1>8. CASE pc > 5
    <2>1. Calls[pc][1] \in {"input", "irq"} \/ Calls[pc] = <<"ready", "buttons">>
      BY <1>1, <1>4, <1>8, CallList
    <2>2. GaveUp'
      BY <1>2, <2>1 DEF GaveUp
    <2>3. pc' = 16
      BY <1>1, <1>2, <1>8
    <2>4. ButtonsInv'
      BY <1>6, <2>2, <2>3 DEF ButtonsInv
    <2>5. UnseenInv'
      BY <2>3 DEF UnseenInv
    <2>6. QED
      BY <1>5, <2>3, <2>4, <2>5
  <1>9. QED
    BY <1>1, <1>7, <1>8

(* One that is not leaves out one callback and goes on. *)
LEMMA FailUnseenStart ==
  ASSUME StartInv, FailUnseen
  PROVE  pc' \in 1..16 /\ PinsInv' /\ ButtonsInv' /\ UnseenInv'
  <1>1. pc \in 1..15 /\ Calls[pc][1] = "callback"
    BY CallList DEF FailUnseen, StartInv, Done
  <1>2. /\ failed' = failed \cup {Calls[pc]} /\ UNCHANGED <<lit, irqs, callbacks>>
        /\ pc' = pc + 1
    BY DEF FailUnseen
  <1>3. PinsInv /\ ButtonsInv /\ UnseenInv
    BY DEF StartInv
  <1>4. pc \in 13..15
    BY <1>1, CallList
  <1>5. PinsInv'
    <2>1. Calls[pc] # <<"output", "green">>
      BY <1>1
    <2>2. QED
      BY <1>2, <1>3, <1>4, <2>1 DEF PinsInv
  <1>6. ~GaveUp'
    <2>1. ~(Calls[pc][1] \in {"input", "irq"}) /\ Calls[pc] # <<"ready", "buttons">>
      BY <1>1
    <2>2. ~GaveUp
      BY <1>3, <1>4 DEF ButtonsInv
    <2>3. QED
      BY <1>2, <2>1, <2>2 DEF GaveUp
  <1>7. UnseenInv'
    BY <1>2, <1>3, <1>4, CallList DEF UnseenInv
  <1>8. ButtonsInv'
    <2>1. CASE pc = 13
      BY <1>2, <1>3, <1>6, <2>1, CallList DEF ButtonsInv, UnseenInv, Heard
    <2>2. CASE pc = 14
      BY <1>2, <1>3, <1>6, <2>2, CallList DEF ButtonsInv, UnseenInv, Heard
    <2>3. CASE pc = 15
      BY <1>2, <1>3, <1>6, <2>3, CallList DEF ButtonsInv, UnseenInv, Heard, Colours
    <2>4. QED
      BY <1>4, <2>1, <2>2, <2>3
  <1>9. QED
    BY <1>2, <1>4, <1>5, <1>7, <1>8

(* What no driver call changes. *)
LEMMA SettingsStart ==
  ASSUME StartInv, UNCHANGED <<pc, failed, lit, irqs, callbacks>>
  PROVE  pc' \in 1..16 /\ PinsInv' /\ ButtonsInv' /\ UnseenInv'
  <1>1. pc' \in 1..16 /\ PinsInv' /\ UnseenInv'
    BY DEF StartInv, PinsInv, UnseenInv
  <1>2. ButtonsInv'
    BY DEF StartInv, ButtonsInv, GaveUp, Heard
  <1>3. QED
    BY <1>1, <1>2

(* Only the three buttons ever work. *)
LEMMA PressedColours ==
  ASSUME StartInv, NEW c \in irqs \cap callbacks
  PROVE  c \in Colours
  <1>1. pc \in 1..16 /\ ButtonsInv
    BY DEF StartInv
  <1>2. \A colours \in SUBSET Colours : Heard(colours) \subseteq Colours
    BY DEF Heard
  <1>3. CASE pc <= 13
    BY <1>1, <1>3 DEF ButtonsInv
  <1>4. CASE pc = 14
    BY <1>1, <1>4 DEF ButtonsInv, Heard, Colours
  <1>5. CASE pc = 15
    BY <1>1, <1>5 DEF ButtonsInv, Heard, Colours
  <1>6. CASE pc = 16
    <2>1. irqs \cap callbacks \subseteq Heard(Colours)
      BY <1>1, <1>6 DEF ButtonsInv
    <2>2. QED
      BY <1>2, <2>1
  <1>7. QED
    BY <1>1, <1>3, <1>4, <1>5, <1>6

LEMMA NextStart ==
  ASSUME StartInv, [Next]_vars
  PROVE  StartInv'
  <1>1. CASE Succeed
    <2>1. pc' \in 1..16
      BY <1>1, CallList DEF Succeed, StartInv, Done
    <2>2. QueueInv'
      BY <1>1 DEF Succeed, StartInv, QueueInv
    <2>3. QED
      BY <1>1, <2>1, <2>2, SucceedPins, SucceedButtons DEF StartInv
  <1>2. CASE Fail
    <2>1. QueueInv'
      BY <1>2 DEF Fail, StartInv, QueueInv
    <2>2. QED
      BY <1>2, <2>1, FailStart DEF StartInv
  <1>3. CASE FailUnseen
    <2>1. QueueInv'
      BY <1>3 DEF FailUnseen, StartInv, QueueInv
    <2>2. QED
      BY <1>3, <2>1, FailUnseenStart DEF StartInv
  <1>4. CASE RunWork
    <2>1. QueueInv'
      BY <1>4, HeadTailProperties DEF RunWork, Work!Run, StartInv, QueueInv, System!SeqSize
    <2>2. UNCHANGED <<pc, failed, lit, irqs, callbacks>>
      BY <1>4 DEF RunWork
    <2>3. QED
      BY <2>1, <2>2, SettingsStart DEF StartInv
  <1>5. ASSUME NEW c \in Buttons, Press(c)
        PROVE  StartInv'
    <2>1. c \in Colours
      BY <1>5, PressedColours DEF Press
    <2>2. QueueInv'
      BY <1>5, <2>1 DEF Press, Work!Press, Work!Submit, StartInv, QueueInv
    <2>3. UNCHANGED <<pc, failed, lit, irqs, callbacks>>
      BY <1>5 DEF Press
    <2>4. QED
      BY <2>2, <2>3, SettingsStart DEF StartInv
  <1>6. CASE UNCHANGED vars
    <2>1. UNCHANGED <<pc, failed, lit, irqs, callbacks>> /\ QueueInv'
      BY <1>6 DEF vars, StartInv, QueueInv
    <2>2. QED
      BY <2>1, SettingsStart DEF StartInv
  <1>7. QED
    BY <1>1, <1>2, <1>3, <1>4, <1>5, <1>6 DEF Next

THEOREM StartUpInvariant == Spec => []StartInv
  BY InitStart, NextStart, PTL DEF Spec

(* When main returns the lights are out, unless green could not be         *)
(* configured: then red stays on, and whatever else fails, nothing else.   *)
THEOREM LightsOut == Spec => []LeavesDark
  <1>1. StartInv => LeavesDark
    BY CallList DEF StartInv, PinsInv, LeavesDark, Done
  <1>2. QED
    BY <1>1, StartUpInvariant, PTL

(* Either init_buttons noticed a failure and no button works, or all three *)
(* do but those whose own callback could not be added.                     *)
THEOREM ButtonsAgree == Spec => []ButtonsTogether
  <1>1. StartInv => ButtonsTogether
    BY CallList DEF StartInv, ButtonsInv, ButtonsTogether, Done, Colours, Heard
  <1>2. QED
    BY <1>1, StartUpInvariant, PTL
-----------------------------------------------------------------------------
(* A step of start-up is a press, the run of a work item, or nothing that  *)
(* TrafficLights sees.                                                     *)
LEMMA StartUpStep ==
  ASSUME StartInv, [Next]_vars
  PROVE  [System!Next]_(System!vars)
  <1> USE DEF System!vars, System!lightVars, System!uartVars, System!workVars, System!debugVars
  <1>1. CASE UNCHANGED <<armed, workq, seq_fifo, heap>>
    BY <1>1
  <1>2. CASE RunWork
    <2>1. workq \in Seq(Colours) /\ heap \in Nat /\ workq # <<>>
      BY <1>2 DEF StartInv, QueueInv, RunWork, Work!Run
    <2>2. Head(workq) \in Colours
      BY <2>1, HeadTailProperties
    <2>3. System!Work!ColourPut(Head(workq), "R") = Head(workq)
      BY <2>2 DEF System!Work!ColourPut, Colours
    <2>4. System!Work!Run
      BY <1>2 DEF RunWork, Work!Run, System!Work!Run
    <2>5. System!PutColour(Head(workq))
      <3>1. CASE heap >= System!SeqSize
        BY <1>2, <3>1 DEF RunWork, System!PutColour, System!Allocate, System!Lights!Put
      <3>2. CASE ~(heap >= System!SeqSize)
        <4>1. heap < System!SeqSize
          BY <2>1, <3>2 DEF System!SeqSize
        <4>2. UNCHANGED <<seq_fifo, heap>>
          BY <1>2, <3>2 DEF RunWork
        <4>3. QED
          BY <4>1, <4>2 DEF System!PutColour, System!Allocate
      <3>3. QED
        BY <3>1, <3>2
    <2>6. System!RunWork
      BY <2>3, <2>4, <2>5 DEF System!RunWork
    <2>7. QED
      BY <2>6 DEF System!Next
  <1>3. ASSUME NEW c \in Buttons, Press(c)
        PROVE  System!Next
    <2>1. System!Work!Press(c)
      BY <1>3 DEF Press, Work!Press, Work!Submit, Work!Contains,
                  System!Work!Press, System!Work!Submit, System!Work!Contains
    <2>2. System!Press(c)
      BY <1>3, <2>1 DEF Press, System!Press
    <2>3. QED
      BY <2>2 DEF System!Next
  <1>4. QED
    BY <1>1, <1>2, <1>3 DEF Next, Succeed, Fail, FailUnseen, vars

(* Whatever is pressed during start-up, and whichever calls fail, the      *)
(* tasks start in a state that TrafficLights reaches from its initial one. *)
THEOREM StartsSystem == Spec => ImplementsSystem
  <1>1. Init => System!Init
    BY DEF Init, Work!Init, System!Init, System!Lights!Init, System!Uart!Init,
           System!Work!Init, System!Debug!Init, System!Lights!Colours
  <1>2. StartInv /\ [Next]_vars => [System!Next]_(System!vars)
    BY StartUpStep
  <1>3. QED
    BY <1>1, <1>2, StartUpInvariant, PTL DEF Spec, ImplementsSystem
=============================================================================
