------------------------ MODULE LightDispatch_proofs ------------------------
(***************************************************************************)
(* Proofs about LightDispatch: the inductive invariant IInv, the safety    *)
(* properties that follow from it, and the refinement of LightService.     *)
(***************************************************************************)
EXTENDS LightDispatch, SequenceTheorems, TLAPS

(* IInv holds initially. *)
LEMMA InitIInv == Init => IInv
  BY DEF Init, IInv, TypeOK, OneToken, Quiet, MutexHeld, PinsDriven, Drives,
         NoLostWakeup, Colours, PinNames, PinsOf, DispStages, Idle, InService,
         Unlit, Lit, Done

(* A producer's step preserves IInv: it only appends to seq_fifo. *)
LEMMA PutIInv == ASSUME IInv, NEW c \in Colours, Put(c)
                 PROVE  IInv'
  <1>1. TypeOK'
    BY DEF IInv, TypeOK, Put
  <1>2. QED
    BY <1>1 DEF IInv, Put, OneToken, Quiet, MutexHeld, PinsDriven, Drives,
                NoLostWakeup

(* Each step of dispatcher_task preserves IInv. *)
LEMMA DispatcherIInv == ASSUME IInv, Dispatcher
                        PROVE  IInv'
  <1> USE DEF IInv, TypeOK, Colours, DispStages
  <1>1. CASE DispatchGet
    <2>1. TypeOK'
      BY <1>1 DEF DispatchGet
    <2>2. OneToken'
      BY <1>1 DEF DispatchGet, OneToken, Quiet
    <2>3. MutexHeld'
      BY <1>1, <2>1 DEF DispatchGet, MutexHeld
    <2>4. PinsDriven' /\ NoLostWakeup'
      BY <1>1 DEF DispatchGet, PinsDriven, Drives, NoLostWakeup
    <2>5. QED
      BY <2>1, <2>2, <2>3, <2>4
  <1>2. CASE DispatchLock
    <2>1. TypeOK' /\ OneToken'
      BY <1>2 DEF DispatchLock, OneToken, Quiet
    <2>2. MutexHeld'
      BY <1>2 DEF DispatchLock, MutexHeld
    <2>3. PinsDriven' /\ NoLostWakeup'
      BY <1>2 DEF DispatchLock, PinsDriven, Drives, NoLostWakeup
    <2>4. QED
      BY <2>1, <2>2, <2>3
  <1>3. CASE DispatchSet
    <2>1. TypeOK' /\ OneToken'
      BY <1>3 DEF DispatchSet, OneToken, Quiet
    <2>2. MutexHeld'
      BY <1>3 DEF DispatchSet, MutexHeld
    <2>3. PinsDriven' /\ NoLostWakeup'
      BY <1>3 DEF DispatchSet, PinsDriven, Drives, NoLostWakeup
    <2>4. QED
      BY <2>1, <2>2, <2>3
  <1>4. CASE DispatchSignal
    <2>1. TypeOK' /\ OneToken'
      BY <1>4 DEF DispatchSignal, OneToken, Quiet, Idle, InService, Unlit, Lit, Done
    <2>2. MutexHeld'
      BY <1>4 DEF DispatchSignal, MutexHeld
    <2>3. PinsDriven'
      BY <1>4 DEF DispatchSignal, PinsDriven, Drives, Lit
    <2>4. NoLostWakeup'
      BY <1>4 DEF DispatchSignal, NoLostWakeup, OneToken, Quiet
    <2>5. QED
      BY <2>1, <2>2, <2>3, <2>4
  <1>5. CASE DispatchTake
    <2>1. TypeOK' /\ OneToken'
      BY <1>5 DEF DispatchTake, OneToken, Quiet, Idle, InService, Unlit, Lit, Done
    <2>2. MutexHeld' /\ PinsDriven' /\ NoLostWakeup'
      BY <1>5 DEF DispatchTake, MutexHeld, PinsDriven, Drives, NoLostWakeup
    <2>3. QED
      BY <2>1, <2>2
  <1>6. QED
    BY <1>1, <1>2, <1>3, <1>4, <1>5 DEF Dispatcher

(* Each step of the LED task of colour c preserves IInv.  A task in        *)
(* service is the dispatcher's last colour, so it alone drives the pins.   *)
LEMMA LedTaskIInv == ASSUME IInv, NEW c \in Colours, LedTask(c)
                     PROVE  IInv'
  <1> USE DEF IInv, TypeOK, Colours, DispStages, Idle, InService, Unlit, Lit, Done,
              Goto, Local, WritePin, dispVars
  <1>1. CASE Lock(c)
    <2>1. TypeOK' /\ OneToken'
      BY <1>1 DEF Lock, OneToken, Quiet
    <2>2. MutexHeld' /\ PinsDriven' /\ NoLostWakeup'
      BY <1>1 DEF Lock, MutexHeld, PinsDriven, Drives, NoLostWakeup
    <2>3. QED
      BY <2>1, <2>2
  <1>2. CASE Wait(c)
    <2>1. TypeOK' /\ OneToken'
      BY <1>2 DEF Wait, OneToken, Quiet
    <2>2. MutexHeld' /\ PinsDriven' /\ NoLostWakeup'
      BY <1>2 DEF Wait, MutexHeld, PinsDriven, Drives, NoLostWakeup
    <2>3. QED
      BY <2>1, <2>2
  <1>3. CASE TakeTrigger(c)
    <2>1. TypeOK' /\ OneToken'
      BY <1>3 DEF TakeTrigger, OneToken, Quiet, MutexHeld
    <2>2. MutexHeld' /\ PinsDriven' /\ NoLostWakeup'
      BY <1>3 DEF TakeTrigger, MutexHeld, PinsDriven, Drives, NoLostWakeup
    <2>3. QED
      BY <2>1, <2>2
  <1>4. CASE LogSkip(c) \/ LogCheck(c) \/ LogPut(c) \/ Sleep(c) \/ Measure(c)
    <2>1. TypeOK' /\ OneToken'
      BY <1>4 DEF LogSkip, LogCheck, LogPut, Sleep, Measure, OneToken, Quiet
    <2>2. MutexHeld' /\ NoLostWakeup'
      BY <1>4 DEF LogSkip, LogCheck, LogPut, Sleep, Measure, MutexHeld, NoLostWakeup
    <2>3. PinsDriven'
      BY <1>4 DEF LogSkip, LogCheck, LogPut, Sleep, Measure, PinsDriven, Drives
    <2>4. QED
      BY <2>1, <2>2, <2>3
  <1>5. CASE SwitchOn(c) \/ SwitchOff(c)
    <2>1. /\ led[c] \in InService /\ led'[c] \in InService
          /\ \A d \in Colours \ {c} : led'[d] = led[d]
          /\ led' \in [Colours -> Idle \cup InService]
          /\ UNCHANGED <<dispVars, mutex, trig, release_sem>>
      BY <1>5 DEF SwitchOn, SwitchOff
    <2>2. TypeOK'
      BY <1>5, <2>1 DEF SwitchOn, SwitchOff, FirstPin, PinNames
    <2>3. OneToken' /\ c = ch
      BY <2>1 DEF OneToken, Quiet
    <2>4. MutexHeld' /\ NoLostWakeup'
      BY <1>5 DEF SwitchOn, SwitchOff, MutexHeld, NoLostWakeup
    <2>5. \A d \in Colours \ {c} : led[d] \in Idle /\ led'[d] \in Idle
      BY <2>1, <2>3 DEF OneToken, Quiet
    <2>6. PinsDriven'
      BY <1>5, <2>1, <2>5 DEF SwitchOn, SwitchOff, PinsDriven, Drives, FirstPin,
                              PinNames, PinsOf
    <2>7. QED
      BY <2>2, <2>3, <2>4, <2>6
  <1>6. CASE Give(c)
    <2>1. TypeOK' /\ OneToken'
      BY <1>6 DEF Give, OneToken, Quiet
    <2>2. MutexHeld' /\ PinsDriven' /\ NoLostWakeup'
      BY <1>6 DEF Give, MutexHeld, PinsDriven, Drives, NoLostWakeup
    <2>3. QED
      BY <2>1, <2>2
  <1>7. QED
    BY <1>1, <1>2, <1>3, <1>4, <1>5, <1>6 DEF LedTask

LEMMA StepIInv == IInv /\ [Next]_vars => IInv'
  <1> SUFFICES ASSUME IInv, [Next]_vars
               PROVE  IInv'
    OBVIOUS
  <1>1. CASE UNCHANGED vars
    BY <1>1 DEF vars, IInv, TypeOK, OneToken, Quiet, MutexHeld, PinsDriven, Drives,
                NoLostWakeup
  <1>2. QED
    BY <1>1, PutIInv, DispatcherIInv, LedTaskIInv DEF Next
-----------------------------------------------------------------------------
(* The inductive invariant holds in every reachable state, whatever the    *)
(* bound on seq_fifo.                                                      *)
THEOREM Invariance == Spec => []IInv
  BY InitIInv, StepIInv, PTL DEF Spec

(* Every variable keeps its type.                                          *)
THEOREM TypeCorrect == Spec => []TypeOK
  BY Invariance, PTL DEF IInv

(* The LED tasks exclude each other: release_sem lets one colour through   *)
(* at a time.                                                              *)
THEOREM MutualExclusion == Spec => []OneInService
  <1>1. IInv => OneInService
    BY DEF IInv, OneToken, OneInService, Quiet, Idle, InService, Unlit, Lit, Done
  <1>2. QED
    BY <1>1, Invariance, PTL

(* While a task sleeps its colour is on the pins; between tasks it is dark. *)
THEOREM LampCorrect == Spec => []LampShowsTask
  <1>1. ASSUME IInv, NEW c \in Colours, led[c] \in Lit, NEW p \in PinNames
        PROVE  pins[p] = (p \in PinsOf(c))
    <2>1. \A d \in Colours \ {c} : led[d] \in Idle
      BY <1>1 DEF IInv, OneToken, Quiet, Idle, InService, Unlit, Lit, Done
    <2>2. \A d \in Colours : Drives(d, p) <=> d = c /\ p \in PinsOf(c)
      BY <1>1, <2>1 DEF Drives, Idle, Lit
    <2>3. pins[p] <=> p \in PinsOf(c)
      BY <1>1, <2>2 DEF IInv, PinsDriven
    <2>4. pins[p] \in BOOLEAN
      BY <1>1 DEF IInv, TypeOK
    <2>5. QED
      BY <2>3, <2>4
  <1>2. IInv /\ (\A c \in Colours : led[c] \in Idle) => \A p \in PinNames : ~pins[p]
    BY DEF IInv, PinsDriven, Drives, Idle, Lit
  <1>3. IInv => LampShowsTask
    BY <1>1, <1>2 DEF LampShowsTask
  <1>4. QED
    BY <1>3, Invariance, PTL

(* No LED task sleeps in k_condvar_wait through its own trigger.           *)
THEOREM WakeupSafe == Spec => []NoLostWakeup
  BY Invariance, PTL DEF IInv

(* No trigger is set twice before it is served and no k_sem_give is lost.  *)
THEOREM HandoverSafe == Spec => []NoLostHandover
  <1>1. IInv => NoLostHandover
    BY DEF IInv, TypeOK, OneToken, Quiet, NoLostHandover, DispStages, Idle, InService,
           Unlit, Lit, Done
  <1>2. QED
    BY <1>1, Invariance, PTL
-----------------------------------------------------------------------------
(* Only the dispatcher's last colour can be lit, so Shown is read there.   *)
LEMMA ShownIs == IInv => Shown = IF led[ch] \in Lit THEN ch ELSE "dark"
  <1> SUFFICES ASSUME IInv
               PROVE  Shown = IF led[ch] \in Lit THEN ch ELSE "dark"
    OBVIOUS
  <1>1. ch \in Colours /\ \A c \in Colours : led[c] \in Lit => c = ch
    BY DEF IInv, TypeOK, OneToken, Quiet, Idle, Lit
  <1>2. CASE led[ch] \in Lit
    <2>1. (CHOOSE c \in Colours : led[c] \in Lit) = ch
      BY <1>1, <1>2
    <2>2. QED
      BY <1>1, <1>2, <2>1 DEF Shown
  <1>3. CASE led[ch] \notin Lit
    BY <1>1, <1>3 DEF Shown
  <1>4. QED
    BY <1>2, <1>3

(* Pending with and without a colour in hand.                              *)
LEMMA PendingIs == IInv => /\ InHand => Pending = <<ch>> \o seq_fifo
                           /\ ~InHand => Pending = seq_fifo
  BY DEF Pending, IInv, TypeOK

(* Facts about sequences used for the abstract queue.                      *)
LEMMA Front ==
  ASSUME NEW x \in Colours, NEW s \in Seq(Colours)
  PROVE  /\ <<x>> \o s # <<>>
         /\ Head(<<x>> \o s) = x
         /\ Tail(<<x>> \o s) = s
         /\ \A c \in Colours : Append(<<x>> \o s, c) = <<x>> \o Append(s, c)
         /\ s # <<>> => s = <<Head(s)>> \o Tail(s)
  OBVIOUS

(* A producer's step is Accept.                                            *)
LEMMA PutAccepts == ASSUME IInv, IInv', NEW c \in Colours, Put(c)
                    PROVE  Service!Accept(c)
  <1>1. InHand' = InHand /\ Shown' = Shown
    BY DEF Put, InHand, Shown
  <1>2. Pending' = Append(Pending, c)
    <2>1. seq_fifo' = Append(seq_fifo, c) /\ ch' = ch /\ ch \in Colours
          /\ seq_fifo \in Seq(Colours)
      BY DEF Put, IInv, TypeOK
    <2>2. (IInv => /\ InHand => Pending = <<ch>> \o seq_fifo
                   /\ ~InHand => Pending = seq_fifo)'
      BY PendingIs, PTL
    <2>3. CASE InHand
      <3>1. Pending = <<ch>> \o seq_fifo /\ Pending' = <<ch>> \o Append(seq_fifo, c)
        BY <1>1, <2>1, <2>2, <2>3, PendingIs
      <3>2. QED
        BY <2>1, <3>1, Front
    <2>4. CASE ~InHand
      BY <1>1, <2>1, <2>2, <2>4, PendingIs
    <2>5. QED
      BY <2>3, <2>4
  <1>3. QED
    BY <1>1, <1>2 DEF Service!Accept

(* Every dispatcher step leaves the abstract state as it is: the colour    *)
(* moves from the queue to the dispatcher's hand.                          *)
LEMMA DispatcherStutters == ASSUME IInv, IInv', Dispatcher
                            PROVE  UNCHANGED <<Pending, Shown>>
  <1> USE DEF IInv, TypeOK, DispStages, Idle, Unlit, Lit
  <1>0. (IInv => /\ InHand => Pending = <<ch>> \o seq_fifo
                 /\ ~InHand => Pending = seq_fifo)'
    BY PendingIs, PTL
  <1>1. CASE DispatchGet
    <2>1. ~InHand /\ InHand' /\ Shown' = Shown
      BY <1>1 DEF DispatchGet, InHand, Shown
    <2>2. Pending' = <<Head(seq_fifo)>> \o Tail(seq_fifo) /\ Pending = seq_fifo
      BY <1>0, <1>1, <2>1, PendingIs DEF DispatchGet
    <2>3. seq_fifo # <<>> /\ Head(seq_fifo) \in Colours
      BY <1>1 DEF DispatchGet
    <2>4. QED
      BY <2>1, <2>2, <2>3, Front
  <1>2. CASE DispatchLock \/ DispatchSet
    BY <1>2 DEF DispatchLock, DispatchSet, InHand, Pending, Shown
  <1>3. CASE DispatchSignal
    <2>1. InHand /\ InHand'
      BY <1>3 DEF DispatchSignal, InHand, OneToken
    <2>2. Shown' = Shown
      <3>1. \A c \in Colours : led'[c] \in Lit <=> led[c] \in Lit
        BY <1>3 DEF DispatchSignal
      <3>2. QED
        BY <3>1 DEF Shown
    <2>3. QED
      BY <1>3, <2>1, <2>2 DEF DispatchSignal, Pending
  <1>4. CASE DispatchTake
    <2>1. ~InHand /\ ~InHand' /\ Shown' = Shown
      BY <1>4 DEF DispatchTake, InHand, Shown, OneToken, Quiet, InService, Done
    <2>2. QED
      BY <1>4, <2>1 DEF DispatchTake, Pending
  <1>5. QED
    BY <1>1, <1>2, <1>3, <1>4 DEF Dispatcher

(* A task's step lights the colour in hand, puts it out, or changes        *)
(* nothing the service shows.                                              *)
LEMMA LedTaskServes == ASSUME IInv, IInv', NEW c \in Colours, LedTask(c)
                       PROVE  \/ Service!Light
                              \/ Service!Dim
                              \/ UNCHANGED <<Pending, Shown>>
  <1> USE DEF IInv, TypeOK
  <1>0. /\ (Shown = IF led[ch] \in Lit THEN ch ELSE "dark")
        /\ (Shown = IF led[ch] \in Lit THEN ch ELSE "dark")'
        /\ (InHand => Pending = <<ch>> \o seq_fifo)
        /\ (InHand => Pending = <<ch>> \o seq_fifo)'
        /\ (~InHand => Pending = seq_fifo)
        /\ (~InHand => Pending = seq_fifo)'
    <2>1. /\ (IInv => Shown = IF led[ch] \in Lit THEN ch ELSE "dark")'
          /\ (IInv => /\ InHand => Pending = <<ch>> \o seq_fifo
                      /\ ~InHand => Pending = seq_fifo)'
      BY ShownIs, PendingIs, PTL
    <2>2. QED
      BY <2>1, ShownIs, PendingIs
  <1>1. UNCHANGED <<seq_fifo, disp, ch>>
    BY DEF LedTask, Lock, Wait, TakeTrigger, LogSkip, LogCheck, LogPut, SwitchOn, Sleep,
           SwitchOff, Measure, Give, Local, WritePin, Goto, dispVars
  <1>2. ASSUME InHand' = InHand, led'[ch] \in Lit <=> led[ch] \in Lit
        PROVE  UNCHANGED <<Pending, Shown>>
    BY <1>0, <1>1, <1>2
  <1>3. CASE Lock(c) \/ Wait(c) \/ TakeTrigger(c)
    <2>1. InHand' = InHand
      BY <1>3 DEF Lock, Wait, TakeTrigger, Goto, InHand, dispVars, OneToken, Quiet, Unlit
    <2>2. led'[ch] \in Lit <=> led[ch] \in Lit
      BY <1>3, <1>1 DEF Lock, Wait, TakeTrigger, Goto, Lit
    <2>3. QED
      BY <1>2, <2>1, <2>2
  <1>4. CASE LogSkip(c) \/ LogCheck(c) \/ LogPut(c) \/ Sleep(c) \/ Measure(c) \/ Give(c)
    <2>1. InHand' = InHand
      BY <1>4, <1>1 DEF LogSkip, LogCheck, LogPut, Sleep, Measure, Give, Local, Goto,
                        InHand, dispVars, Unlit
    <2>2. led'[ch] \in Lit <=> led[ch] \in Lit
      BY <1>4, <1>1 DEF LogSkip, LogCheck, LogPut, Sleep, Measure, Give, Local, Goto, Lit
    <2>3. QED
      BY <1>2, <2>1, <2>2
  <1>5. CASE SwitchOn(c)
    <2>1. c = ch /\ disp = "sem" /\ led[ch] \in Unlit /\ ~trig[ch] /\ trig' = trig
      BY <1>5 DEF SwitchOn, WritePin, Goto, OneToken, Quiet, DispStages, Idle, Unlit
    <2>2. InHand
      BY <2>1 DEF InHand
    <2>3. CASE led'[ch] = "on2"
      BY <1>1, <1>2, <2>1, <2>2, <2>3 DEF InHand, Unlit, Lit
    <2>4. CASE led'[ch] = "glow"
      <3>1. ~InHand' /\ Shown' = ch /\ Shown = "dark"
        BY <1>0, <1>1, <2>1, <2>4 DEF InHand, Unlit, Lit
      <3>2. Pending = <<ch>> \o seq_fifo /\ Pending' = seq_fifo
        BY <1>0, <1>1, <2>2, <3>1
      <3>3. Service!Light
        BY <3>1, <3>2, Front DEF Service!Light
      <3>4. QED
        BY <3>3
    <2>5. QED
      BY <1>5, <2>1, <2>3, <2>4 DEF SwitchOn, WritePin, Goto
  <1>6. CASE SwitchOff(c)
    <2>1. c = ch /\ disp = "sem" /\ ~trig[ch] /\ trig' = trig /\ led[ch] \notin Unlit
          /\ led'[ch] \notin Unlit /\ led'[ch] \notin Lit
      BY <1>6 DEF SwitchOff, WritePin, Goto, OneToken, Quiet, DispStages, Idle, Unlit, Lit
    <2>2. ~InHand /\ ~InHand' /\ Pending' = Pending /\ Shown' = "dark"
      BY <1>0, <1>1, <2>1 DEF InHand
    <2>3. CASE led[ch] \in Lit
      <3>1. Shown = ch /\ ch # "dark"
        BY <1>0, <2>3 DEF Colours
      <3>2. QED
        BY <2>2, <3>1 DEF Service!Dim
    <2>4. CASE led[ch] \notin Lit
      BY <1>0, <2>2, <2>4
    <2>5. QED
      BY <2>3, <2>4
  <1>7. QED
    BY <1>3, <1>4, <1>5, <1>6 DEF LedTask

(* The handshake implements the service: colours are shown exactly once,   *)
(* in the order of acceptance, with darkness in between.                   *)
THEOREM Refinement == Spec => ImplementsService
  <1>1. Init => Service!Init
    <2> SUFFICES ASSUME Init PROVE Service!Init
      OBVIOUS
    <2>1. ~InHand /\ seq_fifo = <<>> /\ \A c \in Colours : led[c] \notin Lit
      BY DEF Init, InHand, Lit
    <2>2. QED
      BY <2>1 DEF Service!Init, Pending, Shown
  <1>2. IInv /\ IInv' /\ [Next]_vars => [Service!Next]_(Service!vars)
    <2> SUFFICES ASSUME IInv, IInv', [Next]_vars
                 PROVE  [Service!Next]_(Service!vars)
      OBVIOUS
    <2>1. CASE UNCHANGED vars
      BY <2>1 DEF vars, Service!vars, Pending, InHand, Shown
    <2>2. ASSUME NEW c \in Colours, Put(c)
          PROVE  Service!Next
      BY <2>2, PutAccepts DEF Service!Next
    <2>3. CASE Dispatcher
      BY <2>3, DispatcherStutters DEF Service!vars
    <2>4. ASSUME NEW c \in Colours, LedTask(c)
          PROVE  [Service!Next]_(Service!vars)
      BY <2>4, LedTaskServes DEF Service!Next, Service!vars
    <2>5. QED
      BY <2>1, <2>2, <2>3, <2>4 DEF Next
  <1>3. QED
    BY <1>1, <1>2, Invariance, PTL DEF Spec, ImplementsService, Service!Spec
-----------------------------------------------------------------------------
(* The sequence of stages: what each step of the dispatch is in it.        *)
LEMMA StartingKept ==
  ASSUME IInv, IInv', NEW c \in Colours,
         \A d \in Colours \ {c} : led'[d] = led[d],
         led[c] \notin {"start", "start_put"}, led'[c] \notin {"start", "start_put"}
  PROVE  StartingOf' = StartingOf
  BY DEF StartingOf

LEMMA DispatcherSequence ==
  ASSUME IInv, IInv', Dispatcher
  PROVE  Sequence!Next \/ UNCHANGED Sequence!vars
  <1> USE DEF IInv, TypeOK, StageOf, Sequence!vars
  <1>1. CASE DispatchGet
    <2>1. StageOf = "get" /\ StageOf' = "trigger" /\ StartingOf' = StartingOf
      BY <1>1 DEF DispatchGet, StartingOf
    <2>2. Sequence!Get
      BY <1>1, <2>1 DEF DispatchGet, Sequence!Get
    <2>3. QED
      BY <2>2 DEF Sequence!Next, Sequence!Serve
  <1>2. CASE DispatchLock \/ DispatchSet
    BY <1>2 DEF DispatchLock, DispatchSet, StartingOf
  <1>3. CASE DispatchSignal
    <2>1. StageOf = "trigger" /\ StageOf' = "trigger"
      BY <1>3 DEF DispatchSignal, OneToken
    <2>2. StartingOf' = StartingOf
      BY <1>3 DEF DispatchSignal, StartingOf
    <2>3. QED
      BY <1>3, <2>1, <2>2 DEF DispatchSignal
  <1>4. CASE DispatchTake
    <2>1. StageOf = "release" /\ StageOf' = "get" /\ StartingOf' = StartingOf
      BY <1>4 DEF DispatchTake, StartingOf
    <2>2. Sequence!Take
      BY <1>4, <2>1 DEF DispatchTake, Sequence!Take, Sequence!Step
    <2>3. QED
      BY <2>2 DEF Sequence!Next, Sequence!Serve
  <1>5. QED
    BY <1>1, <1>2, <1>3, <1>4 DEF Dispatcher

(* The task in service is the dispatcher's, and its place is the stage.    *)
LEMMA ServiceStage ==
  ASSUME IInv, NEW c \in Colours, led[c] \in InService
  PROVE  c = ch /\ disp = "sem" /\ release_sem = 0 /\ StageOf = LedStage
  BY DEF IInv, TypeOK, OneToken, Quiet, StageOf, DispStages, Idle, InService, Unlit, Lit, Done

LEMMA LedTaskSequence ==
  ASSUME IInv, IInv', NEW c \in Colours, LedTask(c)
  PROVE  Sequence!Next \/ UNCHANGED Sequence!vars
  <1>1. UNCHANGED <<seq_fifo, disp, ch>>
    BY DEF LedTask, Lock, Wait, TakeTrigger, LogSkip, LogCheck, LogPut, SwitchOn, Sleep,
           SwitchOff, Measure, Give, Local, WritePin, Goto, dispVars
  <1>2. /\ led' = [led EXCEPT ![c] = led'[c]] /\ led \in [Colours -> Idle \cup InService]
        /\ ch \in Colours /\ \A d \in Colours \ {c} : led'[d] = led[d]
    BY DEF LedTask, Lock, Wait, TakeTrigger, LogSkip, LogCheck, LogPut, SwitchOn, Sleep,
           SwitchOff, Measure, Give, Local, WritePin, Goto, IInv, TypeOK
  <1> DEFINE Kept == /\ led[c] \notin {"start", "start_put"}
                     /\ led'[c] \notin {"start", "start_put"}
  <1>3. Kept => StartingOf' = StartingOf
    BY <1>2, StartingKept
  <1>40. ASSUME led[c] \in Idle, led'[c] \in Idle, UNCHANGED release_sem
         PROVE  StageOf' = StageOf
    <2>1. CASE c = ch
      BY <1>1, <1>40, <2>1 DEF StageOf
    <2>2. CASE c # ch
      <3>1. led'[ch] = led[ch]
        BY <1>2, <2>2
      <3>2. QED
        BY <1>1, <1>40, <3>1 DEF StageOf, LedStage
    <2>3. QED
      BY <2>1, <2>2
  <1>4. CASE Lock(c) \/ Wait(c)
    <2>1. Kept /\ led[c] \in Idle /\ led'[c] \in Idle /\ UNCHANGED release_sem
      BY <1>4, <1>2 DEF Lock, Wait, Goto, Idle
    <2>2. StageOf' = StageOf
      BY <2>1, <1>40
    <2>3. QED
      BY <1>1, <1>3, <2>1, <2>2 DEF Sequence!vars
  <1>5. CASE TakeTrigger(c)
    <2>1. Kept /\ led[c] = "test" /\ led'[c] = "on_log" /\ trig[c]
      BY <1>5, <1>2 DEF TakeTrigger, Goto
    <2>2. c = ch /\ disp = "sem" /\ release_sem = 0
      BY <2>1 DEF IInv, TypeOK, OneToken, Quiet, MutexHeld, DispStages, InService, Unlit, Lit, Done
    <2>3. StageOf = "trigger" /\ StageOf' = "on_log" /\ StartingOf[ch] = "done"
      BY <1>1, <1>5, <2>1, <2>2 DEF TakeTrigger, StageOf, LedStage, Idle, StartingOf
    <2>4. Sequence!Begin
      BY <1>1, <1>3, <2>1, <2>3 DEF Sequence!Begin, Sequence!Step
    <2>5. QED
      BY <2>4 DEF Sequence!Next, Sequence!Serve
  <1>6. CASE led[c] \in {"start", "start_put"} /\ (LogSkip(c) \/ LogCheck(c) \/ LogPut(c))
    <2>1. /\ led[c] \in Idle /\ led'[c] \in Idle /\ UNCHANGED release_sem
          /\ \/ led[c] = "start" /\ led'[c] \in {"lock", "start_put"}
             \/ led[c] = "start_put" /\ led'[c] = "lock"
      BY <1>2, <1>6 DEF LogSkip, LogCheck, LogPut, Local, Goto, Idle
    <2>2. StageOf' = StageOf
      BY <2>1, <1>40
    <2>3. StartingOf' = [StartingOf EXCEPT ![c] = StartingOf'[c]]
      BY <1>2 DEF StartingOf
    <2>4. \/ StartingOf[c] = "log" /\ StartingOf'[c] \in {"done", "put"}
          \/ StartingOf[c] = "put" /\ StartingOf'[c] = "done"
      BY <2>1 DEF StartingOf
    <2>5. Sequence!Start(c)
      BY <1>1, <2>2, <2>3, <2>4 DEF Sequence!Start, Sequence!StartSkip, Sequence!StartCheck,
         Sequence!StartPut, Sequence!StartStep
    <2>6. QED
      BY <2>5 DEF Sequence!Next, Sequence!Colours, Colours
  <1>7. CASE /\ led[c] \in InService /\ led'[c] \in InService /\ UNCHANGED release_sem
             /\ \/ LogSkip(c) \/ LogCheck(c) \/ LogPut(c) \/ SwitchOn(c) \/ Sleep(c)
                \/ SwitchOff(c) \/ Measure(c)
    <2>1. c = ch /\ StageOf = LedStage /\ StageOf' = LedStage'
      <3>1. c = ch /\ disp = "sem" /\ release_sem = 0 /\ StageOf = LedStage
        BY <1>7, ServiceStage
      <3>2. led'[c] \notin Idle
        BY <1>7 DEF InService, Idle, Unlit, Lit, Done
      <3>3. QED
        BY <1>1, <1>7, <3>1, <3>2 DEF StageOf
    <2>2. StartingOf' = StartingOf
      BY <1>3, <1>7 DEF InService, Unlit, Lit, Done
    <2>3. \/ Sequence!LogSkip \/ Sequence!LogCheck \/ Sequence!LogPut \/ Sequence!SwitchOn
          \/ Sequence!Sleep \/ Sequence!SwitchOff \/ Sequence!Measure
          \/ UNCHANGED Sequence!vars
      <3>1. CASE LogSkip(c) \/ LogCheck(c) \/ LogPut(c) \/ Sleep(c) \/ Measure(c)
        BY <1>1, <1>7, <2>1, <2>2, <3>1
           DEF LogSkip, LogCheck, LogPut, Sleep, Measure, Local, Goto, LedStage, IInv, TypeOK,
               InService, Unlit, Lit, Done, Sequence!LogSkip, Sequence!LogCheck,
               Sequence!LogPut, Sequence!Sleep, Sequence!Measure, Sequence!Step
      <3>2. CASE SwitchOn(c) \/ SwitchOff(c)
        BY <1>1, <1>2, <1>7, <2>1, <2>2, <3>2
           DEF SwitchOn, SwitchOff, WritePin, Goto, LedStage,
               Sequence!SwitchOn, Sequence!SwitchOff, Sequence!Step, Sequence!vars
      <3>3. QED
        BY <1>7, <3>1, <3>2
    <2>4. QED
      BY <2>3 DEF Sequence!Next, Sequence!Serve
  <1>8. CASE Give(c)
    <2>1. led[c] = "give" /\ led'[c] = "lock"
      BY <1>2, <1>8 DEF Give, Goto
    <2>2. c = ch /\ disp = "sem" /\ release_sem = 0 /\ StageOf = LedStage
      BY <2>1, ServiceStage DEF InService, Done
    <2>3. StageOf = "give" /\ StageOf' = "release"
      BY <1>1, <1>8, <2>1, <2>2 DEF Give, StageOf, LedStage
    <2>4. Sequence!Give
      BY <1>1, <1>3, <2>1, <2>3 DEF Sequence!Give, Sequence!Step
    <2>5. QED
      BY <2>4 DEF Sequence!Next, Sequence!Serve
  <1>9. QED
    BY <1>2, <1>4, <1>5, <1>6, <1>7, <1>8
       DEF LedTask, LogSkip, LogCheck, LogPut, SwitchOn, Sleep, SwitchOff, Measure,
           Local, WritePin, Goto, InService, Unlit, Lit, Done

(* The dispatch implements the sequence of stages that TrafficLights uses  *)
(* in its place, for every bound on the queue.                             *)
THEOREM SequenceRefinement == Spec => ImplementsSequence
  <1>1. Init => Sequence!Init
    BY DEF Init, Sequence!Init, Sequence!Colours, Colours, StageOf, StartingOf
  <1>2. IInv /\ IInv' /\ [Next]_vars => [Sequence!Next]_(Sequence!vars)
    <2> SUFFICES ASSUME IInv, IInv', [Next]_vars
                 PROVE  Sequence!Next \/ UNCHANGED Sequence!vars
      OBVIOUS
    <2>1. CASE UNCHANGED vars
      BY <2>1 DEF vars, Sequence!vars, StageOf, LedStage, StartingOf
    <2>2. ASSUME NEW c \in Colours, Put(c)
          PROVE  Sequence!Next
      <3>1. UNCHANGED <<StageOf, StartingOf>>
        BY <2>2 DEF Put, StageOf, LedStage, StartingOf
      <3>2. Sequence!Put(c)
        BY <2>2, <3>1 DEF Put, Sequence!Put
      <3>3. QED
        BY <3>2 DEF Sequence!Next, Sequence!Colours, Colours
    <2>3. QED
      BY <2>1, <2>2, DispatcherSequence, LedTaskSequence DEF Next
  <1>3. QED
    BY <1>1, <1>2, Invariance, PTL DEF Spec, ImplementsSequence, Sequence!Spec
=============================================================================
