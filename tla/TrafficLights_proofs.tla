------------------------ MODULE TrafficLights_proofs ------------------------
(***************************************************************************)
(* Proofs about the whole firmware, for every heap, every set of buttons   *)
(* and every set of bytes that may be typed.                               *)
(***************************************************************************)
EXTENDS MCAnnounce, SequenceTheorems, TLAPS

(* What the proofs need to know of the variables. *)
Typed == /\ Lights!TypeOK
         /\ Debug!TypeOK
         /\ timer_color \in Lights!Colours /\ cmd \in Lights!Colours
         /\ upc \in Uart!Stages /\ dbg_on \in BOOLEAN
         /\ workq \in Seq(Work!Works)
         /\ heap \in Nat

LEMMA InitTyped == Init => Typed
  <1> SUFFICES ASSUME Init PROVE Typed
    OBVIOUS
  <1>1. Lights!TypeOK
    BY DEF Init, Lights!Init, Lights!TypeOK, Lights!Colours, Lights!Stages
  <1>2. Debug!TypeOK
    BY DEF Init, Debug!Init, Debug!TypeOK
  <1>3. /\ timer_color \in Lights!Colours /\ cmd \in Lights!Colours
        /\ upc \in Uart!Stages /\ dbg_on \in BOOLEAN
    BY DEF Init, Uart!Init, Uart!Stages, Lights!Colours
  <1>4. workq \in Seq(Work!Works)
    BY DEF Init, Work!Init
  <1>5. QED
    BY <1>1, <1>2, <1>3, <1>4, HeapAssumption DEF Init, Typed

(* The bytes of uart_task: queues, work items and heap stay as they are. *)
LEMMA UartLocalTyped ==
  ASSUME Typed, UartLocal
  PROVE  Typed'
  <1>1. UNCHANGED <<lightVars, workVars, debugVars, heap>>
    BY DEF UartLocal
  <1>2. /\ timer_color' \in Lights!Colours /\ cmd' \in Lights!Colours
        /\ upc' \in Uart!Stages /\ dbg_on' \in BOOLEAN
    <2>1. CASE Uart!Sleep \/ Uart!Wake \/ Uart!SetDebug
      BY <2>1 DEF Typed, Uart!Sleep, Uart!Wake, Uart!SetDebug, Uart!Stages, Uart!timerVars
    <2>2. ASSUME NEW b \in Input, Uart!Read(b)
          PROVE  /\ timer_color' \in Lights!Colours /\ cmd' \in Lights!Colours
                 /\ upc' \in Uart!Stages /\ dbg_on' \in BOOLEAN
      BY <2>2 DEF Typed, Uart!Read, Uart!TimeEnd, Uart!TimeChar, Uart!TimeLast,
           Uart!StartTime, Uart!Colour, Uart!Toggle, Uart!Ignore, Uart!Stages,
           Uart!timerVars, Uart!ColourOf, Lights!Colours
    <2>3. QED
      BY <2>1, <2>2 DEF UartLocal
  <1>3. QED
    BY <1>1, <1>2 DEF Typed, lightVars, workVars, debugVars, Lights!TypeOK, Debug!TypeOK

(* Every put into seq_fifo is of a colour, every message is well formed,   *)
(* and no more is allocated than the heap has.                             *)
LEMMA PutColourTyped ==
  ASSUME Typed, NEW c \in Lights!Colours, PutColour(c)
  PROVE  Lights!TypeOK' /\ heap' \in Nat
  <1>1. CASE heap >= SeqSize /\ heap' = heap - SeqSize /\ Lights!Put(c)
    <2>1. heap' \in Nat
      BY <1>1 DEF SeqSize, Typed
    <2>2. seq_fifo' \in Seq(Lights!Colours)
      BY <1>1, AppendProperties DEF Lights!Put, Typed, Lights!TypeOK
    <2>3. QED
      BY <1>1, <2>1, <2>2 DEF Lights!Put, Typed, Lights!TypeOK
  <1>2. CASE UNCHANGED <<heap, lightVars>>
    BY <1>2 DEF lightVars, Typed, Lights!TypeOK
  <1>3. QED
    BY <1>1, <1>2 DEF PutColour, Allocate

LEMMA PostTyped ==
  ASSUME Typed, NEW m \in Debug!Messages, Post(m)
  PROVE  Debug!TypeOK' /\ heap' \in Nat
  <1>1. CASE heap >= DbgSize /\ heap' = heap - DbgSize /\ Debug!Post(m)
    <2>1. heap' \in Nat
      BY <1>1 DEF DbgSize, Typed
    <2>2. taskdbg_fifo' \in Seq(Debug!Messages)
      BY <1>1 DEF Debug!Post, Typed, Debug!TypeOK
    <2>3. QED
      BY <1>1, <2>1, <2>2 DEF Debug!Post, Typed, Debug!TypeOK
  <1>2. CASE UNCHANGED <<heap, debugVars>>
    BY <1>2 DEF debugVars, Typed, Debug!TypeOK
  <1>3. QED
    BY <1>1, <1>2 DEF Post, Allocate

LEMMA LightTasksTyped ==
  ASSUME Typed, LightTasks
  PROVE  Lights!TypeOK' /\ Debug!TypeOK' /\ heap' \in Nat
  <1> USE DEF Typed
  <1>1. CASE Lights!Get /\ Free(SeqSize) /\ UNCHANGED debugVars
    <2>1. Lights!TypeOK'
      BY <1>1 DEF Lights!Get, Lights!TypeOK, Lights!Stages
    <2>2. QED
      BY <1>1, <2>1 DEF Free, SeqSize, debugVars, Debug!TypeOK
  <1>2. ASSUME UNCHANGED <<debugVars, heap>>,
               \/ Lights!LogSkip \/ Lights!LogCheck \/ Lights!Begin \/ Lights!SwitchOn
               \/ Lights!Sleep \/ Lights!SwitchOff \/ Lights!Give \/ Lights!Take
        PROVE  Lights!TypeOK' /\ Debug!TypeOK' /\ heap' \in Nat
    <2>1. Lights!TypeOK'
      BY <1>2 DEF Lights!LogSkip, Lights!LogCheck, Lights!Begin, Lights!SwitchOn,
         Lights!Sleep, Lights!SwitchOff, Lights!Give, Lights!Take, Lights!Step,
         Lights!TypeOK, Lights!Stages
    <2>2. QED
      BY <1>2, <2>1 DEF debugVars, Debug!TypeOK
  <1>3. CASE Lights!LogPut /\ Post(LogItem)
    <2>1. LogItem \in Debug!Messages
      BY DEF LogItem, Debug!Messages, Lights!TypeOK, Lights!Colours
    <2>2. Lights!TypeOK'
      BY <1>3 DEF Lights!LogPut, Lights!Step, Lights!TypeOK, Lights!Stages
    <2>3. QED
      BY <1>3, <2>1, <2>2, PostTyped
  <1>4. CASE Lights!Measure /\ Allocate(MeasSize, Debug!PutMeasure(colour), UNCHANGED debugVars)
    <2>1. Lights!TypeOK'
      BY <1>4 DEF Lights!Measure, Lights!Step, Lights!TypeOK, Lights!Stages
    <2>2. CASE heap >= MeasSize /\ heap' = heap - MeasSize /\ Debug!PutMeasure(colour)
      <3>1. heap' \in Nat
        BY <2>2 DEF MeasSize
      <3>2. meas_fifo' \in Seq({"R", "Y", "G"})
        BY <2>2 DEF Debug!PutMeasure, Debug!TypeOK, Lights!TypeOK, Lights!Colours
      <3>3. QED
        BY <2>1, <2>2, <3>1, <3>2 DEF Debug!PutMeasure, Debug!TypeOK
    <2>3. CASE UNCHANGED <<heap, debugVars>>
      BY <2>1, <2>3 DEF debugVars, Debug!TypeOK
    <2>4. QED
      BY <1>4, <2>2, <2>3 DEF Allocate
  <1>5. QED
    BY <1>1, <1>2, <1>3, <1>4 DEF LightTasks

LEMMA StartTyped ==
  ASSUME Typed, NEW c \in Lights!Colours, Start(c)
  PROVE  Lights!TypeOK' /\ Debug!TypeOK' /\ heap' \in Nat
  <1>1. Lights!TypeOK'
    BY DEF Start, Typed, Lights!StartSkip, Lights!StartCheck, Lights!StartPut,
           Lights!StartStep, Lights!TypeOK
  <1>2. Debug!TypeOK' /\ heap' \in Nat
    <2>1. CASE UNCHANGED <<debugVars, heap>>
      BY <2>1 DEF Typed, debugVars, Debug!TypeOK
    <2>2. CASE Post(<<"S", c>>)
      <3>1. <<"S", c>> \in Debug!Messages
        BY DEF Debug!Messages, Lights!Colours
      <3>2. QED
        BY <2>2, <3>1, PostTyped
    <2>3. QED
      BY <2>1, <2>2 DEF Start
  <1>3. QED
    BY <1>1, <1>2

LEMMA DebugTaskTyped ==
  ASSUME Typed, DebugTask
  PROVE  Debug!TypeOK' /\ heap' \in Nat
  <1>1. CASE (Debug!GetMessage \/ Debug!Drained) /\ UNCHANGED heap
    <2>1. taskdbg_fifo' \in Seq(Debug!Messages)
      BY <1>1, HeadTailProperties DEF Typed, Debug!TypeOK, Debug!GetMessage, Debug!Drained
    <2>2. QED
      BY <1>1, <2>1 DEF Typed, Debug!TypeOK, Debug!GetMessage, Debug!Drained
  <1>2. CASE Debug!AddMeasure /\ UNCHANGED heap
    <2>1. meas_fifo' \in Seq({"R", "Y", "G"}) /\ Head(meas_fifo) \in {"R", "Y", "G"}
      BY <1>2, HeadTailProperties DEF Debug!AddMeasure, Typed, Debug!TypeOK
    <2>2. /\ seq_sum' \in Seq({"R", "Y", "G"})
          /\ Len(seq_sum') = seq_count' /\ seq_count' \in 0..2
      <3>1. CASE seq_count + 1 = 3
        BY <1>2, <3>1 DEF Debug!AddMeasure
      <3>2. CASE seq_count + 1 # 3
        <4>1. seq_count' = seq_count + 1 /\ seq_sum' = Append(seq_sum, Head(meas_fifo))
          BY <1>2, <3>2 DEF Debug!AddMeasure
        <4>2. seq_count \in 0..2 /\ seq_sum \in Seq({"R", "Y", "G"}) /\ Len(seq_sum) = seq_count
          BY DEF Typed, Debug!TypeOK
        <4>3. seq_count' \in 0..2
          BY <3>2, <4>1, <4>2
        <4>4. seq_sum' \in Seq({"R", "Y", "G"}) /\ Len(seq_sum') = Len(seq_sum) + 1
          BY <2>1, <4>1, <4>2
        <4>5. QED
          BY <4>1, <4>2, <4>3, <4>4
      <3>3. QED
        BY <3>1, <3>2
    <2>3. QED
      BY <1>2, <2>1, <2>2 DEF Debug!AddMeasure, Typed, Debug!TypeOK
  <1>3. CASE (Debug!FreeMessage \/ Debug!FreeMeasure) /\ (Free(DbgSize) \/ Free(MeasSize))
    <2>1. heap' \in Nat
      BY <1>3 DEF Free, DbgSize, MeasSize, Typed
    <2>2. QED
      BY <1>3, <2>1 DEF Debug!FreeMessage, Debug!FreeMeasure, Typed, Debug!TypeOK
  <1>4. QED
    BY <1>1, <1>2, <1>3 DEF DebugTask

(* The work queue holds work items, and a work item puts a colour.         *)
LEMMA SubmitTyped ==
  ASSUME Typed, NEW w \in Work!Works, Work!Submit(w)
  PROVE  workq' \in Seq(Work!Works)
  BY DEF Typed, Work!Submit

LEMMA RunTyped ==
  ASSUME Typed, Work!Run
  PROVE  /\ workq' \in Seq(Work!Works)
         /\ Work!ColourPut(Head(workq), timer_color) \in Lights!Colours
  <1>1. Head(workq) \in Work!Works /\ Tail(workq) \in Seq(Work!Works)
    BY HeadTailProperties DEF Typed, Work!Run
  <1>2. QED
    BY <1>1 DEF Typed, Work!Run, Work!ColourPut, Work!Works, Lights!Colours

LEMMA NextTyped == ASSUME Typed, [Next]_vars
                   PROVE  Typed'
  <1> USE DEF Typed
  <1>1. CASE UNCHANGED <<lightVars, uartVars, debugVars, heap>> /\ workq' \in Seq(Work!Works)
    BY <1>1 DEF lightVars, uartVars, debugVars, Lights!TypeOK, Debug!TypeOK
  <1>2. CASE \E c \in Buttons : Press(c)
    <2>1. PICK c \in Buttons : Press(c)
      BY <1>2
    <2>2. c \in Work!Works
      BY ButtonsAssumption DEF Work!Works
    <2>3. QED
      BY <1>1, <2>1, <2>2, SubmitTyped DEF Press, Work!Press
  <1>3. CASE Expire
    <2>1. "timer" \in Work!Works
      BY DEF Work!Works
    <2>2. QED
      BY <1>1, <1>3, <2>1, SubmitTyped DEF Expire, Work!Expire
  <1>4. CASE RunWork
    <2>1. workq' \in Seq(Work!Works) /\ Lights!TypeOK' /\ heap' \in Nat
      BY <1>4, RunTyped, PutColourTyped DEF RunWork
    <2>2. QED
      BY <1>4, <2>1 DEF RunWork, uartVars, debugVars, Debug!TypeOK
  <1>5. CASE UartLocal
    BY <1>5, UartLocalTyped
  <1>6. CASE UartArm
    <2>1. UNCHANGED <<lightVars, debugVars, heap, workq, timer_color, cmd, dbg_on>>
      BY <1>6 DEF UartArm, Uart!Arm, Uart!timerVars, Work!Restart
    <2>2. upc' \in Uart!Stages
      BY <1>6 DEF UartArm, Uart!Arm, Uart!Stages
    <2>3. QED
      BY <2>1, <2>2 DEF lightVars, debugVars, Lights!TypeOK, Debug!TypeOK
  <1>7. CASE UartPut
    <2>1. UNCHANGED <<debugVars, workq, timer_color, cmd, dbg_on>>
      BY <1>7 DEF UartPut, Uart!PutColour, Uart!timerVars, workVars
    <2>2. upc' \in Uart!Stages
      BY <1>7 DEF UartPut, Uart!PutColour, Uart!Stages
    <2>3. Lights!TypeOK' /\ heap' \in Nat
      BY <1>7, PutColourTyped DEF UartPut
    <2>4. QED
      BY <2>1, <2>2, <2>3 DEF debugVars, Debug!TypeOK
  <1>8. CASE UartPost
    <2>1. UNCHANGED <<lightVars, workq, timer_color, cmd, dbg_on>>
      BY <1>8 DEF UartPost, Uart!PostToggle, Uart!timerVars, workVars
    <2>2. upc' \in Uart!Stages
      BY <1>8 DEF UartPost, Uart!PostToggle, Uart!Stages
    <2>3. <<"D", Toggled>> \in Debug!Messages
      BY DEF Debug!Messages, Toggled
    <2>4. Debug!TypeOK' /\ heap' \in Nat
      BY <1>8, <2>3, PostTyped DEF UartPost
    <2>5. QED
      BY <2>1, <2>2, <2>4 DEF lightVars, Lights!TypeOK
  <1>9. CASE LightTasks \/ \E c \in Lights!Colours : Start(c)
    <2>1. Lights!TypeOK' /\ Debug!TypeOK' /\ heap' \in Nat
      BY <1>9, LightTasksTyped, StartTyped
    <2>2. UNCHANGED <<uartVars, workVars>>
      BY <1>9 DEF LightTasks, Start
    <2>3. QED
      BY <2>1, <2>2 DEF uartVars, workVars
  <1>10. CASE DebugTask
    <2>1. Debug!TypeOK' /\ heap' \in Nat
      BY <1>10, DebugTaskTyped
    <2>2. UNCHANGED <<lightVars, uartVars, workVars>>
      BY <1>10 DEF DebugTask
    <2>3. QED
      BY <2>1, <2>2 DEF lightVars, uartVars, workVars, Lights!TypeOK
  <1>11. CASE UNCHANGED vars
    BY <1>1, <1>11 DEF vars, workVars
  <1>12. QED
    BY <1>2, <1>3, <1>4, <1>5, <1>6, <1>7, <1>8, <1>9, <1>10, <1>11 DEF Next, UartTask

THEOREM AlwaysTyped == Spec => []Typed
  BY InitTyped, NextTyped, PTL DEF Spec
-----------------------------------------------------------------------------
(* An item is allocated with its put, and freed once it has been taken.    *)
LEMMA PutColourConserves ==
  ASSUME Typed, HeapConserved, NEW c, PutColour(c), UNCHANGED debugVars
  PROVE  HeapConserved'
  <1>1. CASE heap >= SeqSize /\ heap' = heap - SeqSize /\ Lights!Put(c)
    <2>1. Len(seq_fifo') = Len(seq_fifo) + 1
      BY <1>1 DEF Lights!Put, Typed, Lights!TypeOK
    <2>2. QED
      BY <1>1, <2>1 DEF HeapConserved, debugVars, Typed, Lights!TypeOK, Debug!TypeOK,
                        SeqSize, DbgSize, MeasSize
  <1>2. CASE UNCHANGED <<heap, lightVars>>
    BY <1>2 DEF HeapConserved, lightVars, debugVars
  <1>3. QED
    BY <1>1, <1>2 DEF PutColour, Allocate

LEMMA PostConserves ==
  ASSUME Typed, HeapConserved, NEW m, Post(m), UNCHANGED seq_fifo
  PROVE  HeapConserved'
  <1>1. CASE heap >= DbgSize /\ heap' = heap - DbgSize /\ Debug!Post(m)
    <2>1. Len(taskdbg_fifo') = Len(taskdbg_fifo) + 1
      BY <1>1 DEF Debug!Post, Typed, Debug!TypeOK
    <2>2. QED
      BY <1>1, <2>1 DEF HeapConserved, Debug!Post, Typed, Lights!TypeOK, Debug!TypeOK,
                        SeqSize, DbgSize, MeasSize
  <1>2. CASE UNCHANGED <<heap, debugVars>>
    BY <1>2 DEF HeapConserved, debugVars
  <1>3. QED
    BY <1>1, <1>2 DEF Post, Allocate

LEMMA LightTasksConserve ==
  ASSUME Typed, HeapConserved, LightTasks
  PROVE  HeapConserved'
  <1>1. CASE Lights!Get /\ Free(SeqSize) /\ UNCHANGED debugVars
    <2>1. Len(seq_fifo') = Len(seq_fifo) - 1
      BY <1>1, HeadTailProperties DEF Lights!Get, Typed, Lights!TypeOK
    <2>2. QED
      BY <1>1, <2>1 DEF Free, HeapConserved, debugVars, Typed, Lights!TypeOK, Debug!TypeOK,
                        SeqSize, DbgSize, MeasSize
  <1>2. CASE UNCHANGED <<debugVars, heap, seq_fifo>>
    BY <1>2 DEF HeapConserved, debugVars
  <1>3. CASE Lights!LogPut /\ Post(LogItem)
    BY <1>3, PostConserves DEF Lights!LogPut, Lights!Step
  <1>4. CASE Lights!Measure /\ Allocate(MeasSize, Debug!PutMeasure(colour), UNCHANGED debugVars)
    <2>1. CASE heap >= MeasSize /\ heap' = heap - MeasSize /\ Debug!PutMeasure(colour)
      <3>1. Len(meas_fifo') = Len(meas_fifo) + 1
        BY <2>1 DEF Debug!PutMeasure, Typed, Debug!TypeOK
      <3>2. UNCHANGED seq_fifo
        BY <1>4 DEF Lights!Measure, Lights!Step
      <3>3. QED
        BY <2>1, <3>1, <3>2 DEF HeapConserved, Debug!PutMeasure, Typed, Lights!TypeOK,
                                Debug!TypeOK, SeqSize, DbgSize, MeasSize
    <2>2. QED
      BY <1>2, <1>4, <2>1 DEF Allocate, Lights!Measure, Lights!Step
  <1>5. QED
    BY <1>1, <1>2, <1>3, <1>4
       DEF LightTasks, Lights!LogSkip, Lights!LogCheck, Lights!Begin, Lights!SwitchOn,
           Lights!Sleep, Lights!SwitchOff, Lights!Give, Lights!Take, Lights!Step

LEMMA DebugTaskConserves ==
  ASSUME Typed, HeapConserved, DebugTask
  PROVE  HeapConserved'
  <1> USE DEF HeapConserved, Typed, Lights!TypeOK, Debug!TypeOK, lightVars,
              SeqSize, DbgSize, MeasSize
  <1>1. UNCHANGED seq_fifo
    BY DEF DebugTask
  <1>2. CASE Debug!GetMessage /\ UNCHANGED heap
    <2>1. Len(taskdbg_fifo') = Len(taskdbg_fifo) - 1
      BY <1>2, HeadTailProperties DEF Debug!GetMessage
    <2>2. QED
      BY <1>1, <1>2, <2>1 DEF Debug!GetMessage
  <1>3. CASE Debug!AddMeasure /\ UNCHANGED heap
    <2>1. Len(meas_fifo') = Len(meas_fifo) - 1
      BY <1>3, HeadTailProperties DEF Debug!AddMeasure
    <2>2. QED
      BY <1>1, <1>3, <2>1 DEF Debug!AddMeasure
  <1>4. CASE Debug!Drained /\ UNCHANGED heap
    BY <1>1, <1>4 DEF Debug!Drained
  <1>5. CASE Debug!FreeMessage /\ Free(DbgSize)
    BY <1>1, <1>5 DEF Debug!FreeMessage, Free
  <1>6. CASE Debug!FreeMeasure /\ Free(MeasSize)
    BY <1>1, <1>6 DEF Debug!FreeMeasure, Free
  <1>7. QED
    BY <1>2, <1>3, <1>4, <1>5, <1>6 DEF DebugTask

(* No item leaks and none is freed twice, whatever the size of the heap    *)
(* and whatever is typed or pressed.                                       *)
THEOREM HeapNeverLeaks == Spec => []HeapConserved
  <1>1. Init => HeapConserved
    BY HeapAssumption DEF Init, Lights!Init, Debug!Init, HeapConserved, SeqSize, DbgSize, MeasSize
  <1>2. ASSUME Typed, HeapConserved, [Next]_vars
        PROVE  HeapConserved'
    <2>1. CASE UNCHANGED <<lightVars, debugVars, heap>>
      BY <1>2, <2>1 DEF HeapConserved, lightVars, debugVars
    <2>2. CASE RunWork \/ UartPut
      BY <1>2, <2>2, PutColourConserves DEF RunWork, UartPut
    <2>3. CASE UartPost
      BY <1>2, <2>3, PostConserves DEF UartPost, lightVars
    <2>4. CASE LightTasks
      BY <1>2, <2>4, LightTasksConserve
    <2>5. ASSUME NEW c \in Lights!Colours, Start(c)
          PROVE  HeapConserved'
      <3>1. UNCHANGED seq_fifo
        BY <2>5 DEF Start, Lights!StartSkip, Lights!StartCheck, Lights!StartPut, Lights!StartStep
      <3>2. CASE UNCHANGED <<debugVars, heap>>
        BY <1>2, <3>1, <3>2 DEF HeapConserved, debugVars
      <3>3. QED
        BY <1>2, <2>5, <3>1, <3>2, PostConserves DEF Start
    <2>6. CASE DebugTask
      BY <1>2, <2>6, DebugTaskConserves
    <2>7. QED
      BY <1>2, <2>1, <2>2, <2>3, <2>4, <2>5, <2>6
         DEF Next, UartTask, Press, Expire, UartLocal, UartArm, vars
  <1>3. QED
    BY <1>1, <1>2, AlwaysTyped, PTL DEF Spec
-----------------------------------------------------------------------------
(* What a queue contains after a put or a get.                             *)
LEMMA ContainsLater ==
  ASSUME NEW S, NEW q \in Seq(S), NEW w \in S, NEW v, v # w
  PROVE  /\ Contains(Append(q, w), v) => Contains(q, v)
         /\ q # <<>> /\ Contains(Tail(q), v) => Contains(q, v)
         /\ ~Contains(<<>>, v)
  <1>1. Contains(Append(q, w), v) => Contains(q, v)
    <2>1. SUFFICES ASSUME NEW i \in 1 .. Len(Append(q, w)), Append(q, w)[i] = v
                   PROVE  \E j \in 1 .. Len(q) : q[j] = v
      BY DEF Contains
    <2>2. i \in 1 .. Len(q) /\ q[i] = v
      BY <2>1
    <2>3. QED
      BY <2>2
  <1>2. q # <<>> /\ Contains(Tail(q), v) => Contains(q, v)
    <2>1. SUFFICES ASSUME q # <<>>, NEW i \in 1 .. Len(Tail(q)), Tail(q)[i] = v
                   PROVE  \E j \in 1 .. Len(q) : q[j] = v
      BY DEF Contains
    <2>2. i + 1 \in 1 .. Len(q) /\ q[i + 1] = v
      BY <2>1, HeadTailProperties
    <2>3. QED
      BY <2>2
  <1>3. ~Contains(<<>>, v)
    BY DEF Contains
  <1>4. QED
    BY <1>1, <1>2, <1>3

(* The timer is started only while the work queue is empty, and stops when *)
(* it expires: no work of an older setting waits while it runs.            *)
THEOREM NoExpiryIsStale == Spec => []NoStaleExpiry
  <1>1. Init => NoStaleExpiry
    BY DEF Init, Work!Init, NoStaleExpiry
  <1>2. ASSUME Typed, NoStaleExpiry, [Next]_vars
        PROVE  NoStaleExpiry'
    <2> USE <1>2
    <2>1. CASE UNCHANGED workVars
      BY <2>1 DEF NoStaleExpiry, workVars
    <2>2. ASSUME NEW c \in Buttons, Press(c)
          PROVE  NoStaleExpiry'
      <3>1. c \in Work!Works /\ "timer" # c
        BY ButtonsAssumption DEF Work!Works
      <3>2. workq' = workq \/ workq' = Append(workq, c)
        BY <2>2 DEF Press, Work!Press, Work!Submit
      <3>3. Contains(workq', "timer") => Contains(workq, "timer")
        BY <3>1, <3>2, ContainsLater DEF Typed
      <3>4. QED
        BY <2>2, <3>3 DEF NoStaleExpiry, Press, Work!Press
    <2>3. CASE Expire
      BY <2>3 DEF Expire, Work!Expire, NoStaleExpiry
    <2>4. CASE RunWork
      <3>1. workq # <<>> /\ workq' = Tail(workq) /\ UNCHANGED armed
        BY <2>4 DEF RunWork, Work!Run
      <3>2. PICK w \in Work!Works : w # "timer"
        BY DEF Work!Works
      <3>3. Contains(workq', "timer") => Contains(workq, "timer")
        BY <3>1, <3>2, ContainsLater DEF Typed
      <3>4. QED
        BY <3>1, <3>3 DEF NoStaleExpiry
    <2>5. CASE UartArm
      <3>1. workq' = <<>>
        BY <2>5 DEF UartArm, Work!NoWork, Work!Restart
      <3>2. QED
        BY <3>1 DEF NoStaleExpiry, Contains
    <2>6. QED
      BY <2>1, <2>2, <2>3, <2>4, <2>5
         DEF Next, UartTask, UartLocal, UartPut, UartPost, LightTasks, Start, DebugTask, vars
  <1>3. QED
    BY <1>1, <1>2, AlwaysTyped, PTL DEF Spec
-----------------------------------------------------------------------------
(* The rest of the type invariant: the frame being typed, the delay that   *)
(* time_parse allows, and no work item in the queue twice.                 *)
FrameTyped == /\ time_mode \in BOOLEAN
              /\ time_buf \in Seq(Input) /\ Len(time_buf) <= 5
              /\ Uart!IsDelay(timer_delay_s)

LEMMA ClockBound ==
  ASSUME NEW h \in Nat, NEW m \in Nat, NEW s \in Nat, h <= 23, m <= 59, s <= 59
  PROVE  Uart!IsDelay(Uart!SecondOfDay(h, m, s))
  <1>1. h * 3600 + m * 60 + s \in Nat
    OBVIOUS
  <1>2. h * 3600 + m * 60 + s < 24 * 3600
    BY SMT
  <1>3. QED
    BY <1>1, <1>2 DEF Uart!IsDelay, Uart!SecondOfDay

LEMMA ParsedIsSecondOfDay ==
  ASSUME NEW t, Uart!time_parse(t) >= 0
  PROVE  Uart!IsDelay(Uart!time_parse(t))
  <1> DEFINE h == Uart!hourOf(t)
             m == Uart!minuteOf(t)
             s == Uart!secondOf(t)
  <1>1. Uart!formatError(t) >= 0
    BY DEF Uart!time_parse, Uart!formatError, Uart!TIME_ARRAY_ERROR, Uart!TIME_LEN_ERROR
  <1>2. \A i \in 1..6 : t[i] \in Uart!Digit
    BY <1>1 DEF Uart!formatError, Uart!TIME_ARRAY_ERROR, Uart!TIME_LEN_ERROR
  <1>3. \A a, b \in Uart!Digit : Uart!atoi2(a, b) \in Nat
    BY DEF Uart!atoi2, Uart!Digit, Uart!DigitZero
  <1>4. h \in Nat /\ m \in Nat /\ s \in Nat
    BY <1>2, <1>3 DEF Uart!hourOf, Uart!minuteOf, Uart!secondOf
  <1>5. Uart!formatError(t) = 0
    BY <1>1 DEF Uart!formatError, Uart!TIME_ARRAY_ERROR, Uart!TIME_LEN_ERROR
  <1>6. h <= 23 /\ m <= 59 /\ s <= 59
    BY <1>4, <1>5 DEF Uart!time_parse, Uart!TIME_VALUE_ERROR
  <1>7. Uart!time_parse(t) = Uart!SecondOfDay(h, m, s)
    BY <1>4, <1>5 DEF Uart!time_parse, Uart!TIME_VALUE_ERROR, Uart!seconds, Uart!SecondOfDay
  <1> HIDE DEF h, m, s
  <1>8. QED
    BY <1>4, <1>6, <1>7, ClockBound

LEMMA FrameStaysTyped ==
  ASSUME FrameTyped, [Next]_vars
  PROVE  FrameTyped'
  <1>1. CASE UNCHANGED <<time_mode, time_buf, timer_delay_s>>
    BY <1>1 DEF FrameTyped
  <1>2. ASSUME NEW b \in Input, Uart!TimeLast(b)
        PROVE  FrameTyped'
    <2>1. time_mode' \in BOOLEAN /\ time_buf' = <<>>
      BY <1>2 DEF Uart!TimeLast, Uart!time_mode_reset
    <2>2. Uart!IsDelay(timer_delay_s')
      <3> DEFINE secs == Uart!time_parse(Uart!CString(Append(time_buf, b)))
      <3>1. (secs >= 0 /\ timer_delay_s' = secs) \/ timer_delay_s' = timer_delay_s
        BY <1>2 DEF Uart!TimeLast
      <3>2. secs >= 0 => Uart!IsDelay(secs)
        BY ParsedIsSecondOfDay
      <3> HIDE DEF secs
      <3>3. QED
        BY <3>1, <3>2 DEF FrameTyped
    <2>3. time_buf' \in Seq(Input) /\ Len(time_buf') <= 5
      BY <2>1, EmptySeq
    <2>4. QED
      BY <2>1, <2>2, <2>3, Zenon DEF FrameTyped
  <1>3. ASSUME NEW b \in Input, Uart!TimeChar(b)
        PROVE  FrameTyped'
    <2>1. time_buf' \in Seq(Input) /\ Len(time_buf') <= 5
      BY <1>3 DEF Uart!TimeChar, FrameTyped
    <2>2. time_mode' = time_mode /\ timer_delay_s' = timer_delay_s
      BY <1>3 DEF Uart!TimeChar, Uart!timerVars
    <2>3. QED
      BY <2>1, <2>2, Zenon DEF FrameTyped
  <1>4. ASSUME NEW b \in Input, Uart!TimeEnd(b) \/ Uart!StartTime(b)
        PROVE  FrameTyped'
    <2>1. /\ time_mode' \in BOOLEAN /\ time_buf' = <<>>
          /\ timer_delay_s' = timer_delay_s
      BY <1>4 DEF Uart!TimeEnd, Uart!StartTime, Uart!time_mode_reset, Uart!timerVars
    <2>2. time_buf' \in Seq(Input) /\ Len(time_buf') <= 5
      BY <2>1, EmptySeq
    <2>3. QED
      BY <2>1, <2>2, Zenon DEF FrameTyped
  <1>5. ASSUME NEW b \in Input, Uart!Read(b)
        PROVE  FrameTyped'
    BY <1>1, <1>2, <1>3, <1>4, <1>5
       DEF Uart!Read, Uart!Colour, Uart!Toggle, Uart!Ignore, Uart!frameVars, Uart!timerVars
  <1>6. CASE UartTask
    BY <1>1, <1>5, <1>6
       DEF UartTask, UartLocal, UartArm, UartPut, UartPost, Uart!Sleep, Uart!Wake, Uart!SetDebug,
           Uart!Arm, Uart!PutColour, Uart!PostToggle, Uart!frameVars, Uart!timerVars
  <1>7. CASE UNCHANGED uartVars
    BY <1>1, <1>7 DEF uartVars
  <1>8. QED
    BY <1>6, <1>7 DEF Next, Press, Expire, RunWork, LightTasks, Start, DebugTask, vars

LEMMA SubmitKeepsTyped ==
  ASSUME Typed, Work!TypeOK, NEW w \in Work!Works, Work!Submit(w)
  PROVE  /\ workq' \in Seq(Work!Works)
         /\ Work!IsInjective(workq')
  <1>1. CASE workq' = workq
    BY <1>1 DEF Work!TypeOK
  <1>2. CASE ~Work!Contains(workq, w) /\ workq' = Append(workq, w)
    <2>1. ASSUME NEW i \in 1 .. Len(workq'), NEW j \in 1 .. Len(workq'), workq'[i] = workq'[j]
          PROVE  i = j
      BY <1>2, <2>1 DEF Work!TypeOK, Work!Contains, Work!IsInjective
    <2>2. workq' \in Seq(Work!Works)
      BY <1>2 DEF Work!TypeOK
    <2>3. QED
      BY <2>1, <2>2 DEF Work!IsInjective
  <1>3. QED
    BY <1>1, <1>2 DEF Work!Submit

LEMMA WorkStaysTyped ==
  ASSUME Typed, Work!TypeOK, [Next]_vars
  PROVE  Work!TypeOK'
  <1>1. CASE UNCHANGED workVars
    BY <1>1 DEF workVars, Work!TypeOK
  <1>2. ASSUME NEW c \in Buttons, Press(c)
        PROVE  Work!TypeOK'
    <2>1. c \in Work!Works
      BY ButtonsAssumption DEF Work!Works
    <2>2. QED
      BY <1>2, <2>1, SubmitKeepsTyped DEF Press, Work!Press, Work!TypeOK
  <1>3. CASE Expire
    <2>1. "timer" \in Work!Works
      BY DEF Work!Works
    <2>2. QED
      BY <1>3, <2>1, SubmitKeepsTyped DEF Expire, Work!Expire, Work!TypeOK
  <1>4. CASE RunWork
    <2>1. workq # <<>> /\ workq' = Tail(workq) /\ armed' = armed
      BY <1>4 DEF RunWork, Work!Run
    <2>2. /\ workq' \in Seq(Work!Works) /\ Len(workq') = Len(workq) - 1
          /\ \A i \in 1 .. Len(workq') : workq'[i] = workq[i + 1]
      BY <2>1, HeadTailProperties DEF Work!TypeOK
    <2>3. ASSUME NEW i \in 1 .. Len(workq'), NEW j \in 1 .. Len(workq'), workq'[i] = workq'[j]
          PROVE  i = j
      <3>1. i + 1 \in 1 .. Len(workq) /\ j + 1 \in 1 .. Len(workq)
        BY <2>2 DEF Work!TypeOK
      <3>2. workq[i + 1] = workq[j + 1]
        BY <2>2, <2>3
      <3>3. i + 1 = j + 1
        BY <3>1, <3>2 DEF Work!TypeOK, Work!IsInjective
      <3>4. QED
        BY <3>3
    <2>4. QED
      BY <2>1, <2>2, <2>3 DEF Work!TypeOK, Work!IsInjective
  <1>5. CASE UartArm
    BY <1>5 DEF UartArm, Work!Restart, Work!TypeOK
  <1>6. QED
    BY <1>1, <1>2, <1>3, <1>4, <1>5
       DEF Next, UartTask, UartLocal, UartPut, UartPost, LightTasks, Start, DebugTask, vars

(* Every variable of the firmware keeps its type, whatever is typed: a     *)
(* delay is always a second of a day, and the heap never holds more than   *)
(* it was given.                                                           *)
THEOREM AlwaysTypeOK == Spec => []TypeOK
  <1>1. Init => FrameTyped /\ Work!TypeOK
    <2>1. ASSUME Init
          PROVE  FrameTyped
      <3>1. Uart!IsDelay(0)
        BY SMT DEF Uart!IsDelay
      <3>2. time_mode \in BOOLEAN /\ time_buf = <<>> /\ timer_delay_s = 0
        BY <2>1 DEF Init, Uart!Init
      <3>3. time_buf \in Seq(Input) /\ Len(time_buf) <= 5
        BY <3>2, EmptySeq
      <3>4. QED
        BY <3>1, <3>2, <3>3, Zenon DEF FrameTyped
    <2>2. ASSUME Init
          PROVE  Work!TypeOK
      <3>1. armed \in BOOLEAN /\ workq = <<>>
        BY <2>2 DEF Init, Work!Init
      <3>2. workq \in Seq(Work!Works) /\ Work!IsInjective(workq)
        BY <3>1, EmptySeq DEF Work!IsInjective
      <3>3. QED
        BY <3>1, <3>2, Zenon DEF Work!TypeOK
    <2>3. QED
      BY <2>1, <2>2
  <1>2. Typed /\ FrameTyped /\ Work!TypeOK /\ [Next]_vars => (FrameTyped /\ Work!TypeOK)'
    BY FrameStaysTyped, WorkStaysTyped
  <1>3. ASSUME Typed, FrameTyped, Work!TypeOK, HeapConserved
        PROVE  TypeOK
    <2>1. Uart!TypeOK
      BY <1>3 DEF Typed, FrameTyped, Uart!TypeOK, Lights!Colours
    <2>2. heap \in 0..HeapSize
      <3> DEFINE used == SeqSize * Len(seq_fifo) + DbgSize * Len(taskdbg_fifo)
                           + MeasSize * Len(meas_fifo)
                           + (IF dpc = "print" THEN DbgSize ELSE 0)
                           + (IF dpc = "added" THEN MeasSize ELSE 0)
      <3>1. Len(seq_fifo) \in Nat /\ Len(taskdbg_fifo) \in Nat /\ Len(meas_fifo) \in Nat
        BY <1>3 DEF Typed, Lights!TypeOK, Debug!TypeOK
      <3>2. used \in Nat
        BY <3>1 DEF SeqSize, DbgSize, MeasSize
      <3>3. heap + used = HeapSize /\ heap \in Nat
        BY <1>3, <3>1 DEF Typed, HeapConserved, SeqSize, DbgSize, MeasSize
      <3> HIDE DEF used
      <3>4. QED
        BY <3>2, <3>3, HeapAssumption
    <2>3. QED
      BY <1>3, <2>1, <2>2 DEF Typed, TypeOK
  <1>4. Typed /\ FrameTyped /\ Work!TypeOK /\ HeapConserved => TypeOK
    BY <1>3
  <1>5. QED
    BY <1>1, <1>2, <1>4, AlwaysTyped, HeapNeverLeaks, PTL DEF Spec
-----------------------------------------------------------------------------
(* While D is not typed: debugging stays on; the OFF message that precedes *)
(* a measurement is there to wake debug_task, or the heap is too full for  *)
(* the message and with it for the measurement.                            *)
DebugOn == dbg_on /\ upc \notin {"toggle", "assign"}

Announced == stage \in {"off", "measure"} =>
               taskdbg_fifo # <<>> \/ dpc # "get" \/ heap < DbgSize

LogInv == /\ DebugOn /\ Announced
          /\ Debug!Waiting => meas_fifo = <<>>

NoToggle == \A b \in Input : Uart!toupper(b) # 68

LEMMA InitLog == Init => LogInv
  BY DEF Init, Uart!Init, Lights!Init, Debug!Init, LogInv, DebugOn, Announced

LEMMA DebugOnStays ==
  ASSUME NoToggle, DebugOn, [Next]_vars
  PROVE  DebugOn'
  <1> USE DEF DebugOn, Uart!timerVars, Uart!frameVars
  <1>1. CASE UNCHANGED uartVars
    BY <1>1 DEF uartVars
  <1>2. CASE UartLocal
    <2>1. CASE Uart!Sleep \/ Uart!Wake \/ Uart!SetDebug
      BY <2>1 DEF Uart!Sleep, Uart!Wake, Uart!SetDebug
    <2>2. ASSUME NEW b \in Input, Uart!Read(b)
          PROVE  DebugOn'
      <3>1. ~Uart!Toggle(b)
        BY DEF NoToggle, Uart!Toggle
      <3>2. QED
        BY <2>2, <3>1 DEF Uart!Read, Uart!TimeEnd, Uart!TimeChar, Uart!TimeLast,
                          Uart!StartTime, Uart!Colour, Uart!Ignore
    <2>3. QED
      BY <1>2, <2>1, <2>2 DEF UartLocal
  <1>3. CASE UartArm \/ UartPut
    BY <1>3 DEF UartArm, Uart!Arm, UartPut, Uart!PutColour
  <1>4. CASE UartPost
    BY <1>4 DEF UartPost, Uart!PostToggle
  <1>5. QED
    BY <1>1, <1>2, <1>3, <1>4
       DEF Next, UartTask, Press, Expire, RunWork, LightTasks, Start, DebugTask, vars

(* Steps that leave the stage and debug_task alone, allocate or do nothing.*)
LEMMA AllocationKeepsLog ==
  ASSUME Typed, LogInv, heap' <= heap, heap' \in Nat, UNCHANGED <<stage, dpc, meas_fifo>>,
         taskdbg_fifo' = taskdbg_fifo \/ taskdbg_fifo' # <<>>
  PROVE  Announced' /\ (Debug!Waiting => meas_fifo = <<>>)'
  BY DEF Typed, LogInv, Announced, Debug!Waiting, DbgSize

LEMMA PostKeepsLog ==
  ASSUME Typed, LogInv, NEW m \in Debug!Messages, Post(m)
  PROVE  /\ heap' <= heap /\ heap' \in Nat /\ UNCHANGED <<dpc, meas_fifo>>
         /\ taskdbg_fifo' # <<>> \/ (taskdbg_fifo' = taskdbg_fifo /\ heap' < DbgSize)
  <1>1. CASE heap >= DbgSize /\ heap' = heap - DbgSize /\ Debug!Post(m)
    <2>1. taskdbg_fifo' # <<>>
      <3>1. taskdbg_fifo \in Seq(Debug!Messages) /\ taskdbg_fifo' = Append(taskdbg_fifo, m)
        BY <1>1 DEF Debug!Post, Typed, Debug!TypeOK
      <3>2. Len(taskdbg_fifo') = Len(taskdbg_fifo) + 1 /\ Len(taskdbg_fifo) \in Nat
        BY <3>1
      <3>3. QED
        BY <3>2
    <2>2. QED
      BY <1>1, <2>1 DEF Debug!Post, Typed, DbgSize
  <1>2. CASE heap < DbgSize /\ UNCHANGED <<heap, debugVars>>
    BY <1>2 DEF debugVars, Typed
  <1>3. QED
    BY <1>1, <1>2 DEF Post, Allocate

LEMMA LightTasksKeepLog ==
  ASSUME Typed, LogInv, LightTasks
  PROVE  Announced' /\ (Debug!Waiting => meas_fifo = <<>>)'
  <1> USE DEF Typed, LogInv, Announced, Debug!Waiting, debugVars
  <1>1. CASE Lights!Get /\ Free(SeqSize) /\ UNCHANGED debugVars
    BY <1>1 DEF Lights!Get
  <1>2. CASE /\ UNCHANGED <<debugVars, heap>>
             /\ \/ ~dbg_on /\ Lights!LogSkip
                \/ Lights!LogCheck \/ Lights!Begin \/ Lights!SwitchOn \/ Lights!Sleep
                \/ Lights!SwitchOff \/ Lights!Give \/ Lights!Take
    BY <1>2 DEF DebugOn, Lights!LogCheck, Lights!Begin, Lights!SwitchOn, Lights!Sleep,
       Lights!SwitchOff, Lights!Give, Lights!Take, Lights!Step
  <1>3. CASE Lights!LogPut /\ Post(LogItem)
    <2>1. LogItem \in Debug!Messages
      BY DEF LogItem, Debug!Messages, Lights!TypeOK, Lights!Colours
    <2>2. /\ UNCHANGED <<dpc, meas_fifo>>
          /\ taskdbg_fifo' # <<>> \/ (taskdbg_fifo' = taskdbg_fifo /\ heap' < DbgSize)
      BY <1>3, <2>1, PostKeepsLog
    <2>3. QED
      BY <2>2
  <1>4. CASE Lights!Measure /\ Allocate(MeasSize, Debug!PutMeasure(colour), UNCHANGED debugVars)
    <2>1. stage = "measure" /\ stage' = "give"
      BY <1>4 DEF Lights!Measure, Lights!Step
    <2>2. CASE heap >= MeasSize /\ Debug!PutMeasure(colour)
      <3>1. taskdbg_fifo # <<>> \/ dpc # "get"
        BY <2>1, <2>2 DEF MeasSize, DbgSize
      <3>2. QED
        BY <2>1, <2>2, <3>1 DEF Debug!PutMeasure
    <2>3. CASE UNCHANGED debugVars
      BY <2>1, <2>3
    <2>4. QED
      BY <1>4, <2>2, <2>3 DEF Allocate
  <1>5. QED
    BY <1>1, <1>2, <1>3, <1>4 DEF LightTasks

LEMMA NextKeepsLog ==
  ASSUME NoToggle, Typed, LogInv, [Next]_vars
  PROVE  LogInv'
  <1>1. DebugOn'
    BY DebugOnStays DEF LogInv
  <1>2. SUFFICES Announced' /\ (Debug!Waiting => meas_fifo = <<>>)'
    BY <1>1 DEF LogInv
  <1>3. CASE UNCHANGED <<lightVars, debugVars, heap>>
    BY <1>3 DEF LogInv, Announced, Debug!Waiting, lightVars, debugVars
  <1>4. CASE RunWork \/ UartPut
    <2>1. PICK c : PutColour(c) /\ UNCHANGED debugVars
      BY <1>4 DEF RunWork, UartPut
    <2>2. heap' <= heap /\ heap' \in Nat /\ UNCHANGED stage
      BY <2>1 DEF PutColour, Allocate, Lights!Put, lightVars, Typed, SeqSize
    <2>3. QED
      BY <2>1, <2>2, AllocationKeepsLog DEF debugVars
  <1>5. CASE UartPost
    BY <1>5 DEF UartPost, Uart!PostToggle, LogInv, DebugOn
  <1>6. CASE LightTasks
    BY <1>6, LightTasksKeepLog
  <1>7. ASSUME NEW c \in Lights!Colours, Start(c)
        PROVE  Announced' /\ (Debug!Waiting => meas_fifo = <<>>)'
    <2>1. UNCHANGED stage
      BY <1>7 DEF Start, Lights!StartSkip, Lights!StartCheck, Lights!StartPut, Lights!StartStep
    <2>2. CASE UNCHANGED <<debugVars, heap>>
      BY <2>1, <2>2, AllocationKeepsLog DEF debugVars, Typed
    <2>3. CASE Post(<<"S", c>>)
      <3>1. <<"S", c>> \in Debug!Messages
        BY DEF Debug!Messages, Lights!Colours
      <3>2. QED
        BY <2>1, <2>3, <3>1, PostKeepsLog, AllocationKeepsLog
    <2>4. QED
      BY <1>7, <2>2, <2>3 DEF Start
  <1>8. CASE DebugTask
    <2>1. stage \notin {"off", "measure"} /\ UNCHANGED stage
      BY <1>8 DEF DebugTask, Idle, Lights!Blocked, lightVars
    <2>2. (Debug!Waiting => meas_fifo = <<>>)'
      BY <1>8 DEF DebugTask, LogInv, Debug!Waiting, Debug!GetMessage, Debug!AddMeasure,
         Debug!Drained, Debug!FreeMessage, Debug!FreeMeasure
    <2>3. QED
      BY <2>1, <2>2 DEF Announced
  <1>9. QED
    BY <1>3, <1>4, <1>5, <1>6, <1>7, <1>8
       DEF Next, UartTask, Press, Expire, UartLocal, UartArm, vars

(* As long as D is not typed, debug_task leaves no measurement behind when *)
(* it goes to sleep, whatever the heap refuses.                            *)
THEOREM NoMeasurementLeft ==
  ASSUME NoToggle
  PROVE  Spec => []MeasurementsLogged
  <1>1. LogInv => MeasurementsLogged
    BY DEF LogInv, MeasurementsLogged
  <1>2. Typed /\ LogInv /\ [Next]_vars => LogInv'
    BY NextKeepsLog
  <1>3. QED
    BY <1>1, <1>2, InitLog, AlwaysTyped, PTL DEF Spec
-----------------------------------------------------------------------------
(* While D is not typed the heap comes back: when the processor has        *)
(* nothing to do, the colours that wait behind a light are all it holds.   *)
THEOREM HeapComesBack ==
  ASSUME NoToggle
  PROVE  Spec => [](Idle /\ Debug!Waiting => heap + SeqSize * Len(seq_fifo) = HeapSize)
  <1>1. ASSUME Typed, HeapConserved, MeasurementsLogged, Idle, Debug!Waiting
        PROVE  heap + SeqSize * Len(seq_fifo) = HeapSize
    <2>1. taskdbg_fifo = <<>> /\ meas_fifo = <<>> /\ dpc = "get"
      BY <1>1 DEF MeasurementsLogged, Debug!Waiting
    <2>2. Len(taskdbg_fifo) = 0 /\ Len(meas_fifo) = 0
      BY <2>1, EmptySeq
    <2>3. Len(seq_fifo) \in Nat /\ heap \in Nat
      BY <1>1 DEF Typed, Lights!TypeOK
    <2>4. QED
      BY <1>1, <2>1, <2>2, <2>3 DEF HeapConserved, SeqSize, DbgSize, MeasSize
  <1>2. Typed /\ HeapConserved /\ MeasurementsLogged
          => (Idle /\ Debug!Waiting => heap + SeqSize * Len(seq_fifo) = HeapSize)
    BY <1>1
  <1>3. QED
    BY <1>2, AlwaysTyped, HeapNeverLeaks, NoMeasurementLeft, PTL

(* With nothing to serve and nothing to print, and no room for a colour or *)
(* a message, no step of anyone makes room.                                *)
LEMMA WedgedStays ==
  ASSUME Typed, Wedged, [Next]_vars
  PROVE  Wedged'
  <1>1. /\ seq_fifo = <<>> /\ stage = "get" /\ dpc = "get" /\ taskdbg_fifo = <<>>
        /\ heap < SeqSize /\ heap < DbgSize /\ ~(heap >= SeqSize) /\ ~(heap >= DbgSize)
    <2>1. ~(heap < SeqSize /\ heap >= SeqSize) /\ ~(heap < DbgSize /\ heap >= DbgSize)
      BY DEF Typed, SeqSize, DbgSize
    <2>2. QED
      BY <2>1 DEF Wedged, Debug!Waiting
  <1>2. ASSUME UNCHANGED <<seq_fifo, stage, taskdbg_fifo, dpc, heap>>
        PROVE  Wedged'
    BY <1>2 DEF Wedged, Debug!Waiting, SeqSize, DbgSize
  <1>3. ASSUME NEW c, PutColour(c)
        PROVE  UNCHANGED <<lightVars, heap>>
    BY <1>1, <1>3 DEF PutColour, Allocate
  <1>4. ASSUME NEW m, Post(m)
        PROVE  UNCHANGED <<debugVars, heap>>
    BY <1>1, <1>4 DEF Post, Allocate
  <1>5. CASE RunWork
    BY <1>2, <1>3, <1>5 DEF RunWork, lightVars, debugVars
  <1>6. CASE UartPut
    BY <1>2, <1>3, <1>6 DEF UartPut, lightVars, debugVars
  <1>7. CASE UartPost
    BY <1>2, <1>4, <1>7 DEF UartPost, lightVars, debugVars
  <1>8. ASSUME NEW c \in Lights!Colours, Start(c)
        PROVE  Wedged'
    <2>1. UNCHANGED <<debugVars, heap>> /\ UNCHANGED <<seq_fifo, stage>>
      BY <1>4, <1>8
         DEF Start, Lights!StartSkip, Lights!StartCheck, Lights!StartPut, Lights!StartStep
    <2>2. QED
      BY <1>2, <2>1 DEF debugVars
  <1>9. ~LightTasks
    BY <1>1 DEF LightTasks, Lights!Get, Lights!LogSkip, Lights!LogCheck, Lights!LogPut,
       Lights!Begin, Lights!SwitchOn, Lights!Sleep, Lights!SwitchOff, Lights!Measure,
       Lights!Give, Lights!Take, Lights!Step
  <1>10. ~DebugTask
    BY <1>1 DEF DebugTask, Debug!GetMessage, Debug!FreeMessage, Debug!AddMeasure,
       Debug!FreeMeasure, Debug!Drained
  <1>11. CASE UNCHANGED <<lightVars, debugVars, heap>>
    BY <1>2, <1>11 DEF lightVars, debugVars
  <1>12. QED
    BY <1>5, <1>6, <1>7, <1>8, <1>9, <1>10, <1>11
       DEF Next, UartTask, UartLocal, UartArm, Press, Expire, vars

(* A firmware that is wedged stays so, and so stays dark, for ever.        *)
THEOREM WedgeForEver == Spec => WedgeLasts /\ [](Wedged => [](Wedged /\ Shown = "dark"))
  <1>1. Typed /\ Wedged /\ [Next]_vars => Wedged'
    BY WedgedStays
  <1>2. Typed /\ [Next]_vars => [Wedged => Wedged']_vars
    BY WedgedStays
  <1>3. Wedged => Shown = "dark"
    BY DEF Wedged, Shown, Lights!Lit
  <1>4. QED
    BY <1>1, <1>2, <1>3, AlwaysTyped, PTL DEF Spec, WedgeLasts
-----------------------------------------------------------------------------
(* A colour in front of those that wait. *)
LEMMA InFront ==
  ASSUME NEW S, NEW x \in S, NEW s \in Seq(S)
  PROVE  /\ <<x>> \o s # <<>> /\ Head(<<x>> \o s) = x /\ Tail(<<x>> \o s) = s
         /\ \A c \in S : <<x>> \o Append(s, c) = Append(<<x>> \o s, c)
         /\ s # <<>> => <<Head(s)>> \o Tail(s) = s
  OBVIOUS

(* The firmware implements LightService: every step of the lights maps to  *)
(* an Accept, a Light, a Dim or a stutter, and no other step concerns them.*)
LEMMA PutServes ==
  ASSUME Typed, NEW c \in Lights!Colours, PutColour(c)
  PROVE  [Service!Next]_(Service!vars)
  <1>1. CASE Lights!Put(c)
    <2>1. seq_fifo' = Append(seq_fifo, c) /\ stage' = stage /\ colour' = colour
      BY <1>1 DEF Lights!Put
    <2>2. Shown' = Shown
      BY <2>1 DEF Shown
    <2>3. <<colour>> \o Append(seq_fifo, c) = Append(<<colour>> \o seq_fifo, c)
      BY InFront DEF Typed, Lights!TypeOK
    <2>4. Accepted' = Append(Accepted, c)
      BY <2>1, <2>3 DEF Accepted
    <2>5. QED
      BY <2>2, <2>4 DEF Service!Next, Service!Accept
  <1>2. CASE UNCHANGED lightVars
    BY <1>2 DEF lightVars, Accepted, Shown, Service!vars
  <1>3. QED
    BY <1>1, <1>2 DEF PutColour, Allocate

LEMMA LightTasksServe ==
  ASSUME Typed, LightTasks
  PROVE  [Service!Next]_(Service!vars)
  <1>1. CASE Lights!Get
    <2>1. /\ stage = "get" /\ stage' = "trigger" /\ seq_fifo # <<>>
          /\ colour' = Head(seq_fifo) /\ seq_fifo' = Tail(seq_fifo)
      BY <1>1 DEF Lights!Get
    <2>2. <<Head(seq_fifo)>> \o Tail(seq_fifo) = seq_fifo
      BY <2>1, InFront DEF Typed, Lights!TypeOK
    <2>3. Accepted' = Accepted /\ Shown' = Shown
      BY <2>1, <2>2 DEF Accepted, Shown, Lights!Lit
    <2>4. QED
      BY <2>3 DEF Service!vars
  <1>2. CASE Lights!SwitchOn
    <2>1. stage = "on" /\ stage' = "glow" /\ UNCHANGED <<seq_fifo, colour>>
      BY <1>2 DEF Lights!SwitchOn, Lights!Step
    <2>2. Shown = "dark" /\ Shown' = colour /\ Accepted' = seq_fifo
      BY <2>1 DEF Shown, Accepted, Lights!Lit
    <2>3. Accepted = <<colour>> \o seq_fifo
      BY <2>1 DEF Accepted
    <2>4. /\ <<colour>> \o seq_fifo # <<>>
          /\ Head(<<colour>> \o seq_fifo) = colour /\ Tail(<<colour>> \o seq_fifo) = seq_fifo
      BY InFront DEF Typed, Lights!TypeOK
    <2>5. QED
      BY <2>2, <2>3, <2>4 DEF Service!Next, Service!Light
  <1>3. CASE Lights!SwitchOff
    <2>1. stage = "off" /\ stage' = "measure" /\ UNCHANGED <<seq_fifo, colour>>
      BY <1>3 DEF Lights!SwitchOff, Lights!Step
    <2>2. colour # "dark"
      BY DEF Typed, Lights!TypeOK, Lights!Colours
    <2>3. Shown # "dark" /\ Shown' = "dark" /\ Accepted' = Accepted
      BY <2>1, <2>2 DEF Shown, Accepted, Lights!Lit
    <2>4. QED
      BY <2>3 DEF Service!Next, Service!Dim
  <1>4. ASSUME \/ Lights!LogSkip \/ Lights!LogCheck \/ Lights!LogPut \/ Lights!Begin
               \/ Lights!Sleep \/ Lights!Measure \/ Lights!Give \/ Lights!Take
        PROVE  [Service!Next]_(Service!vars)
    <2>1. Accepted' = Accepted /\ Shown' = Shown
      BY <1>4 DEF Lights!LogSkip, Lights!LogCheck, Lights!LogPut, Lights!Begin, Lights!Sleep,
         Lights!Measure, Lights!Give, Lights!Take, Lights!Step, Accepted, Shown, Lights!Lit
    <2>2. QED
      BY <2>1 DEF Service!vars
  <1>5. QED
    BY <1>1, <1>2, <1>3, <1>4 DEF LightTasks

(* Whoever asks for them, the colours are shown in the order of their      *)
(* puts, each once, with darkness in between (main.c:323-355).             *)
THEOREM OrderKept == Spec => ShowsInOrder
  <1>1. Init => Service!Init
    BY DEF Init, Lights!Init, Accepted, Shown, Lights!Lit, Service!Init
  <1>2. Typed /\ [Next]_vars => [Service!Next]_(Service!vars)
    <2> SUFFICES ASSUME Typed, [Next]_vars PROVE [Service!Next]_(Service!vars)
      OBVIOUS
    <2>1. CASE RunWork
      BY <2>1, RunTyped, PutServes DEF RunWork
    <2>2. CASE UartPut
      BY <2>2, PutServes DEF UartPut, Typed
    <2>3. CASE LightTasks
      BY <2>3, LightTasksServe
    <2>4. CASE UNCHANGED <<seq_fifo, stage, colour>>
      BY <2>4 DEF Accepted, Shown, Service!vars
    <2>5. QED
      BY <2>1, <2>2, <2>3, <2>4
         DEF Next, UartTask, UartLocal, UartArm, UartPost, Press, Expire, DebugTask, vars,
             lightVars, Start, Lights!StartSkip, Lights!StartCheck, Lights!StartPut,
             Lights!StartStep
  <1>3. QED
    BY <1>1, <1>2, AlwaysTyped, PTL DEF Spec, ShowsInOrder, Service!Spec
-----------------------------------------------------------------------------
(* What the log will have said of the debug state once the queue q is      *)
(* printed, when it says known now: the last D of q counts, if there is    *)
(* one.                                                                    *)
StateItem(b) == <<"D", IF b THEN "1" ELSE "0">>

NoStateIn(q) == \A i \in 1 .. Len(q) : q[i][1] # "D"

Tells(q, known, b) ==
  \/ \E i \in 1 .. Len(q) : /\ q[i] = StateItem(b)
                            /\ \A j \in i + 1 .. Len(q) : q[j][1] # "D"
  \/ NoStateIn(q) /\ known = b

(* dbg_on, or what uart_task, having posted it, is about to assign to it.  *)
Target == IF upc = "assign" THEN ~dbg_on ELSE dbg_on

AnnounceInv == ~unheard => Tells(taskdbg_fifo, announced, Target)

LEMMA TellsPosted ==
  ASSUME NEW S, NEW q \in Seq(S), NEW b, StateItem(b) \in S, NEW known
  PROVE  Tells(Append(q, StateItem(b)), known, b)
  <1> DEFINE r == Append(q, StateItem(b))
  <1>1. /\ r \in Seq(S) /\ Len(r) = Len(q) + 1 /\ r[Len(q) + 1] = StateItem(b)
        /\ Len(q) \in Nat
    BY AppendProperties
  <1> HIDE DEF r
  <1>2. /\ Len(q) + 1 \in 1 .. Len(r) /\ r[Len(q) + 1] = StateItem(b)
        /\ \A j \in Len(q) + 1 + 1 .. Len(r) : r[j][1] # "D"
    BY <1>1
  <1>3. Tells(r, known, b)
    BY <1>2, Zenon DEF Tells
  <1>4. QED
    BY <1>3 DEF r

LEMMA TellsOther ==
  ASSUME NEW S, NEW q \in Seq(S), NEW m \in S, m[1] # "D", NEW b, NEW known,
         Tells(q, known, b)
  PROVE  Tells(Append(q, m), known, b)
  <1> DEFINE r == Append(q, m)
  <1>1. /\ r \in Seq(S) /\ Len(r) = Len(q) + 1 /\ r[Len(q) + 1] = m
        /\ \A i \in 1 .. Len(q) : r[i] = q[i]
        /\ Len(q) \in Nat
    BY AppendProperties
  <1> HIDE DEF r
  <1>2. CASE NoStateIn(q) /\ known = b
    <2>1. NoStateIn(r)
      BY <1>1, <1>2 DEF NoStateIn
    <2>2. QED
      BY <1>2, <2>1 DEF Tells, r
  <1>3. ASSUME NEW i \in 1 .. Len(q), q[i] = StateItem(b),
               \A j \in i + 1 .. Len(q) : q[j][1] # "D"
        PROVE  Tells(r, known, b)
    <2>1. i \in 1 .. Len(r) /\ r[i] = StateItem(b)
      BY <1>1, <1>3
    <2>2. ASSUME NEW j \in i + 1 .. Len(r) PROVE r[j][1] # "D"
      <3>1. CASE j = Len(q) + 1
        BY <1>1, <3>1
      <3>2. CASE j # Len(q) + 1
        <4>1. j \in i + 1 .. Len(q) /\ j \in 1 .. Len(q)
          BY <1>1, <3>2
        <4>2. QED
          BY <1>1, <1>3, <4>1
      <3>3. QED
        BY <3>1, <3>2
    <2>3. QED
      BY <2>1, <2>2, Zenon DEF Tells
  <1>4. QED
    BY <1>2, <1>3 DEF Tells, r

(* debug_task prints the first message, and the reader knows what it says. *)
LEMMA TellsPrinted ==
  ASSUME NEW q \in Seq(Debug!Messages), q # <<>>, NEW b \in BOOLEAN, NEW known, NEW later,
         later = IF Head(q)[1] = "D" THEN Head(q)[2] = "1" ELSE known,
         Tells(q, known, b)
  PROVE  Tells(Tail(q), later, b)
  <1> DEFINE r == Tail(q)
  <1>1. /\ r \in Seq(Debug!Messages) /\ Len(q) = Len(r) + 1 /\ Head(q) = q[1]
        /\ \A i \in 1 .. Len(r) : r[i] = q[i + 1]
        /\ Len(r) \in Nat
    BY HeadTailProperties
  <1> HIDE DEF r
  <1>2. CASE NoStateIn(q) /\ known = b
    <2>1. q[1][1] # "D"
      BY <1>1, <1>2 DEF NoStateIn
    <2>2. later = b
      BY <1>1, <1>2, <2>1
    <2>3. ASSUME NEW i \in 1 .. Len(r) PROVE r[i][1] # "D"
      <3>1. i + 1 \in 1 .. Len(q) /\ r[i] = q[i + 1]
        BY <1>1
      <3>2. QED
        BY <1>2, <3>1 DEF NoStateIn
    <2>4. QED
      BY <2>2, <2>3 DEF NoStateIn, Tells, r
  <1>3. ASSUME NEW i \in 1 .. Len(q), q[i] = StateItem(b),
               \A j \in i + 1 .. Len(q) : q[j][1] # "D"
        PROVE  Tells(r, later, b)
    <2>1. ASSUME NEW j \in 1 .. Len(r), j >= i PROVE r[j][1] # "D"
      <3>1. j + 1 \in i + 1 .. Len(q) /\ r[j] = q[j + 1]
        BY <1>1, <2>1
      <3>2. QED
        BY <1>3, <3>1
    <2>2. CASE i = 1
      <3>1. NoStateIn(r)
        BY <2>1, <2>2, <1>1 DEF NoStateIn
      <3>2. Head(q) = StateItem(b)
        BY <1>1, <1>3, <2>2
      <3>3. later = b
        BY <3>2 DEF StateItem
      <3>4. QED
        BY <3>1, <3>3 DEF Tells
    <2>3. CASE i # 1
      <3>1. i - 1 \in 1 .. Len(r) /\ r[i - 1] = StateItem(b)
        BY <1>1, <1>3, <2>3
      <3>2. \A j \in (i - 1) + 1 .. Len(r) : r[j][1] # "D"
        BY <1>1, <2>1
      <3>3. QED
        BY <3>1, <3>2, Zenon DEF Tells
    <2>4. QED
      BY <2>2, <2>3
  <1>4. QED
    BY <1>2, <1>3 DEF Tells, r

(* The task that keeps what dbg_on is or will be. *)
LEMMA UartTarget ==
  ASSUME Typed, UartTask, ~UartPost
  PROVE  Target' = Target /\ UNCHANGED debugVars
  <1> USE DEF Target, Uart!timerVars, Uart!frameVars
  <1>1. CASE UartLocal
    <2>1. CASE Uart!Sleep \/ Uart!Wake \/ Uart!SetDebug
      BY <1>1, <2>1 DEF UartLocal, Typed, Uart!Sleep, Uart!Wake, Uart!SetDebug
    <2>2. ASSUME NEW b \in Input, Uart!Read(b)
          PROVE  Target' = Target
      BY <2>2 DEF Uart!Read, Uart!TimeEnd, Uart!TimeChar, Uart!TimeLast,
                  Uart!StartTime, Uart!Colour, Uart!Toggle, Uart!Ignore
    <2>3. QED
      BY <1>1, <2>1, <2>2 DEF UartLocal
  <1>2. CASE UartArm
    BY <1>2 DEF UartArm, Uart!Arm
  <1>3. CASE UartPut
    BY <1>3 DEF UartPut, Uart!PutColour
  <1>4. QED
    BY <1>1, <1>2, <1>3 DEF UartTask

(* The messages of the other tasks are not about the debug state. *)
LEMMA OtherPosts ==
  ASSUME Typed, [Next]_vars, ~UartPost, ~DebugTask
  PROVE  /\ Target' = Target /\ dpc' = dpc
         /\ \/ taskdbg_fifo' = taskdbg_fifo
            \/ \E m \in Debug!Messages : m[1] # "D" /\ taskdbg_fifo' = Append(taskdbg_fifo, m)
  <1>1. ASSUME NEW m \in Debug!Messages, m[1] # "D", Post(m)
        PROVE  /\ dpc' = dpc
               /\ \/ taskdbg_fifo' = taskdbg_fifo
                  \/ \E n \in Debug!Messages :
                       n[1] # "D" /\ taskdbg_fifo' = Append(taskdbg_fifo, n)
    BY <1>1 DEF Post, Allocate, Debug!Post, debugVars
  <1>2. CASE UartTask
    BY <1>2, UartTarget DEF debugVars
  <1>3. CASE UNCHANGED <<uartVars, debugVars>>
    BY <1>3 DEF uartVars, debugVars, Target
  <1>4. CASE LightTasks
    <2>1. Target' = Target
      BY <1>4 DEF LightTasks, uartVars, Target
    <2>2. CASE Lights!LogPut /\ Post(LogItem)
      <3>1. LogItem \in Debug!Messages /\ LogItem[1] # "D"
        BY DEF LogItem, Debug!Messages, Typed, Lights!TypeOK, Lights!Colours
      <3>2. QED
        BY <1>1, <2>1, <2>2, <3>1
    <2>3. CASE Lights!Measure /\ Allocate(MeasSize, Debug!PutMeasure(colour), UNCHANGED debugVars)
      BY <2>1, <2>3 DEF Allocate, Debug!PutMeasure, debugVars
    <2>4. CASE UNCHANGED debugVars
      BY <2>1, <2>4 DEF debugVars
    <2>5. QED
      BY <1>4, <2>2, <2>3, <2>4 DEF LightTasks
  <1>5. ASSUME NEW c \in Lights!Colours, Start(c)
        PROVE  /\ Target' = Target /\ dpc' = dpc
               /\ \/ taskdbg_fifo' = taskdbg_fifo
                  \/ \E n \in Debug!Messages :
                       n[1] # "D" /\ taskdbg_fifo' = Append(taskdbg_fifo, n)
    <2>1. Target' = Target
      BY <1>5 DEF Start, uartVars, Target
    <2>2. <<"S", c>> \in Debug!Messages /\ <<"S", c>>[1] # "D"
      BY DEF Debug!Messages, Lights!Colours
    <2>3. CASE Post(<<"S", c>>)
      BY <1>1, <2>1, <2>2, <2>3
    <2>4. CASE UNCHANGED debugVars
      BY <2>1, <2>4 DEF debugVars
    <2>5. QED
      BY <1>5, <2>3, <2>4 DEF Start
  <1>6. QED
    BY <1>2, <1>3, <1>4, <1>5 DEF Next, Press, Expire, RunWork, vars

LEMMA NextAnnounces ==
  ASSUME Typed, AnnounceInv, [MCNext]_mcVars
  PROVE  AnnounceInv'
  <1>1. taskdbg_fifo \in Seq(Debug!Messages)
    BY DEF Typed, Debug!TypeOK
  <1>2. CASE UNCHANGED mcVars
    BY <1>2 DEF AnnounceInv, mcVars, vars, uartVars, debugVars, Target
  <1>3. CASE MCNext /\ UartPost
    <2>1. SUFFICES ASSUME heap >= DbgSize
                   PROVE  Tells(taskdbg_fifo', announced', Target')
      <3>1. unheard' = (heap < DbgSize)
        BY <1>3 DEF MCNext
      <3>2. heap < DbgSize \/ heap >= DbgSize
        BY DEF Typed, DbgSize
      <3>3. QED
        BY <3>1, <3>2, Zenon DEF AnnounceInv
    <2>2. Debug!Post(<<"D", Toggled>>)
      BY <1>3, <2>1 DEF UartPost, Post, Allocate, Typed, DbgSize
    <2>3. Target' = ~dbg_on
      BY <1>3 DEF UartPost, Uart!PostToggle, Target
    <2>4. <<"D", Toggled>> = StateItem(Target')
      BY <2>3 DEF Toggled, StateItem, Typed
    <2>5. StateItem(Target') \in Debug!Messages
      BY DEF StateItem, Debug!Messages
    <2>6. taskdbg_fifo' = Append(taskdbg_fifo, StateItem(Target'))
      BY <2>2, <2>4 DEF Debug!Post
    <2>7. QED
      BY <1>1, <2>5, <2>6, TellsPosted
  <1>4. CASE MCNext /\ ~UartPost /\ ~DebugTask
    <2>1. Next
      BY <1>4 DEF MCNext
    <2>2. /\ Target' = Target /\ dpc' = dpc
          /\ \/ taskdbg_fifo' = taskdbg_fifo
             \/ \E m \in Debug!Messages : m[1] # "D" /\ taskdbg_fifo' = Append(taskdbg_fifo, m)
      BY <1>4, <2>1, OtherPosts
    <2>3. ~Debug!GetMessage
      BY <2>2 DEF Debug!GetMessage
    <2>4. announced' = announced /\ unheard' = unheard
      BY <1>4, <2>3 DEF MCNext
    <2>5. SUFFICES ASSUME ~unheard
                   PROVE  Tells(taskdbg_fifo', announced, Target)
      BY <2>2, <2>4 DEF AnnounceInv
    <2>6. Tells(taskdbg_fifo, announced, Target)
      BY <2>5 DEF AnnounceInv
    <2>7. QED
      BY <1>1, <2>2, <2>6, TellsOther
  <1>5. CASE MCNext /\ ~UartPost /\ DebugTask
    <2>1. Target' = Target
      BY <1>5 DEF DebugTask, uartVars, Target
    <2>2. unheard' = unheard
      BY <1>5 DEF MCNext
    <2>3. SUFFICES ASSUME ~unheard
                   PROVE  Tells(taskdbg_fifo', announced', Target)
      BY <2>1, <2>2 DEF AnnounceInv
    <2>4. Tells(taskdbg_fifo, announced, Target)
      BY <2>3 DEF AnnounceInv
    <2>5. CASE Debug!GetMessage
      <3>1. taskdbg_fifo # <<>> /\ taskdbg_fifo' = Tail(taskdbg_fifo)
        BY <2>5 DEF Debug!GetMessage
      <3>2. announced' = IF Head(taskdbg_fifo)[1] = "D"
                         THEN Head(taskdbg_fifo)[2] = "1" ELSE announced
        BY <1>5, <2>5 DEF MCNext
      <3>3. Target \in BOOLEAN
        BY DEF Target, Typed
      <3>4. QED
        BY <1>1, <2>4, <3>1, <3>2, <3>3, TellsPrinted
    <2>6. CASE ~Debug!GetMessage
      <3>1. announced' = announced
        BY <1>5, <2>6 DEF MCNext
      <3>2. taskdbg_fifo' = taskdbg_fifo
        BY <1>5, <2>6 DEF DebugTask, Debug!AddMeasure, Debug!Drained, Debug!FreeMessage,
                          Debug!FreeMeasure
      <3>3. QED
        BY <2>4, <3>1, <3>2
    <2>7. QED
      BY <2>5, <2>6
  <1>6. QED
    BY <1>2, <1>3, <1>4, <1>5

(* Whenever debug_task has printed everything, the last line about the     *)
(* debug state is true, unless the heap was full when D was typed: for     *)
(* every heap, every set of bytes typed and every interleaving.            *)
THEOREM LogIsTrue == MCSpec => []LogTellsState
  <1>1. MCInit => Init /\ AnnounceInv
    <2> SUFFICES ASSUME MCInit PROVE Init /\ AnnounceInv
      OBVIOUS
    <2>1. Init /\ announced = TRUE /\ taskdbg_fifo = <<>> /\ Target = TRUE
      BY DEF MCInit, Init, Debug!Init, Uart!Init, Target
    <2>2. NoStateIn(taskdbg_fifo)
      BY <2>1 DEF NoStateIn
    <2>3. QED
      BY <2>1, <2>2 DEF AnnounceInv, Tells
  <1>2. [MCNext]_mcVars => [Next]_vars
    BY DEF MCNext, mcVars
  <1>3. Typed /\ AnnounceInv /\ [MCNext]_mcVars => AnnounceInv'
    BY NextAnnounces
  <1>4. AnnounceInv => LogTellsState
    <2> SUFFICES ASSUME AnnounceInv, Idle, Debug!Waiting, ~unheard
                 PROVE  announced = dbg_on
      BY DEF LogTellsState
    <2>1. Target = dbg_on
      BY DEF Idle, Target
    <2>2. Tells(<<>>, announced, dbg_on)
      BY <2>1 DEF AnnounceInv, Debug!Waiting
    <2>3. QED
      BY <2>2 DEF Tells
  <1>5. QED
    BY <1>1, <1>2, <1>3, <1>4, InitTyped, NextTyped, PTL DEF MCSpec
=============================================================================
