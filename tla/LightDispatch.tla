---------------------------- MODULE LightDispatch ----------------------------
(***************************************************************************)
(* dispatcher_task and the three LED tasks of LIIKENNEVALOT/src/main.c:    *)
(* seq_fifo, the three trigger flags with their mutex and condition        *)
(* variable, release_sem and the two GPIO pins.  The red, yellow and green *)
(* tasks differ in their colour and pins only, so one set of actions,      *)
(* indexed by the colour, models the three of them.                        *)
(*                                                                         *)
(* A step of a thread is the code between two points where another thread  *)
(* could see a difference.  Code run while a mutex is held is one step     *)
(* where only the holder reads or writes what it touches; k_fifo_get and   *)
(* the k_free of the item are one step.  Which colours arrive, and when,   *)
(* is left to Put; whether debugging is on, to LogSkip and LogCheck.       *)
(*                                                                         *)
(* The initial state is the one main() leaves: main runs at priority 0 and *)
(* never blocks, so it returns before any priority 5 thread starts.        *)
(***************************************************************************)
EXTENDS Naturals, Sequences

CONSTANT MaxQueue   \* bound: items seq_fifo holds (the heap bounds it in the code)

ASSUME MaxQueueAssumption == MaxQueue \in Nat \ {0}

VARIABLES
  seq_fifo,      \* colours waiting for the dispatcher
  disp,          \* where dispatcher_task is
  ch,            \* the dispatcher's local copy of the item's colour
  mutex,         \* who holds red_mutex, yellow_mutex, green_mutex
  trig,          \* red_trig, yel_trig, grn_trig
  release_sem,   \* count of the semaphore, 0 or 1
  led,           \* where each LED task is
  pins           \* which GPIO pins are on

dispVars == <<seq_fifo, disp, ch>>
vars == <<seq_fifo, disp, ch, mutex, trig, release_sem, led, pins>>

Colours == {"R", "Y", "G"}

PinNames == {"red", "green"}

(* The pins that show a colour; yellow is both, written red first. *)
PinsOf(c) == {p \in PinNames : \/ p = "red" /\ c # "G"
                               \/ p = "green" /\ c # "R"}

FirstPin(c) == IF c = "G" THEN "green" ELSE "red"

DispStages == {"get", "lock", "set", "signal", "sem"}

(* An LED task is idle until it has taken its trigger. *)
Idle  == {"start", "start_put", "lock", "test", "wait", "wake"}
Unlit == {"on_log", "on_put", "on", "on2"}
Lit   == {"glow", "off_log", "off_put", "off"}
Done  == {"off2", "measure", "give"}
InService == Unlit \cup Lit \cup Done

(* The semaphore defined with a count of one. *)
MutantInit == /\ seq_fifo = <<>>
              /\ disp = "get"
              /\ ch \in Colours
              /\ mutex = [c \in Colours |-> "free"]
              /\ trig = [c \in Colours |-> FALSE]
              /\ release_sem = 1
              /\ led = [c \in Colours |-> "start"]
              /\ pins = [p \in PinNames |-> FALSE]

Init == /\ seq_fifo = <<>>
        /\ disp = "get"
        /\ ch \in Colours                    \* not yet assigned
        /\ mutex = [c \in Colours |-> "free"]
        /\ trig = [c \in Colours |-> FALSE]
        /\ release_sem = 0
        /\ led = [c \in Colours |-> "start"]
        /\ pins = [p \in PinNames |-> FALSE]
-----------------------------------------------------------------------------
(* A producer (uart_task, a button's work item, the timer's work item) puts *)
(* a colour.                                                                *)
Put(c) == /\ Len(seq_fifo) < MaxQueue
          /\ seq_fifo' = Append(seq_fifo, c)
          /\ UNCHANGED <<disp, ch, mutex, trig, release_sem, led, pins>>

(* dispatcher_task *)

(* The newest item first. *)
MutantGet == /\ disp = "get"
             /\ seq_fifo # <<>>
             /\ ch' = seq_fifo[Len(seq_fifo)]
             /\ seq_fifo' = SubSeq(seq_fifo, 1, Len(seq_fifo) - 1)
             /\ disp' = "lock"
             /\ UNCHANGED <<mutex, trig, release_sem, led, pins>>

DispatchGet == /\ disp = "get"
               /\ seq_fifo # <<>>
               /\ ch' = Head(seq_fifo)
               /\ seq_fifo' = Tail(seq_fifo)
               /\ disp' = "lock"
               /\ UNCHANGED <<mutex, trig, release_sem, led, pins>>

DispatchLock == /\ disp = "lock"
                /\ mutex[ch] = "free"
                /\ mutex' = [mutex EXCEPT ![ch] = "disp"]
                /\ disp' = "set"
                /\ UNCHANGED <<seq_fifo, ch, trig, release_sem, led, pins>>

DispatchSet == /\ disp = "set"
               /\ trig' = [trig EXCEPT ![ch] = TRUE]
               /\ disp' = "signal"
               /\ UNCHANGED <<seq_fifo, ch, mutex, release_sem, led, pins>>

(* k_condvar_signal wakes the LED task only if it is waiting; then unlock. *)
DispatchSignal == /\ disp = "signal"
                  /\ led' = [led EXCEPT ![ch] = IF @ = "wait" THEN "wake" ELSE @]
                  /\ mutex' = [mutex EXCEPT ![ch] = "free"]
                  /\ disp' = "sem"
                  /\ UNCHANGED <<seq_fifo, ch, trig, release_sem, pins>>

(* The dispatcher counts down without waiting. *)
MutantTake == /\ disp = "sem"
              /\ release_sem' = release_sem - 1
              /\ disp' = "get"
              /\ UNCHANGED <<seq_fifo, ch, mutex, trig, led, pins>>

DispatchTake == /\ disp = "sem"
                /\ release_sem > 0
                /\ release_sem' = release_sem - 1
                /\ disp' = "get"
                /\ UNCHANGED <<seq_fifo, ch, mutex, trig, led, pins>>

Dispatcher == \/ DispatchGet \/ DispatchLock \/ DispatchSet
              \/ DispatchSignal \/ DispatchTake
-----------------------------------------------------------------------------
(* The LED task of colour c. *)
Goto(c, from, to) == /\ led[c] = from
                     /\ led' = [led EXCEPT ![c] = to]

(* Steps that touch nothing else here, and steps that write one pin. *)
Local(c, from, to) == /\ Goto(c, from, to)
                      /\ UNCHANGED <<dispVars, mutex, trig, release_sem, pins>>

WritePin(c, from, to, p, level) == /\ Goto(c, from, to)
                                   /\ pins' = [pins EXCEPT ![p] = level]
                                   /\ UNCHANGED <<dispVars, mutex, trig, release_sem>>

(* Entering the loop, or leaving k_condvar_wait, takes the mutex. *)
Lock(c) == /\ Goto(c, "lock", "test") \/ Goto(c, "wake", "test")
           /\ mutex[c] = "free"
           /\ mutex' = [mutex EXCEPT ![c] = "led"]
           /\ UNCHANGED <<dispVars, trig, release_sem, pins>>

(* The task waits without looking at its trigger first. *)
MutantWait(c) == /\ Goto(c, "test", "wait")
                 /\ mutex' = [mutex EXCEPT ![c] = "free"]
                 /\ UNCHANGED <<dispVars, trig, release_sem, pins>>

(* k_condvar_wait releases the mutex and blocks in one step. *)
Wait(c) == /\ ~trig[c]
           /\ Goto(c, "test", "wait")
           /\ mutex' = [mutex EXCEPT ![c] = "free"]
           /\ UNCHANGED <<dispVars, trig, release_sem, pins>>

(* The task gives the semaphore when it starts; or it leaves its trigger.   *)
MutantEarlyGive(c) == /\ trig[c]
                      /\ Goto(c, "test", "on_log")
                      /\ trig' = [trig EXCEPT ![c] = FALSE]
                      /\ mutex' = [mutex EXCEPT ![c] = "free"]
                      /\ release_sem' = 1
                      /\ UNCHANGED <<dispVars, pins>>

MutantTakeTrigger(c) == /\ trig[c]
                        /\ Goto(c, "test", "on_log")
                        /\ mutex' = [mutex EXCEPT ![c] = "free"]
                        /\ UNCHANGED <<dispVars, trig, release_sem, pins>>

TakeTrigger(c) == /\ trig[c]
                  /\ Goto(c, "test", "on_log")
                  /\ trig' = [trig EXCEPT ![c] = FALSE]
                  /\ mutex' = [mutex EXCEPT ![c] = "free"]
                  /\ UNCHANGED <<dispVars, release_sem, pins>>

(* taskdbg_push reads dbg_on first: skip when off, else allocate and put.  *)
LogSkip(c) == \/ Local(c, "start", "lock")
              \/ Local(c, "on_log", "on")
              \/ Local(c, "off_log", "off")

LogCheck(c) == \/ Local(c, "start", "start_put")
               \/ Local(c, "on_log", "on_put")
               \/ Local(c, "off_log", "off_put")

(* The first message of a task is never put. *)
MutantLogPut(c) == \/ Local(c, "start_put", "start_put")
                   \/ Local(c, "on_put", "on")
                   \/ Local(c, "off_put", "off")

LogPut(c) == \/ Local(c, "start_put", "lock")
             \/ Local(c, "on_put", "on")
             \/ Local(c, "off_put", "off")

(* yellow_led_task writes the red pin first and the green pin second. *)
SwitchOn(c) ==
  \/ WritePin(c, "on", IF c = "Y" THEN "on2" ELSE "glow", FirstPin(c), TRUE)
  \/ WritePin(c, "on2", "glow", "green", TRUE)

(* The second pin of yellow stays on. *)
MutantSwitchOff(c) == WritePin(c, "off", "measure", FirstPin(c), FALSE)

SwitchOff(c) ==
  \/ WritePin(c, "off", IF c = "Y" THEN "off2" ELSE "measure", FirstPin(c), FALSE)
  \/ WritePin(c, "off2", "measure", "green", FALSE)

(* The task sleeps for ever; or it does not log that it switches off. *)
MutantSleep(c) == Local(c, "glow", "glow")
MutantSleepNoLog(c) == Local(c, "glow", "off")

(* k_msleep(LIGHT_MS) returns. *)
Sleep(c) == Local(c, "glow", "off_log")

(* The measurement goes to meas_fifo, or is dropped when the heap is full. *)
Measure(c) == Local(c, "measure", "give")

(* K_SEM_DEFINE(release_sem, 0, 1): a give at the limit is lost. *)
Give(c) == /\ Goto(c, "give", "lock")
           /\ release_sem' = IF release_sem < 1 THEN release_sem + 1 ELSE release_sem
           /\ UNCHANGED <<dispVars, mutex, trig, pins>>

LedTask(c) == \/ Lock(c) \/ Wait(c) \/ TakeTrigger(c)
              \/ LogSkip(c) \/ LogCheck(c) \/ LogPut(c)
              \/ SwitchOn(c) \/ Sleep(c) \/ SwitchOff(c)
              \/ Measure(c) \/ Give(c)

Next == \/ \E c \in Colours : Put(c)
        \/ Dispatcher
        \/ \E c \in Colours : LedTask(c)

Spec == Init /\ [][Next]_vars

(* The threads have equal priority, block only where modelled and share    *)
(* the CPU, so each of them runs again; producers may fall silent.         *)
Fairness == WF_vars(Dispatcher) /\ \A c \in Colours : WF_vars(LedTask(c))

FairSpec == Spec /\ Fairness
-----------------------------------------------------------------------------
TypeOK == /\ seq_fifo \in Seq(Colours)
          /\ disp \in DispStages
          /\ ch \in Colours
          /\ mutex \in [Colours -> {"free", "led", "disp"}]
          /\ trig \in [Colours -> BOOLEAN]
          /\ release_sem \in 0..1
          /\ led \in [Colours -> Idle \cup InService]
          /\ pins \in [PinNames -> BOOLEAN]

(* The red pin is shared by two tasks and the green pin by two: no two     *)
(* tasks are ever past their trigger together (release_sem serialises      *)
(* them, main.c:352,380).                                                  *)
OneInService == \A c, d \in Colours :
                  led[c] \in InService /\ led[d] \in InService => c = d

(* While an LED task sleeps, the pins show its colour and no other; when   *)
(* no task is in service both pins are off.                                *)
LampShowsTask ==
  /\ \A c \in Colours :
       led[c] \in Lit => \A p \in PinNames : pins[p] = (p \in PinsOf(c))
  /\ (\A c \in Colours : led[c] \in Idle) => \A p \in PinNames : ~pins[p]

(* No wakeup is lost: a task blocked in k_condvar_wait whose trigger is    *)
(* set is about to be signalled by the dispatcher, which holds its mutex.  *)
NoLostWakeup == \A c \in Colours :
                  led[c] = "wait" /\ trig[c] => disp = "signal" /\ ch = c

(* No handover is lost: the dispatcher never sets a trigger that is set    *)
(* still (two commands would light once), and k_sem_give never finds the   *)
(* semaphore at its limit (the dispatcher would wait for ever).            *)
NoLostHandover ==
  /\ disp = "set" => ~trig[ch]
  /\ (\E c \in Colours : led[c] = "give") => release_sem = 0
-----------------------------------------------------------------------------
(* The inductive invariant behind the four properties.  Exactly one token  *)
(* exists: the dispatcher has it, or it is in the trigger of the           *)
(* dispatcher's last colour, or with that colour's task, or in the         *)
(* semaphore.                                                              *)
Quiet(c) == ~trig[c] /\ led[c] \in Idle

OneToken ==
  /\ \A c \in Colours \ {ch} : Quiet(c)
  /\ disp \in {"get", "lock", "set"} => release_sem = 0 /\ Quiet(ch)
  /\ disp = "signal" => release_sem = 0 /\ trig[ch] /\ led[ch] \in Idle
  /\ disp = "sem" => \/ release_sem = 1 /\ Quiet(ch)
                     \/ release_sem = 0 /\ trig[ch] /\ led[ch] \in Idle
                     \/ release_sem = 0 /\ ~trig[ch] /\ led[ch] \in InService

(* A mutex is held exactly by the code between its lock and its unlock.    *)
MutexHeld == \A c \in Colours :
               /\ mutex[c] = "led" <=> led[c] = "test"
               /\ mutex[c] = "disp" <=> disp \in {"set", "signal"} /\ ch = c

(* A pin is on exactly while a task that owns it stands between writing it *)
(* high and writing it low.                                                *)
Drives(c, p) == \/ led[c] \in Lit /\ p \in PinsOf(c)
                \/ led[c] = "on2" /\ p = "red"
                \/ led[c] = "off2" /\ p = "green"

PinsDriven == /\ \A p \in PinNames : pins[p] <=> \E c \in Colours : Drives(c, p)
              /\ \A c \in Colours : led[c] \in {"on2", "off2"} => c = "Y"

IInv == TypeOK /\ OneToken /\ MutexHeld /\ PinsDriven /\ NoLostWakeup
-----------------------------------------------------------------------------
(* LightDispatch implements LightService: a colour counts as shown while   *)
(* its task is in Lit, and as accepted from Put until then.                *)
Shown == IF \E c \in Colours : led[c] \in Lit
         THEN CHOOSE c \in Colours : led[c] \in Lit
         ELSE "dark"

InHand == \/ disp \in {"lock", "set", "signal"}
          \/ disp = "sem" /\ (trig[ch] \/ led[ch] \in Unlit)

Pending == (IF InHand THEN <<ch>> ELSE <<>>) \o seq_fifo

Service == INSTANCE LightService WITH queue <- Pending, shown <- Shown,
                                      Dark <- "dark"

(* Every colour put into seq_fifo is shown exactly once, in order, with    *)
(* darkness between two colours.                                           *)
ImplementsService == Service!Spec

(* Every accepted colour is shown in the end, and every light goes out.    *)
ServiceLive == Service!FairSpec

(* LightDispatch also implements LightSequence, stage by stage.            *)
LedStage == IF led[ch] = "on2" THEN "on"
            ELSE IF led[ch] = "off2" THEN "off"
            ELSE led[ch]

StageOf == IF disp = "get" THEN "get"
           ELSE IF disp = "sem" /\ release_sem = 1 THEN "release"
           ELSE IF disp # "sem" \/ led[ch] \in Idle THEN "trigger"
           ELSE LedStage

StartingOf == [c \in Colours |-> IF led[c] = "start" THEN "log"
                                 ELSE IF led[c] = "start_put" THEN "put"
                                 ELSE "done"]

Sequence == INSTANCE LightSequence WITH stage <- StageOf, colour <- ch,
                                        starting <- StartingOf

(* The items are allocated, logged, measured and freed in the order of     *)
(* LightSequence: no two tasks ever interleave theirs (main.c:318-440).    *)
ImplementsSequence == Sequence!Spec

(* And each stage is reached: no step of the hand-shake can stall.         *)
SequenceLive == Sequence!FairSpec
=============================================================================
