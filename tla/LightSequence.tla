---------------------------- MODULE LightSequence ---------------------------
(***************************************************************************)
(* dispatcher_task and the LED tasks of main.c seen as one sequence: the   *)
(* colour taken from seq_fifo passes through the stages of its LED task,   *)
(* and the next is taken when it is done.  The triggers, the mutexes, the  *)
(* condition variables and the semaphore that make it so are LightDispatch *)
(* 's, which implements this module; TrafficLights builds on this one.     *)
(*                                                                         *)
(* The actions say where the code logs, allocates and frees; the modules   *)
(* that use this one join those calls to them.                             *)
(***************************************************************************)
EXTENDS Sequences

VARIABLES
  seq_fifo,   \* colours waiting for the dispatcher
  stage,      \* how far the present colour is
  colour,     \* the present colour, or the last one
  starting    \* where the LED tasks that have not begun their loop are

vars == <<seq_fifo, stage, colour, starting>>

Colours == {"R", "Y", "G"}

Stages == {"get", "trigger", "on_log", "on_put", "on", "glow",
           "off_log", "off_put", "off", "measure", "give", "release"}

Lit == {"glow", "off_log", "off_put", "off"}

Init == /\ seq_fifo = <<>>
        /\ stage = "get"
        /\ colour \in Colours                     \* none yet
        /\ starting = [c \in Colours |-> "log"]

Put(c) == /\ seq_fifo' = Append(seq_fifo, c)
          /\ UNCHANGED <<stage, colour, starting>>

(* The dispatcher takes an item, frees it and triggers its LED task. *)
Get == /\ stage = "get"
       /\ seq_fifo # <<>>
       /\ colour' = Head(seq_fifo)
       /\ seq_fifo' = Tail(seq_fifo)
       /\ stage' = "trigger"
       /\ UNCHANGED starting

Step(from, to) == /\ stage = from
                  /\ stage' = to
                  /\ UNCHANGED <<seq_fifo, colour, starting>>

(* The LED task, once it is in its loop, takes the trigger. *)
Begin == starting[colour] = "done" /\ Step("trigger", "on_log")

(* taskdbg_push reads dbg_on first: skip when off, else allocate and put.  *)
LogSkip  == Step("on_log", "on")     \/ Step("off_log", "off")
MutantLogCheck == Step("on_log", "on_put") \/ Step("off_log", "off")  \* OFF not logged
LogCheck == Step("on_log", "on_put") \/ Step("off_log", "off_put")
LogPut   == Step("on_put", "on")     \/ Step("off_put", "off")

SwitchOn  == Step("on", "glow")
Sleep     == Step("glow", "off_log")
SwitchOff == Step("off", "measure")
Measure   == Step("measure", "give")
MutantGive == Step("give", "trigger")   \* the trigger is not cleared
Give      == Step("give", "release")
Take      == Step("release", "get")

(* The LED task of c logs that it has started. *)
StartStep(c, from, to) == /\ starting[c] = from
                          /\ starting' = [starting EXCEPT ![c] = to]
                          /\ UNCHANGED <<seq_fifo, stage, colour>>

StartSkip(c)  == StartStep(c, "log", "done")
StartCheck(c) == StartStep(c, "log", "put")
StartPut(c)   == StartStep(c, "put", "done")

Serve == \/ Get \/ Begin \/ LogSkip \/ LogCheck \/ LogPut
         \/ SwitchOn \/ Sleep \/ SwitchOff \/ Measure \/ Give \/ Take

Start(c) == StartSkip(c) \/ StartCheck(c) \/ StartPut(c)

Next == \/ \E c \in Colours : Put(c) \/ Start(c)
        \/ Serve

Spec == Init /\ [][Next]_vars

FairSpec == Spec /\ WF_vars(Serve) /\ \A c \in Colours : WF_vars(Start(c))

TypeOK == /\ seq_fifo \in Seq(Colours)
          /\ stage \in Stages
          /\ colour \in Colours
          /\ starting \in [Colours -> {"log", "put", "done"}]

Glows(c) == stage \in Lit /\ colour = c

(* Every task sleeps or waits for another. *)
Blocked == /\ \/ stage = "glow"
              \/ stage = "get" /\ seq_fifo = <<>>
           /\ \A c \in Colours : starting[c] = "done"
=============================================================================
