---------------------------- MODULE LightService ----------------------------
(***************************************************************************)
(* What the traffic light promises to whoever puts a colour into seq_fifo: *)
(* every accepted colour is shown once, in the order of acceptance, one at *)
(* a time, and the lights are dark between two colours.  LightDispatch     *)
(* implements it.                                                          *)
(***************************************************************************)
EXTENDS Sequences

CONSTANTS Colours,
          Dark        \* not a colour

VARIABLES queue,   \* colours accepted and not yet shown
          shown    \* the colour shown, or Dark

vars == <<queue, shown>>

Init == /\ queue = <<>>
        /\ shown = Dark

Accept(c) == /\ queue' = Append(queue, c)
             /\ UNCHANGED shown

Light == /\ shown = Dark
         /\ queue # <<>>
         /\ shown' = Head(queue)
         /\ queue' = Tail(queue)

Dim == /\ shown # Dark
       /\ shown' = Dark
       /\ UNCHANGED queue

Next == (\E c \in Colours : Accept(c)) \/ Light \/ Dim

Spec == Init /\ [][Next]_vars

FairSpec == Spec /\ WF_vars(Light) /\ WF_vars(Dim)
=============================================================================
