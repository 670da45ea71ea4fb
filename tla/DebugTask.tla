----------------------------- MODULE DebugTask ------------------------------
(***************************************************************************)
(* debug_task of LIIKENNEVALOT/src/main.c with the two queues it empties:  *)
(* it prints one message of taskdbg_fifo, waiting for it, then every       *)
(* measurement of meas_fifo, without waiting, and adds up the total of     *)
(* each three.                                                             *)
(***************************************************************************)
EXTENDS Naturals, Sequences

VARIABLES
  taskdbg_fifo,   \* messages <<ev, col>>
  meas_fifo,      \* measurements
  dpc,            \* where the task is
  seq_count,      \* measurements in the present total
  seq_sum         \* seq_sum_us, as the sequence of measurements it adds up

vars == <<taskdbg_fifo, meas_fifo, dpc, seq_count, seq_sum>>

Init == /\ taskdbg_fifo = <<>>
        /\ meas_fifo = <<>>
        /\ dpc = "get"
        /\ seq_count = 0
        /\ seq_sum = <<>>

(* The other tasks' k_fifo_put. *)
Post(m) == /\ taskdbg_fifo' = Append(taskdbg_fifo, m)
           /\ UNCHANGED <<meas_fifo, dpc, seq_count, seq_sum>>

PutMeasure(mm) == /\ meas_fifo' = Append(meas_fifo, mm)
                  /\ UNCHANGED <<taskdbg_fifo, dpc, seq_count, seq_sum>>

(* k_fifo_get with K_FOREVER. *)
GetMessage == /\ dpc = "get"
              /\ taskdbg_fifo # <<>>
              /\ taskdbg_fifo' = Tail(taskdbg_fifo)
              /\ dpc' = "print"
              /\ UNCHANGED <<meas_fifo, seq_count, seq_sum>>

(* printk of the message, k_free. *)
FreeMessage == /\ dpc = "print"
               /\ dpc' = "drain"
               /\ UNCHANGED <<taskdbg_fifo, meas_fifo, seq_count, seq_sum>>

(* The sum is not reset with the count. *)
MutantAddMeasure == /\ dpc = "drain"
                    /\ meas_fifo # <<>>
                    /\ meas_fifo' = Tail(meas_fifo)
                    /\ seq_count' = (seq_count + 1) % 3
                    /\ seq_sum' = Append(seq_sum, Head(meas_fifo))
                    /\ dpc' = "added"
                    /\ UNCHANGED taskdbg_fifo

(* k_fifo_get with K_NO_WAIT finds a measurement: add it. *)
AddMeasure == /\ dpc = "drain"
              /\ meas_fifo # <<>>
              /\ meas_fifo' = Tail(meas_fifo)
              /\ IF seq_count + 1 = 3
                 THEN seq_count' = 0 /\ seq_sum' = <<>>
                 ELSE /\ seq_count' = seq_count + 1
                      /\ seq_sum' = Append(seq_sum, Head(meas_fifo))
              /\ dpc' = "added"
              /\ UNCHANGED taskdbg_fifo

FreeMeasure == /\ dpc = "added"
               /\ dpc' = "drain"
               /\ UNCHANGED <<taskdbg_fifo, meas_fifo, seq_count, seq_sum>>

(* It finds none: k_yield and wait again. *)
Drained == /\ dpc = "drain"
           /\ meas_fifo = <<>>
           /\ dpc' = "get"
           /\ UNCHANGED <<taskdbg_fifo, meas_fifo, seq_count, seq_sum>>

Waiting == dpc = "get" /\ taskdbg_fifo = <<>>

Messages == {"S", "1", "0", "D"} \X {"R", "Y", "G", "1", "0"}

TypeOK == /\ taskdbg_fifo \in Seq(Messages)
          /\ meas_fifo \in Seq({"R", "Y", "G"})
          /\ dpc \in {"get", "print", "drain", "added"}
          /\ seq_sum \in Seq({"R", "Y", "G"})
          /\ Len(seq_sum) = seq_count /\ seq_count \in 0..2
=============================================================================
