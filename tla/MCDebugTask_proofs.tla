------------------------ MODULE MCDebugTask_proofs -------------------------
(***************************************************************************)
(* TotalsOfThree, for every number of measurements and messages and every  *)
(* interleaving of the tasks that put them with debug_task.                *)
(***************************************************************************)
EXTENDS MCDebugTask, SequenceTheorems, TLAPS

(* The inductive invariant behind it, element by element.                  *)
SumTyped == /\ put \in Seq(Nat) /\ meas_fifo \in Seq(Nat)
            /\ totals \in Seq(Seq(Nat))
            /\ seq_sum \in Seq(Nat) /\ Len(seq_sum) = seq_count /\ seq_count \in 0..2

AllCounted == Len(put) = 3 * Len(totals) + Len(seq_sum) + Len(meas_fifo)

TotalsFollow ==
  \A i \in 1..Len(totals) :
    Len(totals[i]) = 3 /\ \A j \in 1..3 : totals[i][j] = put[3 * (i - 1) + j]

SumFollows == \A j \in 1..Len(seq_sum) : seq_sum[j] = put[3 * Len(totals) + j]

QueueFollows ==
  \A j \in 1..Len(meas_fifo) : meas_fifo[j] = put[3 * Len(totals) + Len(seq_sum) + j]

MeasInv == SumTyped /\ AllCounted /\ TotalsFollow /\ SumFollows /\ QueueFollows

LEMMA InitMeasInv == MCInit => MeasInv
  BY EmptySeq DEF MCInit, Init, MeasInv, SumTyped, AllCounted, TotalsFollow, SumFollows,
     QueueFollows

(* A measurement is put behind the others. *)
LEMMA PutMeasInv ==
  ASSUME MeasInv, MCPut
  PROVE  MeasInv'
  <1> DEFINE m == Len(put) + 1
  <1>1. /\ put' = Append(put, m) /\ meas_fifo' = Append(meas_fifo, m)
        /\ UNCHANGED <<seq_sum, seq_count, totals>>
    BY DEF MCPut, PutMeasure
  <1>2. /\ put \in Seq(Nat) /\ meas_fifo \in Seq(Nat) /\ seq_sum \in Seq(Nat)
        /\ totals \in Seq(Seq(Nat)) /\ m \in Nat
    BY DEF MeasInv, SumTyped
  <1> HIDE DEF m
  <1>3. /\ put' \in Seq(Nat) /\ Len(put') = Len(put) + 1
        /\ \A j \in 1..Len(put) : put'[j] = put[j]
        /\ put'[Len(put) + 1] = m
    BY <1>1, <1>2, AppendProperties
  <1>4. /\ meas_fifo' \in Seq(Nat) /\ Len(meas_fifo') = Len(meas_fifo) + 1
        /\ \A j \in 1..Len(meas_fifo) : meas_fifo'[j] = meas_fifo[j]
        /\ meas_fifo'[Len(meas_fifo) + 1] = m
    BY <1>1, <1>2, AppendProperties
  <1>5. /\ Len(put) \in Nat /\ Len(totals) \in Nat /\ Len(seq_sum) \in Nat
        /\ Len(meas_fifo) \in Nat
    BY <1>2, LenProperties
  <1>6. Len(put) = 3 * Len(totals) + Len(seq_sum) + Len(meas_fifo)
    BY DEF MeasInv, AllCounted
  <1>7. SumTyped' /\ AllCounted'
    BY <1>1, <1>3, <1>4, <1>5, <1>6 DEF MeasInv, SumTyped, AllCounted
  <1>8. TotalsFollow'
    <2> SUFFICES ASSUME NEW i \in 1..Len(totals)
                 PROVE  /\ Len(totals[i]) = 3
                        /\ \A j \in 1..3 : totals[i][j] = put'[3 * (i - 1) + j]
      BY <1>1 DEF TotalsFollow
    <2>1. ASSUME NEW j \in 1..3 PROVE 3 * (i - 1) + j \in 1..Len(put)
      BY <1>5, <1>6
    <2>2. QED
      BY <1>3, <2>1 DEF MeasInv, TotalsFollow
  <1>9. SumFollows'
    <2> SUFFICES ASSUME NEW j \in 1..Len(seq_sum)
                 PROVE  seq_sum[j] = put'[3 * Len(totals) + j]
      BY <1>1 DEF SumFollows
    <2>1. 3 * Len(totals) + j \in 1..Len(put)
      BY <1>5, <1>6
    <2>2. QED
      BY <1>3, <2>1 DEF MeasInv, SumFollows
  <1>10. QueueFollows'
    <2> SUFFICES ASSUME NEW j \in 1..Len(meas_fifo')
                 PROVE  meas_fifo'[j] = put'[3 * Len(totals) + Len(seq_sum) + j]
      BY <1>1 DEF QueueFollows
    <2>1. CASE j = Len(meas_fifo) + 1
      <3>1. 3 * Len(totals) + Len(seq_sum) + j = Len(put) + 1
        BY <1>5, <1>6, <2>1
      <3>2. QED
        BY <1>3, <1>4, <2>1, <3>1
    <2>2. CASE j # Len(meas_fifo) + 1
      <3>1. j \in 1..Len(meas_fifo) /\ 3 * Len(totals) + Len(seq_sum) + j \in 1..Len(put)
        BY <1>4, <1>5, <1>6, <2>2
      <3>2. QED
        BY <1>3, <1>4, <3>1 DEF MeasInv, QueueFollows
    <2>3. QED
      BY <2>1, <2>2
  <1>11. QED
    BY <1>7, <1>8, <1>9, <1>10 DEF MeasInv

(* debug_task adds the first measurement of the queue: to the sum, or to a *)
(* total of three, which it prints.                                        *)
LEMMA AddMeasInv ==
  ASSUME MeasInv, MCAdd
  PROVE  MeasInv'
  <1>1. /\ put \in Seq(Nat) /\ meas_fifo \in Seq(Nat) /\ seq_sum \in Seq(Nat)
        /\ totals \in Seq(Seq(Nat)) /\ Len(seq_sum) = seq_count /\ seq_count \in 0..2
    BY DEF MeasInv, SumTyped
  <1>2. /\ meas_fifo # <<>> /\ meas_fifo' = Tail(meas_fifo) /\ UNCHANGED put
    BY DEF MCAdd, AddMeasure
  <1> DEFINE m == Head(meas_fifo)
             sum == Append(seq_sum, m)
  <1>3. /\ m \in Nat /\ m = meas_fifo[1] /\ meas_fifo' \in Seq(Nat)
        /\ Len(meas_fifo) = Len(meas_fifo') + 1
        /\ \A j \in 1..Len(meas_fifo') : meas_fifo'[j] = meas_fifo[j + 1]
    BY <1>1, <1>2, HeadTailProperties
  <1> HIDE DEF m
  <1>4. /\ sum \in Seq(Nat) /\ Len(sum) = Len(seq_sum) + 1
        /\ \A j \in 1..Len(seq_sum) : sum[j] = seq_sum[j]
        /\ sum[Len(seq_sum) + 1] = m
    BY <1>1, <1>3, AppendProperties
  <1>5. /\ Len(put) \in Nat /\ Len(totals) \in Nat /\ Len(seq_sum) \in Nat
        /\ Len(meas_fifo) \in Nat /\ Len(meas_fifo') \in Nat
    BY <1>1, <1>3, LenProperties
  <1>6. Len(put) = 3 * Len(totals) + Len(seq_sum) + Len(meas_fifo)
    BY DEF MeasInv, AllCounted
  <1>7. \A j \in 1..Len(sum) : sum[j] = put[3 * Len(totals) + j]
    <2>1. m = put[3 * Len(totals) + Len(seq_sum) + 1]
      BY <1>3, <1>5 DEF MeasInv, QueueFollows
    <2>2. \A j \in 1..Len(seq_sum) : sum[j] = put[3 * Len(totals) + j]
      BY <1>4 DEF MeasInv, SumFollows
    <2>3. ASSUME NEW j \in 1..Len(sum) PROVE sum[j] = put[3 * Len(totals) + j]
      <3>1. CASE j = Len(seq_sum) + 1
        <4>1. 3 * Len(totals) + j = 3 * Len(totals) + Len(seq_sum) + 1
          BY <1>5, <3>1
        <4>2. QED
          BY <1>4, <2>1, <3>1, <4>1
      <3>2. CASE j # Len(seq_sum) + 1
        BY <1>4, <1>5, <2>2, <3>2
      <3>3. QED
        BY <3>1, <3>2
    <2>4. QED
      BY <2>3
  <1>8. \A j \in 1..Len(meas_fifo') :
          meas_fifo'[j] = put[3 * Len(totals) + Len(sum) + j]
    BY <1>3, <1>4, <1>5 DEF MeasInv, QueueFollows
  <1> HIDE DEF sum
  <1>9. CASE seq_count + 1 = 3
    <2>1. seq_count' = 0 /\ seq_sum' = <<>> /\ totals' = Append(totals, sum)
      BY <1>9 DEF MCAdd, AddMeasure, sum, m
    <2>2. /\ totals' \in Seq(Seq(Nat)) /\ Len(totals') = Len(totals) + 1
          /\ \A i \in 1..Len(totals) : totals'[i] = totals[i]
          /\ totals'[Len(totals) + 1] = sum
      BY <1>1, <1>4, <2>1, AppendProperties
    <2>3. seq_sum' \in Seq(Nat) /\ Len(seq_sum') = 0
      BY <2>1, EmptySeq
    <2>4. Len(sum) = 3
      BY <1>1, <1>4, <1>9
    <2>5. SumTyped' /\ SumFollows'
      BY <1>1, <1>2, <1>3, <2>1, <2>2, <2>3 DEF SumTyped, SumFollows
    <2>5a. AllCounted'
      <3>1. Len(put) = 3 * (Len(totals) + 1) + 0 + Len(meas_fifo')
        <4>1. Len(seq_sum) = 2
          BY <1>1, <1>9
        <4>2. QED
          BY <1>3, <1>5, <1>6, <4>1
      <3>2. QED
        BY <1>2, <2>2, <2>3, <3>1 DEF AllCounted
    <2>6. TotalsFollow'
      <3>1. \A i \in 1..Len(totals) :
              Len(totals'[i]) = 3 /\ \A j \in 1..3 : totals'[i][j] = put[3 * (i - 1) + j]
        BY <2>2 DEF MeasInv, TotalsFollow
      <3>2. /\ Len(totals'[Len(totals) + 1]) = 3
            /\ \A j \in 1..3 :
                 totals'[Len(totals) + 1][j] = put[3 * (Len(totals) + 1 - 1) + j]
        BY <1>5, <1>7, <2>2, <2>4
      <3>3. ASSUME NEW i \in 1..Len(totals')
            PROVE  Len(totals'[i]) = 3 /\ \A j \in 1..3 : totals'[i][j] = put[3 * (i - 1) + j]
        <4>1. CASE i = Len(totals) + 1
          BY <3>2, <4>1
        <4>2. CASE i # Len(totals) + 1
          BY <1>5, <2>2, <3>1, <4>2
        <4>3. QED
          BY <4>1, <4>2
      <3>4. QED
        BY <1>2, <3>3 DEF TotalsFollow
    <2>7. QueueFollows'
      BY <1>2, <1>5, <1>8, <2>2, <2>3, <2>4 DEF QueueFollows
    <2>8. QED
      BY <2>5, <2>6, <2>7, <2>5a DEF MeasInv
  <1>10. CASE seq_count + 1 # 3
    <2>1. seq_count' = seq_count + 1 /\ seq_sum' = sum /\ UNCHANGED totals
      BY <1>1, <1>10 DEF MCAdd, AddMeasure, sum, m
    <2>2. SumTyped'
      BY <1>1, <1>2, <1>3, <1>4, <1>10, <2>1 DEF SumTyped
    <2>5. AllCounted'
      BY <1>2, <1>3, <1>4, <1>5, <1>6, <2>1 DEF AllCounted
    <2>3. TotalsFollow' /\ SumFollows' /\ QueueFollows'
      BY <1>2, <1>7, <1>8, <2>1 DEF MeasInv, TotalsFollow, SumFollows, QueueFollows
    <2>4. QED
      BY <2>2, <2>3, <2>5 DEF MeasInv
  <1>11. QED
    BY <1>9, <1>10

LEMMA NextMeasInv ==
  ASSUME MeasInv, [MCNext]_mcVars
  PROVE  MeasInv'
  <1>1. CASE UNCHANGED <<meas_fifo, seq_count, seq_sum, put, totals>>
    BY <1>1 DEF MeasInv, SumTyped, AllCounted, TotalsFollow, SumFollows, QueueFollows
  <1>2. CASE MCPost
    BY <1>1, <1>2 DEF MCPost, Post
  <1>3. CASE (GetMessage \/ FreeMessage \/ FreeMeasure \/ Drained) /\ UNCHANGED <<put, totals>>
    BY <1>1, <1>3 DEF GetMessage, FreeMessage, FreeMeasure, Drained
  <1>4. CASE UNCHANGED mcVars
    BY <1>1, <1>4 DEF mcVars, vars
  <1>5. QED
    BY <1>2, <1>3, <1>4, PutMeasInv, AddMeasInv DEF MCNext

(* The measurements from m to n of a sequence of them. *)
LEMMA PartOf ==
  ASSUME NEW s \in Seq(Nat), NEW m \in Nat \ {0}, NEW k \in Nat, NEW n \in Nat,
         n <= Len(s), m + k = n + 1
  PROVE  /\ SubSeq(s, m, n) \in Seq(Nat) /\ Len(SubSeq(s, m, n)) = k
         /\ \A j \in 1..k : SubSeq(s, m, n)[j] = s[m + j - 1]
  <1>1. \A j \in m..n : s[j] \in Nat
    OBVIOUS
  <1>2. /\ SubSeq(s, m, n) \in Seq(Nat)
        /\ Len(SubSeq(s, m, n)) = IF m <= n THEN n - m + 1 ELSE 0
        /\ \A j \in 1..n - m + 1 : SubSeq(s, m, n)[j] = s[m + j - 1]
    BY <1>1, SubSeqProperties
  <1>3. n - m + 1 = k /\ (m > n => k = 0)
    OBVIOUS
  <1>4. QED
    BY <1>2, <1>3

(* The invariant, read as sequences. *)
LEMMA MeasInvTotals == MeasInv => TotalsOfThree
  <1> SUFFICES ASSUME MeasInv PROVE TotalsOfThree
    OBVIOUS
  <1>1. /\ put \in Seq(Nat) /\ meas_fifo \in Seq(Nat) /\ seq_sum \in Seq(Nat)
        /\ totals \in Seq(Seq(Nat))
    BY DEF MeasInv, SumTyped
  <1>2. /\ Len(put) \in Nat /\ Len(totals) \in Nat /\ Len(seq_sum) \in Nat
        /\ Len(meas_fifo) \in Nat /\ DOMAIN totals = 1..Len(totals)
    BY <1>1, LenProperties
  <1>3. Len(put) = 3 * Len(totals) + Len(seq_sum) + Len(meas_fifo)
    BY DEF MeasInv, AllCounted
  <1>4. ASSUME NEW i \in DOMAIN totals
        PROVE  totals[i] = SubSeq(put, 3 * i - 2, 3 * i)
    <2> DEFINE part == SubSeq(put, 3 * i - 2, 3 * i)
    <2>1. i \in 1..Len(totals) /\ totals[i] \in Seq(Nat)
      BY <1>1, <1>2, <1>4
    <2>2. /\ part \in Seq(Nat) /\ Len(part) = 3
          /\ \A j \in 1..3 : part[j] = put[3 * i - 2 + j - 1]
      <3> DEFINE m == 3 * i - 2
                 n == 3 * i
                 k == 3
      <3>1. /\ m \in Nat \ {0} /\ n \in Nat /\ k \in Nat
            /\ n <= Len(put) /\ m + k = n + 1
        BY <1>2, <1>3, <2>1
      <3> HIDE DEF m, n, k
      <3>2. /\ SubSeq(put, m, n) \in Seq(Nat) /\ Len(SubSeq(put, m, n)) = k
            /\ \A j \in 1..k : SubSeq(put, m, n)[j] = put[m + j - 1]
        BY <1>1, <3>1, PartOf
      <3>3. QED
        BY <3>2 DEF m, n, k
    <2>3. Len(totals[i]) = 3 /\ \A j \in 1..3 : totals[i][j] = put[3 * (i - 1) + j]
      BY <2>1 DEF MeasInv, TotalsFollow
    <2>4. \A j \in 1..3 : totals[i][j] = part[j]
      <3> SUFFICES ASSUME NEW j \in 1..3 PROVE totals[i][j] = part[j]
        OBVIOUS
      <3>1. 3 * i - 2 + j - 1 = 3 * (i - 1) + j
        BY <1>2, <2>1
      <3>2. QED
        BY <2>2, <2>3, <3>1
    <2> HIDE DEF part
    <2>5. totals[i] = part
      BY <2>1, <2>2, <2>3, <2>4, SeqEqual
    <2>6. QED
      BY <2>5 DEF part
  <1>5. seq_sum \o meas_fifo = SubSeq(put, 3 * Len(totals) + 1, Len(put))
    <2> DEFINE part == SubSeq(put, 3 * Len(totals) + 1, Len(put))
               rest == seq_sum \o meas_fifo
               n == Len(seq_sum) + Len(meas_fifo)
    <2>1. /\ rest \in Seq(Nat) /\ Len(rest) = n
          /\ \A j \in 1..Len(seq_sum) : rest[j] = seq_sum[j]
          /\ \A j \in 1..Len(meas_fifo) : rest[Len(seq_sum) + j] = meas_fifo[j]
      BY <1>1, ConcatProperties
    <2>2. /\ part \in Seq(Nat) /\ Len(part) = n
          /\ \A j \in 1..n : part[j] = put[3 * Len(totals) + j]
      <3>1. /\ 3 * Len(totals) + 1 \in Nat \ {0} /\ n \in Nat
            /\ 3 * Len(totals) + 1 + n = Len(put) + 1
        BY <1>2, <1>3
      <3> HIDE DEF n
      <3>2. /\ part \in Seq(Nat) /\ Len(part) = n
            /\ \A j \in 1..n : part[j] = put[3 * Len(totals) + 1 + j - 1]
        BY <1>1, <1>2, <3>1, PartOf
      <3>3. \A j \in 1..n : 3 * Len(totals) + 1 + j - 1 = 3 * Len(totals) + j
        BY <1>2, <3>1
      <3>4. QED
        BY <3>2, <3>3
    <2>3. \A j \in 1..n : rest[j] = part[j]
      <3> SUFFICES ASSUME NEW j \in 1..n PROVE rest[j] = part[j]
        OBVIOUS
      <3> HIDE DEF rest, part
      <3>1. CASE j <= Len(seq_sum)
        <4>1. j \in 1..Len(seq_sum)
          BY <1>2, <3>1 DEF n
        <4> HIDE DEF n
        <4>2. rest[j] = seq_sum[j] /\ seq_sum[j] = put[3 * Len(totals) + j]
          BY <2>1, <4>1 DEF MeasInv, SumFollows
        <4>3. QED
          BY <2>2, <4>2
      <3>2. CASE j > Len(seq_sum)
        <4> DEFINE k == j - Len(seq_sum)
        <4>1. k \in 1..Len(meas_fifo) /\ j = Len(seq_sum) + k
          BY <1>2, <3>2 DEF n
        <4>2. rest[j] = meas_fifo[k]
          BY <2>1, <4>1
        <4>3. meas_fifo[k] = put[3 * Len(totals) + Len(seq_sum) + k]
          BY <4>1 DEF MeasInv, QueueFollows
        <4> HIDE DEF k
        <4>4. 3 * Len(totals) + Len(seq_sum) + k = 3 * Len(totals) + j
          BY <1>2, <4>1
        <4>5. QED
          BY <2>2, <4>2, <4>3, <4>4
      <3>3. QED
        BY <1>2, <3>1, <3>2
    <2> HIDE DEF rest, part, n
    <2>4. rest = part
      BY <2>1, <2>2, <2>3, SeqEqual
    <2>5. QED
      BY <2>4 DEF rest, part
  <1>6. QED
    BY <1>4, <1>5 DEF TotalsOfThree

(* "Total (3 tasks)" (main.c:488) is always of three lights that followed  *)
(* one another, and no measurement is counted twice or left out, however   *)
(* many are put and whenever debug_task drains its queue.                  *)
THEOREM Totals == MCSpec => []TotalsOfThree
  <1>1. MeasInv /\ [MCNext]_mcVars => MeasInv'
    BY NextMeasInv
  <1>2. QED
    BY InitMeasInv, <1>1, MeasInvTotals, PTL DEF MCSpec
=============================================================================
