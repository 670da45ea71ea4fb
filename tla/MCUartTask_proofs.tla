------------------------- MODULE MCUartTask_proofs --------------------------
(***************************************************************************)
(* The framing of uart_task, for every string of bytes, however long, over *)
(* every alphabet: what the task has done is what the string says.         *)
(***************************************************************************)
EXTENDS MCUartTask, SequenceTheorems, WellFoundedInduction, TLAPS

(* The least-number principle, and induction downwards from N.             *)
LEMMA LeastNumber ==
  ASSUME NEW T \in SUBSET Nat, T # {}
  PROVE  \E x \in T : \A y \in T : x <= y
  <1>1. IsWellFoundedOn(OpToRel(<, Nat), Nat)
    BY NatLessThanWellFounded
  <1> DEFINE R == OpToRel(<, Nat)
  <1> HIDE DEF R
  <1>2. PICK x \in T : \A y \in T : ~ (<<y, x>> \in R)
    BY <1>1, WFMin DEF R
  <1>3. \A y \in T : x <= y
    <2> SUFFICES ASSUME NEW y \in T, y < x PROVE FALSE
      OBVIOUS
    <2>1. <<y, x>> \in R
      BY DEF R, OpToRel
    <2>2. QED
      BY <1>2, <2>1
  <1>4. QED
    BY <1>3

LEMMA Downwards ==
  ASSUME NEW N \in Nat, NEW T,
         \A i \in 1..N : (\A j \in i + 1..N : j \in T) => i \in T
  PROVE  \A i \in 1..N : i \in T
  <1> SUFFICES ASSUME NEW k \in 1..N, k \notin T PROVE FALSE
    OBVIOUS
  <1> DEFINE U == {n \in 0..N - 1 : N - n \notin T}
  <1>1. U \in SUBSET Nat /\ U # {}
    <2>1. N - k \in 0..N - 1 /\ N - (N - k) = k
      OBVIOUS
    <2>2. N - k \in U
      BY <2>1
    <2>3. U \in SUBSET Nat
      OBVIOUS
    <2>4. QED
      BY <2>2, <2>3, Zenon
  <1>2. PICK n \in U : \A m \in U : n <= m
    <2> HIDE DEF U
    <2>1. QED
      BY <1>1, LeastNumber
  <1>3. n \in 0..N - 1 /\ N - n \notin T /\ N - n \in 1..N
    BY <1>2
  <1>4. ASSUME NEW j \in N - n + 1..N PROVE j \in T
    <2>1. N - j \in 0..N - 1 /\ N - (N - j) = j /\ ~(n <= N - j)
      BY <1>3
    <2>2. N - j \notin U
      BY <1>2, <2>1
    <2>3. QED
      BY <2>1, <2>2
  <1>5. QED
    BY <1>3, <1>4
-----------------------------------------------------------------------------
(* A frame that begins at i ends at the first newline of the next six      *)
(* bytes, or with the sixth.                                               *)
LEMMA FrameEndIs ==
  ASSUME NEW S, NEW s \in Seq(S), NEW i \in 1..Len(s) + 1
  PROVE  /\ FrameEnd(s, i) \in i..i + 5
         /\ \A m \in i..i + 5 :
              m <= Len(s) /\ s[m] \in NewLine /\ (\A j \in i..m - 1 : s[j] \notin NewLine)
                => FrameEnd(s, i) = m
         /\ (\A j \in i..i + 5 : j <= Len(s) => s[j] \notin NewLine)
              => FrameEnd(s, i) = i + 5
  <1> DEFINE ends == {j \in i..Len(s) : s[j] \in NewLine}
             stop == IF ends # {} THEN Min(ends) ELSE 0
  <1>1. Len(s) \in Nat /\ i \in Nat /\ i >= 1
    OBVIOUS
  <1>2. FrameEnd(s, i) = IF stop # 0 /\ stop < i + 6 THEN stop ELSE i + 5
    BY DEF FrameEnd, SelectInSubSeq
  <1>3. ASSUME ends # {}
        PROVE  stop \in ends /\ \A y \in ends : stop <= y
    <2>1. ends \in SUBSET Nat
      BY <1>1
    <2> HIDE DEF ends
    <2>2. \E x \in ends : \A y \in ends : x <= y
      BY <1>3, <2>1, LeastNumber
    <2>3. QED
      BY <1>3, <2>2 DEF Min
  <1>4. /\ ends # {} => /\ stop \in i..Len(s) /\ s[stop] \in NewLine
                        /\ \A j \in i..Len(s) : s[j] \in NewLine => stop <= j
        /\ ends = {} => stop = 0 /\ \A j \in i..Len(s) : s[j] \notin NewLine
    <2> HIDE DEF stop
    <2>1. ends # {} => /\ stop \in i..Len(s) /\ s[stop] \in NewLine
                       /\ \A j \in i..Len(s) : s[j] \in NewLine => stop <= j
      BY <1>3
    <2>2. ends = {} => stop = 0 /\ \A j \in i..Len(s) : s[j] \notin NewLine
      BY DEF stop
    <2>3. QED
      BY <2>1, <2>2
  <1> HIDE DEF ends, stop
  <1>5. FrameEnd(s, i) \in i..i + 5
    BY <1>1, <1>2, <1>4
  <1>6. ASSUME NEW m \in i..i + 5, m <= Len(s), s[m] \in NewLine,
               \A j \in i..m - 1 : s[j] \notin NewLine
        PROVE  FrameEnd(s, i) = m
    <2>1. m \in i..Len(s)
      BY <1>1, <1>6
    <2>2. ends # {} /\ stop <= m
      BY <1>4, <1>6, <2>1
    <2>3. ~(stop < m)
      BY <1>1, <1>4, <1>6, <2>1, <2>2
    <2>4. stop = m
      BY <1>1, <1>4, <2>2, <2>3
    <2>5. QED
      BY <1>1, <1>2, <2>4
  <1>7. ASSUME \A j \in i..i + 5 : j <= Len(s) => s[j] \notin NewLine
        PROVE  FrameEnd(s, i) = i + 5
    <2> SUFFICES ASSUME ends # {}, stop < i + 6 PROVE FALSE
      BY <1>2, <1>4
    <2>1. stop \in i..i + 5 /\ stop <= Len(s) /\ s[stop] \in NewLine
      BY <1>1, <1>4
    <2>2. QED
      BY <1>7, <2>1
  <1>8. QED
    BY <1>5, <1>6, <1>7

(* time_parse returns an error or a delay. *)
LEMMA ClockBound ==
  ASSUME NEW h \in Nat, NEW m \in Nat, NEW s \in Nat, h <= 23, m <= 59, s <= 59
  PROVE  IsDelay(SecondOfDay(h, m, s))
  <1>1. h * 3600 + m * 60 + s \in Nat
    OBVIOUS
  <1>2. h * 3600 + m * 60 + s < 24 * 3600
    BY SMT
  <1>3. QED
    BY <1>1, <1>2 DEF IsDelay, SecondOfDay

LEMMA ParseResult ==
  ASSUME NEW t
  PROVE  /\ IsDelay(time_parse(t)) \/ time_parse(t) \in {-1, -2, -3}
         /\ time_parse(t) < 0 <=> ~(time_parse(t) >= 0)
         /\ time_parse(t) >= 0 => IsDelay(time_parse(t)) /\ time_parse(t) \in Nat
  <1> DEFINE h == hourOf(t)
             m == minuteOf(t)
             s == secondOf(t)
  <1>1. ASSUME time_parse(t) \notin {-1, -2, -3}
        PROVE  IsDelay(time_parse(t))
    <2>1. formatError(t) = 0
      BY <1>1 DEF time_parse, formatError, TIME_ARRAY_ERROR, TIME_LEN_ERROR
    <2>2. \A i \in 1..6 : t[i] \in Digit
      BY <2>1 DEF formatError, TIME_ARRAY_ERROR, TIME_LEN_ERROR
    <2>3. \A a, b \in Digit : atoi2(a, b) \in Nat
      BY DEF atoi2, Digit, DigitZero
    <2>4. h \in Nat /\ m \in Nat /\ s \in Nat
      BY <2>2, <2>3 DEF hourOf, minuteOf, secondOf
    <2>5. h <= 23 /\ m <= 59 /\ s <= 59
      BY <1>1, <2>1, <2>4 DEF time_parse, TIME_VALUE_ERROR
    <2>6. time_parse(t) = SecondOfDay(h, m, s)
      BY <1>1, <2>1, <2>4 DEF time_parse, TIME_VALUE_ERROR, seconds, SecondOfDay
    <2> HIDE DEF h, m, s
    <2>7. QED
      BY <2>4, <2>5, <2>6, ClockBound
  <1>2. time_parse(t) \in Nat \/ time_parse(t) \in {-1, -2, -3}
    BY <1>1 DEF IsDelay
  <1>3. QED
    BY <1>1, <1>2
-----------------------------------------------------------------------------
(* The recursive function read is well defined: the reading of a position  *)
(* needs later positions only.                                             *)
AllCalls == ({"put"} \X {"R", "Y", "G"}) \cup ({"arm"} \X Nat) \cup ({"toggle"} \X BOOLEAN)

LEMMA CallAtTyped ==
  ASSUME NEW S, NEW s \in Seq(S), NEW i \in 1..Len(s), NEW dbg \in BOOLEAN
  PROVE  /\ CallAt(s, i, dbg) \in Seq(AllCalls)
         /\ NextAt(s, i) \in i + 1..Len(s) + 7
         /\ DebugAt(s, i, dbg) \in BOOLEAN
  <1>1. CallAt(s, i, dbg) \in Seq(AllCalls)
    <2>1. <<>> \in Seq(AllCalls)
      BY EmptySeq
    <2>2. TimeCall(s, i + 1) \in Seq(AllCalls)
      <3> DEFINE delay == time_parse(CString(SubSeq(s, i + 1, i + 1 + 5)))
      <3>1. delay < 0 \/ delay \in Nat
        BY ParseResult
      <3>2. TimeCall(s, i + 1) = <<>> \/ (~(delay < 0) /\ TimeCall(s, i + 1) = << <<"arm", delay>> >>)
        BY DEF TimeCall
      <3> HIDE DEF delay
      <3>3. delay \in Nat => << <<"arm", delay>> >> \in Seq(AllCalls)
        BY DEF AllCalls
      <3>4. QED
        BY <2>1, <3>1, <3>2, <3>3
    <2>3. \A b \in DOMAIN ColourOf : << <<"put", ColourOf[b]>> >> \in Seq(AllCalls)
      <3>1. \A b \in DOMAIN ColourOf : ColourOf[b] \in {"R", "Y", "G"}
        BY DEF ColourOf
      <3>2. QED
        BY <3>1 DEF AllCalls
    <2>4. << <<"toggle", ~dbg>> >> \in Seq(AllCalls)
      <3>1. <<"toggle", ~dbg>> \in AllCalls
        BY DEF AllCalls
      <3>2. QED
        BY <3>1
    <2>5. QED
      BY <2>1, <2>2, <2>3, <2>4, Zenon DEF CallAt
  <1>2. NextAt(s, i) \in i + 1..Len(s) + 7
    <2>1. i + 1 \in 1..Len(s) + 1
      OBVIOUS
    <2>2. FrameEnd(s, i + 1) \in i + 1..i + 1 + 5
      BY <2>1, FrameEndIs
    <2>3. QED
      BY <2>2 DEF NextAt
  <1>3. DebugAt(s, i, dbg) \in BOOLEAN
    BY DEF DebugAt
  <1>4. QED
    BY <1>1, <1>2, <1>3

(* What the reading f of s says at i. *)
ReadingAt(s, f, i) ==
  [dbg \in BOOLEAN |->
     IF i > Len(s) THEN <<>>
     ELSE CallAt(s, i, dbg) \o f[NextAt(s, i)][DebugAt(s, i, dbg)]]

Readings == [BOOLEAN -> Seq(AllCalls)]

LEMMA ReadingAtTyped ==
  ASSUME NEW S, NEW s \in Seq(S), NEW i \in 1..Len(s) + 7, NEW f,
         \A j \in i + 1..Len(s) + 7 : f[j] \in Readings
  PROVE  ReadingAt(s, f, i) \in Readings
  <1> SUFFICES ASSUME NEW dbg \in BOOLEAN
               PROVE  (IF i > Len(s) THEN <<>>
                       ELSE CallAt(s, i, dbg) \o f[NextAt(s, i)][DebugAt(s, i, dbg)])
                        \in Seq(AllCalls)
    BY DEF ReadingAt, Readings
  <1>1. CASE i > Len(s)
    BY <1>1, EmptySeq
  <1>2. CASE ~(i > Len(s))
    <2>1. i \in 1..Len(s)
      BY <1>2
    <2>2. /\ CallAt(s, i, dbg) \in Seq(AllCalls) /\ DebugAt(s, i, dbg) \in BOOLEAN
          /\ NextAt(s, i) \in i + 1..Len(s) + 7
      BY <2>1, CallAtTyped
    <2>3. f[NextAt(s, i)][DebugAt(s, i, dbg)] \in Seq(AllCalls)
      BY <2>2 DEF Readings
    <2>4. CallAt(s, i, dbg) \o f[NextAt(s, i)][DebugAt(s, i, dbg)] \in Seq(AllCalls)
      BY <2>2, <2>3, ConcatProperties
    <2>5. QED
      BY <1>2, <2>4
  <1>3. QED
    BY <1>1, <1>2

LEMMA ReadingAtAgrees ==
  ASSUME NEW S, NEW s \in Seq(S), NEW i \in 1..Len(s) + 7, NEW f, NEW g,
         \A j \in i + 1..Len(s) + 7 : f[j] = g[j]
  PROVE  ReadingAt(s, f, i) = ReadingAt(s, g, i)
  <1>1. CASE i > Len(s)
    BY <1>1 DEF ReadingAt
  <1>2. CASE ~(i > Len(s))
    <2>1. i \in 1..Len(s)
      BY <1>2
    <2>2. NextAt(s, i) \in i + 1..Len(s) + 7
      BY <2>1, CallAtTyped
    <2>3. f[NextAt(s, i)] = g[NextAt(s, i)]
      BY <2>2
    <2>4. QED
      BY <2>3, Zenon DEF ReadingAt
  <1>3. QED
    BY <1>1, <1>2

(* There is a reading of the positions from k on, for every k. *)
ReadsFrom(s, f, k) ==
  /\ f \in [k..Len(s) + 7 -> Readings]
  /\ \A i \in k..Len(s) + 7 : f[i] = ReadingAt(s, f, i)

LEMMA ReadingExists ==
  ASSUME NEW S, NEW s \in Seq(S)
  PROVE  \E f : ReadsFrom(s, f, 1)
  <1> DEFINE N == Len(s) + 7
             T == {k \in 1..N : \E f : ReadsFrom(s, f, k)}
  <1>1. N \in Nat /\ N >= 7
    OBVIOUS
  <1>2. ASSUME NEW i \in 1..N, \A j \in i + 1..N : j \in T
        PROVE  i \in T
    <2>1. PICK g : /\ g \in [i + 1..N -> Readings]
                   /\ \A j \in i + 1..N : g[j] = ReadingAt(s, g, j)
      <3>1. CASE i = N
        <4> DEFINE e == [j \in i + 1..N |-> j]
        <4>1. i + 1..N = {}
          BY <1>1, <3>1
        <4>2. e \in [i + 1..N -> Readings] /\ \A j \in i + 1..N : e[j] = ReadingAt(s, e, j)
          BY <4>1
        <4>3. QED
          BY <4>2
      <3>2. CASE i # N
        <4>1. i + 1 \in i + 1..N
          BY <1>1, <3>2
        <4>2. i + 1 \in T
          BY <1>2, <4>1
        <4>3. QED
          BY <4>2 DEF ReadsFrom
      <3>3. QED
        BY <3>1, <3>2
    <2> DEFINE f == [j \in i..N |-> IF j = i THEN ReadingAt(s, g, i) ELSE g[j]]
    <2>2. \A j \in i + 1..N : j \in i..N /\ f[j] = g[j]
      BY <1>1
    <2>3. f[i] = ReadingAt(s, g, i)
      BY <1>1
    <2>4. ReadingAt(s, g, i) \in Readings
      BY <2>1, ReadingAtTyped
    <2>5. f \in [i..N -> Readings]
      <3>1. ASSUME NEW j \in i..N PROVE (IF j = i THEN ReadingAt(s, g, i) ELSE g[j]) \in Readings
        <4>1. CASE j = i
          BY <2>4, <4>1
        <4>2. CASE j # i
          <5>1. j \in i + 1..N
            BY <1>1, <4>2
          <5>2. QED
            BY <2>1, <4>2, <5>1
        <4>3. QED
          BY <4>1, <4>2
      <3>2. QED
        BY <3>1
    <2> HIDE DEF f
    <2>6. ASSUME NEW j \in i..N PROVE f[j] = ReadingAt(s, f, j)
      <3>1. j \in 1..N /\ \A l \in j + 1..N : l \in i + 1..N
        BY <1>1
      <3>2. \A l \in j + 1..N : f[l] = g[l]
        BY <2>2, <3>1
      <3>3. ReadingAt(s, f, j) = ReadingAt(s, g, j)
        BY <3>1, <3>2, ReadingAtAgrees
      <3>4. CASE j = i
        BY <2>3, <3>3, <3>4
      <3>5. CASE j # i
        <4>1. j \in i + 1..N
          BY <1>1, <3>5
        <4>2. QED
          BY <2>1, <2>2, <3>3, <4>1
      <3>6. QED
        BY <3>4, <3>5
    <2>7. ReadsFrom(s, f, i)
      BY <2>5, <2>6 DEF ReadsFrom
    <2>8. QED
      BY <2>7
  <1>3. \A i \in 1..N : i \in T
    <2> HIDE DEF N, T
    <2>1. QED
      BY <1>1, <1>2, Downwards
  <1>4. 1 \in T
    BY <1>1, <1>3
  <1>5. QED
    BY <1>4

(* So Reading(s) is one, and all its values are sequences of calls. *)
LEMMA ReadingIs ==
  ASSUME NEW S, NEW s \in Seq(S)
  PROVE  /\ \A i \in 1..Len(s) + 7 : Reading(s)[i] \in Readings
         /\ \A i \in 1..Len(s) + 7 : Reading(s)[i] = ReadingAt(s, Reading(s), i)
  <1> DEFINE N == Len(s) + 7
             r == Reading(s)
             Is(f) == f = [i \in 1..N |-> ReadingAt(s, f, i)]
  <1>1. r = CHOOSE f : Is(f)
    BY DEF Reading, ReadingAt
  <1>2. PICK g : ReadsFrom(s, g, 1)
    BY ReadingExists
  <1>3. Is(g)
    BY <1>2 DEF ReadsFrom
  <1>4. Is(r)
    <2> HIDE DEF Is, r
    <2>1. QED
      BY <1>1, <1>3
  <1>5. \A i \in 1..N : r[i] = ReadingAt(s, r, i)
    <2> HIDE DEF r
    <2>1. QED
      BY <1>4
  <1> HIDE DEF r
  <1>6. \A i \in 1..N : r[i] \in Readings
    <2> DEFINE T == {i \in 1..N : r[i] \in Readings}
    <2>1. ASSUME NEW i \in 1..N, \A j \in i + 1..N : j \in T
          PROVE  i \in T
      <3>1. ReadingAt(s, r, i) \in Readings
        BY <2>1, ReadingAtTyped
      <3>2. QED
        BY <1>5, <3>1
    <2>2. N \in Nat
      OBVIOUS
    <2>3. \A i \in 1..N : i \in T
      <3> HIDE DEF N, T
      <3>1. QED
        BY <2>1, <2>2, Downwards
    <2>4. QED
      BY <2>3
  <1>7. QED
    BY <1>5, <1>6 DEF r
-----------------------------------------------------------------------------
(* The reading of one position, and of the end.                            *)
LEMMA ReadStep ==
  ASSUME NEW S, NEW t \in Seq(S), NEW i \in 1..Len(t), NEW dbg \in BOOLEAN
  PROVE  /\ Reading(t)[i][dbg]
              = CallAt(t, i, dbg) \o Reading(t)[NextAt(t, i)][DebugAt(t, i, dbg)]
         /\ Reading(t)[NextAt(t, i)][DebugAt(t, i, dbg)] \in Seq(AllCalls)
  <1>1. /\ NextAt(t, i) \in 1..Len(t) + 7 /\ DebugAt(t, i, dbg) \in BOOLEAN
        /\ i \in 1..Len(t) + 7 /\ ~(i > Len(t))
    <2>1. NextAt(t, i) \in i + 1..Len(t) + 7 /\ DebugAt(t, i, dbg) \in BOOLEAN
      BY CallAtTyped
    <2>2. QED
      BY <2>1
  <1>2. Reading(t)[i] = ReadingAt(t, Reading(t), i)
    BY <1>1, ReadingIs
  <1>3. Reading(t)[NextAt(t, i)] \in Readings
    BY <1>1, ReadingIs
  <1>4. QED
    BY <1>1, <1>2, <1>3 DEF ReadingAt, Readings

LEMMA ReadEnd ==
  ASSUME NEW S, NEW t \in Seq(S), NEW i \in Len(t) + 1..Len(t) + 7, NEW dbg \in BOOLEAN
  PROVE  Reading(t)[i][dbg] = <<>>
  <1>1. i \in 1..Len(t) + 7 /\ i > Len(t)
    OBVIOUS
  <1>2. Reading(t)[i] = ReadingAt(t, Reading(t), i)
    BY <1>1, ReadingIs
  <1>3. QED
    BY <1>1, <1>2 DEF ReadingAt

LEMMA OneCall ==
  ASSUME NEW S, NEW s \in Seq(S), NEW c \in S, NEW r \in Seq(S)
  PROVE  /\ s \o (<<c>> \o r) = Append(s, c) \o r
         /\ s \o (<<>> \o r) = s \o r
         /\ s \o <<>> = s
  <1>1. <<c>> \in Seq(S) /\ <<>> \in Seq(S)
    BY EmptySeq
  <1>2. s \o (<<c>> \o r) = (s \o <<c>>) \o r
    BY <1>1, ConcatAssociative
  <1>3. s \o <<c>> = Append(s, c)
    BY <1>1, AppendIsConcat
  <1>4. <<>> \o r = r /\ s \o <<>> = s
    BY ConcatEmptySeq
  <1>5. QED
    BY <1>2, <1>3, <1>4
-----------------------------------------------------------------------------
(* The inductive invariant.  The task has done, or is about to do, ...     *)
Done == IF upc = "put" THEN Append(calls, <<"put", cmd>>)
        ELSE IF upc = "arm" THEN Append(calls, <<"arm", timer_delay_s>>)
        ELSE IF upc \in {"toggle", "assign"} THEN Append(calls, <<"toggle", ~dbg_on>>)
        ELSE calls

(* ... what every string that begins with the bytes typed says up to here: *)
(* the A of the time being typed, or the next byte.                        *)
Here == IF time_mode THEN Len(hist) - Len(time_buf) ELSE Len(hist) + 1

Debug == IF upc \in {"toggle", "assign"} THEN ~dbg_on ELSE dbg_on

Begins(h, t) == Len(h) <= Len(t) /\ \A i \in 1..Len(h) : t[i] = h[i]

Account == \A t \in Seq(Input) :
             Begins(hist, t) => Reading(t)[1][TRUE] = Done \o Reading(t)[Here][Debug]

(* In time mode time_buf is what was typed after an A, without a newline.  *)
FrameInv == time_mode => /\ Here \in 1..Len(hist)
                         /\ toupper(hist[Here]) = 65
                         /\ \A j \in 1..Len(time_buf) :
                              time_buf[j] = hist[Here + j] /\ time_buf[j] \notin NewLine

HistTyped == hist \in Seq(Input) /\ calls \in Seq(AllCalls)

UartInv == TypeOK /\ HistTyped /\ FrameInv /\ Account

(* What uart_task does with its variables, and what it has done, typed.    *)
LEMMA DoneTyped ==
  ASSUME TypeOK, HistTyped
  PROVE  Done \in Seq(AllCalls) /\ Debug \in BOOLEAN
  <1>1. <<"put", cmd>> \in AllCalls /\ <<"toggle", ~dbg_on>> \in AllCalls
    BY DEF AllCalls, TypeOK
  <1>2. timer_delay_s \in Nat
    BY DEF TypeOK, IsDelay
  <1>3. <<"arm", timer_delay_s>> \in AllCalls
    BY <1>2 DEF AllCalls
  <1>4. Debug \in BOOLEAN
    BY DEF Debug, TypeOK
  <1>5. QED
    BY <1>1, <1>3, <1>4, AppendProperties DEF Done, HistTyped

LEMMA InitUart == MCInit => UartInv
  <1> SUFFICES ASSUME MCInit PROVE UartInv
    OBVIOUS
  <1>1. /\ time_mode = FALSE /\ time_buf = <<>> /\ timer_color = "R" /\ timer_delay_s = 0
        /\ dbg_on = TRUE /\ upc = "poll" /\ cmd = "R" /\ hist = <<>> /\ calls = <<>>
    BY DEF MCInit, Init
  <1>2. <<>> \in Seq(Input) /\ <<>> \in Seq(AllCalls) /\ Len(<<>>) = 0
    BY EmptySeq
  <1>3. IsDelay(0)
    BY SMT DEF IsDelay
  <1>4. TypeOK
    <2>1. time_buf \in Seq(Input) /\ Len(time_buf) <= 5
      BY <1>1, <1>2
    <2>2. IsDelay(timer_delay_s)
      BY <1>1, <1>3
    <2>3. QED
      BY <1>1, <2>1, <2>2 DEF TypeOK, Stages
  <1>5. HistTyped /\ FrameInv
    BY <1>1, <1>2 DEF HistTyped, FrameInv
  <1>6. Account
    <2> SUFFICES ASSUME NEW t \in Seq(Input)
                 PROVE  Reading(t)[1][TRUE] = Done \o Reading(t)[Here][Debug]
      BY DEF Account
    <2>1. Done = <<>> /\ Here = 1 /\ Debug = TRUE
      BY <1>1, <1>2 DEF Done, Here, Debug
    <2>2. 1 \in 1..Len(t) + 7
      OBVIOUS
    <2>3. Reading(t)[1] \in Readings
      BY <2>2, ReadingIs
    <2>4. Reading(t)[1][TRUE] \in Seq(AllCalls)
      BY <2>3 DEF Readings
    <2>5. QED
      BY <2>1, <2>4, ConcatEmptySeq
  <1>7. QED
    BY <1>4, <1>5, <1>6 DEF UartInv
-----------------------------------------------------------------------------
(* A byte b is typed: every string that begins with the bytes typed now    *)
(* has b behind those typed before.                                        *)
LEMMA OneMore ==
  ASSUME HistTyped, NEW b \in Input, hist' = Append(hist, b),
         NEW t \in Seq(Input), Begins(hist', t)
  PROVE  /\ Begins(hist, t) /\ Len(hist') = Len(hist) + 1
         /\ Len(hist) + 1 \in 1..Len(t) /\ t[Len(hist) + 1] = b
         /\ \A i \in 1..Len(hist) : t[i] = hist[i] /\ hist'[i] = hist[i]
  <1>1. /\ Len(hist') = Len(hist) + 1 /\ Len(hist) \in Nat
        /\ hist'[Len(hist) + 1] = b
        /\ \A i \in 1..Len(hist) : hist'[i] = hist[i]
    BY AppendProperties DEF HistTyped
  <1>2. Len(hist) + 1 <= Len(t) /\ \A i \in 1..Len(hist) + 1 : t[i] = hist'[i]
    BY <1>1 DEF Begins
  <1>3. QED
    BY <1>1, <1>2 DEF Begins

(* A byte that completes a call, or none: command mode. *)
LEMMA CommandAccount ==
  ASSUME UartInv, NEW b \in Input, hist' = Append(hist, b), ~time_mode, upc = "poll",
         NEW t \in Seq(Input), Begins(hist', t)
  PROVE  LET i == Len(hist) + 1
         IN /\ i \in 1..Len(t) /\ t[i] = b
            /\ Reading(t)[1][TRUE]
                 = calls \o (CallAt(t, i, dbg_on) \o Reading(t)[NextAt(t, i)][DebugAt(t, i, dbg_on)])
            /\ Reading(t)[NextAt(t, i)][DebugAt(t, i, dbg_on)] \in Seq(AllCalls)
  <1> DEFINE i == Len(hist) + 1
  <1>1. Begins(hist, t) /\ i \in 1..Len(t) /\ t[i] = b
    BY OneMore DEF UartInv
  <1>2. dbg_on \in BOOLEAN /\ Done = calls /\ Here = i /\ Debug = dbg_on
    BY DEF UartInv, TypeOK, Done, Here, Debug
  <1> HIDE DEF i
  <1>3. Reading(t)[1][TRUE] = calls \o Reading(t)[i][dbg_on]
    BY <1>1, <1>2 DEF UartInv, Account
  <1>4. /\ Reading(t)[i][dbg_on]
             = CallAt(t, i, dbg_on) \o Reading(t)[NextAt(t, i)][DebugAt(t, i, dbg_on)]
        /\ Reading(t)[NextAt(t, i)][DebugAt(t, i, dbg_on)] \in Seq(AllCalls)
    BY <1>1, <1>2, ReadStep
  <1>5. QED
    BY <1>1, <1>3, <1>4 DEF i

LEMMA StartTimeUart ==
  ASSUME UartInv, NEW b \in Input, hist' = Append(hist, b), calls' = calls, StartTime(b)
  PROVE  Account' /\ FrameInv' /\ Done' = Done
  <1>1. /\ time_mode' = TRUE /\ time_buf' = <<>> /\ toupper(b) = 65 /\ ~time_mode
        /\ upc = "poll" /\ UNCHANGED <<timer_delay_s, dbg_on, upc, cmd>>
    BY DEF StartTime, timerVars
  <1>2. Len(hist') = Len(hist) + 1 /\ hist'[Len(hist) + 1] = b /\ Len(hist) \in Nat
    BY AppendProperties DEF UartInv, HistTyped
  <1>3. Len(time_buf') = 0
    BY <1>1, EmptySeq
  <1>4. Here' = Len(hist) + 1 /\ Here = Len(hist) + 1
    BY <1>1, <1>2, <1>3 DEF Here
  <1>5. FrameInv'
    BY <1>1, <1>2, <1>3, <1>4 DEF FrameInv
  <1>6. Done' = Done /\ Debug' = Debug
    BY <1>1 DEF Done, Debug
  <1>7. Account'
    <2> SUFFICES ASSUME NEW t \in Seq(Input), Begins(hist', t)
                 PROVE  Reading(t)[1][TRUE] = Done \o Reading(t)[Here][Debug]
      BY <1>4, <1>6 DEF Account
    <2>1. Begins(hist, t)
      BY OneMore DEF UartInv
    <2>2. QED
      BY <2>1 DEF UartInv, Account
  <1>8. QED
    BY <1>5, <1>6, <1>7

LEMMA ColourUart ==
  ASSUME UartInv, NEW b \in Input, hist' = Append(hist, b), calls' = calls, Colour(b)
  PROVE  /\ Account' /\ FrameInv'
         /\ Done' = Append(Done, <<"put", timer_color'>>) /\ timer_delay_s' = timer_delay_s
  <1>1. /\ ~time_mode /\ ~time_mode' /\ upc = "poll" /\ upc' = "put"
        /\ toupper(b) \in DOMAIN ColourOf /\ cmd' = ColourOf[toupper(b)]
        /\ timer_color' = cmd' /\ UNCHANGED <<timer_delay_s, dbg_on>>
    BY DEF Colour, frameVars
  <1> DEFINE c == <<"put", cmd'>>
  <1>2. Done = calls /\ Done' = Append(calls, c) /\ Debug' = dbg_on
    BY <1>1 DEF Done, Debug
  <1>3. c \in AllCalls /\ toupper(b) # 65 /\ toupper(b) # 68
    <2>1. \A x \in DOMAIN ColourOf : ColourOf[x] \in {"R", "Y", "G"} /\ x # 65 /\ x # 68
      BY DEF ColourOf
    <2>2. QED
      BY <1>1, <2>1 DEF AllCalls
  <1>4. Len(hist') = Len(hist) + 1 /\ Len(hist) \in Nat
    BY AppendProperties DEF UartInv, HistTyped
  <1>5. Account'
    <2> SUFFICES ASSUME NEW t \in Seq(Input), Begins(hist', t)
                 PROVE  Reading(t)[1][TRUE] = Append(calls, c) \o Reading(t)[Here'][dbg_on]
      BY <1>2 DEF Account
    <2> DEFINE i == Len(hist) + 1
               r == Reading(t)[NextAt(t, i)][DebugAt(t, i, dbg_on)]
    <2>1. /\ i \in 1..Len(t) /\ t[i] = b
          /\ Reading(t)[1][TRUE] = calls \o (CallAt(t, i, dbg_on) \o r)
          /\ r \in Seq(AllCalls)
      BY <1>1, CommandAccount
    <2>2. NextAt(t, i) = i + 1 /\ DebugAt(t, i, dbg_on) = dbg_on /\ CallAt(t, i, dbg_on) = <<c>>
      BY <1>1, <1>3, <2>1 DEF NextAt, DebugAt, CallAt
    <2>3. Here' = i + 1
      BY <1>1, <1>4 DEF Here
    <2> HIDE DEF r, i
    <2>4. Reading(t)[1][TRUE] = Append(calls, c) \o r
      <3> HIDE DEF c
      <3>1. Reading(t)[1][TRUE] = calls \o (<<c>> \o r)
        BY <2>1, <2>2
      <3>2. c \in AllCalls /\ calls \in Seq(AllCalls) /\ r \in Seq(AllCalls)
        BY <1>3, <2>1 DEF UartInv, HistTyped
      <3>3. calls \o (<<c>> \o r) = Append(calls, c) \o r
        BY <3>2, OneCall
      <3>4. QED
        BY <3>1, <3>3
    <2>5. QED
      BY <2>2, <2>3, <2>4 DEF r
  <1>6. QED
    BY <1>1, <1>2, <1>5 DEF FrameInv

LEMMA ToggleUart ==
  ASSUME UartInv, NEW b \in Input, hist' = Append(hist, b), calls' = calls, Toggle(b)
  PROVE  /\ Account' /\ FrameInv'
         /\ Done' = Append(Done, <<"toggle", ~dbg_on>>)
  <1>1. /\ ~time_mode /\ ~time_mode' /\ upc = "poll" /\ upc' = "toggle"
        /\ toupper(b) = 68 /\ dbg_on' = dbg_on /\ dbg_on \in BOOLEAN
    BY DEF Toggle, frameVars, UartInv, TypeOK
  <1> DEFINE c == <<"toggle", ~dbg_on>>
  <1>2. Done = calls /\ Done' = Append(calls, c) /\ Debug' = ~dbg_on
    BY <1>1 DEF Done, Debug
  <1>3. c \in AllCalls /\ 68 \notin DOMAIN ColourOf
    <2>1. c \in AllCalls
      BY <1>1 DEF AllCalls
    <2>2. 68 \notin DOMAIN ColourOf
      BY DEF ColourOf
    <2>3. QED
      BY <2>1, <2>2
  <1>4. Len(hist') = Len(hist) + 1 /\ Len(hist) \in Nat
    BY AppendProperties DEF UartInv, HistTyped
  <1>5. Account'
    <2> SUFFICES ASSUME NEW t \in Seq(Input), Begins(hist', t)
                 PROVE  Reading(t)[1][TRUE] = Append(calls, c) \o Reading(t)[Here'][~dbg_on]
      BY <1>2 DEF Account
    <2> DEFINE i == Len(hist) + 1
               r == Reading(t)[NextAt(t, i)][DebugAt(t, i, dbg_on)]
    <2>1. /\ i \in 1..Len(t) /\ t[i] = b
          /\ Reading(t)[1][TRUE] = calls \o (CallAt(t, i, dbg_on) \o r)
          /\ r \in Seq(AllCalls)
      BY <1>1, CommandAccount
    <2>2. NextAt(t, i) = i + 1 /\ DebugAt(t, i, dbg_on) = ~dbg_on /\ CallAt(t, i, dbg_on) = <<c>>
      BY <1>1, <1>3, <2>1 DEF NextAt, DebugAt, CallAt
    <2>3. Here' = i + 1
      BY <1>1, <1>4 DEF Here
    <2> HIDE DEF r, i
    <2>4. Reading(t)[1][TRUE] = Append(calls, c) \o r
      <3> HIDE DEF c
      <3>1. Reading(t)[1][TRUE] = calls \o (<<c>> \o r)
        BY <2>1, <2>2
      <3>2. c \in AllCalls /\ calls \in Seq(AllCalls) /\ r \in Seq(AllCalls)
        BY <1>3, <2>1 DEF UartInv, HistTyped
      <3>3. calls \o (<<c>> \o r) = Append(calls, c) \o r
        BY <3>2, OneCall
      <3>4. QED
        BY <3>1, <3>3
    <2>5. QED
      BY <2>2, <2>3, <2>4 DEF r
  <1>6. QED
    BY <1>1, <1>2, <1>5 DEF FrameInv

LEMMA IgnoreUart ==
  ASSUME UartInv, NEW b \in Input, hist' = Append(hist, b), calls' = calls, Ignore(b)
  PROVE  Account' /\ FrameInv' /\ Done' = Done
  <1>1. /\ ~time_mode /\ ~time_mode' /\ upc = "poll" /\ upc' = "sleep"
        /\ toupper(b) \notin {65, 68} \cup DOMAIN ColourOf /\ dbg_on' = dbg_on
    BY DEF Ignore, frameVars
  <1>2. Done' = calls /\ Done = calls /\ Debug' = dbg_on
    BY <1>1 DEF Done, Debug
  <1>3. Len(hist') = Len(hist) + 1 /\ Len(hist) \in Nat
    BY AppendProperties DEF UartInv, HistTyped
  <1>4. Account'
    <2> SUFFICES ASSUME NEW t \in Seq(Input), Begins(hist', t)
                 PROVE  Reading(t)[1][TRUE] = calls \o Reading(t)[Here'][dbg_on]
      BY <1>2 DEF Account
    <2> DEFINE i == Len(hist) + 1
               r == Reading(t)[NextAt(t, i)][DebugAt(t, i, dbg_on)]
    <2>1. /\ i \in 1..Len(t) /\ t[i] = b
          /\ Reading(t)[1][TRUE] = calls \o (CallAt(t, i, dbg_on) \o r)
          /\ r \in Seq(AllCalls)
      BY <1>1, CommandAccount
    <2>2. NextAt(t, i) = i + 1 /\ DebugAt(t, i, dbg_on) = dbg_on /\ CallAt(t, i, dbg_on) = <<>>
      BY <1>1, <2>1 DEF NextAt, DebugAt, CallAt
    <2>3. Here' = i + 1
      BY <1>1, <1>3 DEF Here
    <2> HIDE DEF r, i
    <2>4. Reading(t)[1][TRUE] = calls \o r
      BY <2>1, <2>2, ConcatEmptySeq
    <2>5. QED
      BY <2>2, <2>3, <2>4 DEF r
  <1>5. QED
    BY <1>1, <1>2, <1>4 DEF FrameInv

(* A byte typed in time mode. *)
LEMMA TimeAccount ==
  ASSUME UartInv, NEW b \in Input, hist' = Append(hist, b), time_mode, upc = "poll",
         NEW t \in Seq(Input), Begins(hist', t)
  PROVE  /\ Here \in 1..Len(hist) /\ Len(hist) = Here + Len(time_buf)
         /\ Len(hist) + 1 <= Len(t) /\ t[Len(hist) + 1] = b
         /\ \A j \in 1..Len(time_buf) : t[Here + j] = time_buf[j]
         /\ \A j \in Here + 1..Len(hist) : t[j] \notin NewLine
         /\ Reading(t)[1][TRUE]
              = calls \o (TimeCall(t, Here + 1) \o Reading(t)[FrameEnd(t, Here + 1) + 1][dbg_on])
         /\ Reading(t)[FrameEnd(t, Here + 1) + 1][dbg_on] \in Seq(AllCalls)
         /\ calls \in Seq(AllCalls)
  <1> DEFINE p == Here
  <1>1. /\ Begins(hist, t) /\ Len(hist) + 1 \in 1..Len(t) /\ t[Len(hist) + 1] = b
        /\ \A i \in 1..Len(hist) : t[i] = hist[i]
    BY OneMore DEF UartInv
  <1>2. dbg_on \in BOOLEAN /\ Done = calls /\ Debug = dbg_on
    BY DEF UartInv, TypeOK, Done, Debug
  <1>3. p = Len(hist) - Len(time_buf) /\ Len(time_buf) \in Nat /\ Len(hist) \in Nat
    BY DEF Here, UartInv, TypeOK, HistTyped
  <1>4. /\ p \in 1..Len(hist) /\ toupper(hist[p]) = 65
        /\ \A j \in 1..Len(time_buf) :
             time_buf[j] = hist[p + j] /\ time_buf[j] \notin NewLine
    BY DEF UartInv, FrameInv
  <1>5. calls \in Seq(AllCalls)
    BY DEF UartInv, HistTyped
  <1> HIDE DEF p
  <1>6. Len(hist) = p + Len(time_buf)
    BY <1>3, <1>4
  <1>7. \A j \in 1..Len(time_buf) : p + j \in 1..Len(hist)
    BY <1>4, <1>6
  <1>8. \A j \in 1..Len(time_buf) : t[p + j] = time_buf[j] /\ t[p + j] \notin NewLine
    BY <1>1, <1>4, <1>7
  <1>9. \A j \in p + 1..Len(hist) : t[j] \notin NewLine
    <2> SUFFICES ASSUME NEW j \in p + 1..Len(hist) PROVE t[j] \notin NewLine
      OBVIOUS
    <2>1. j - p \in 1..Len(time_buf) /\ p + (j - p) = j
      BY <1>3, <1>4, <1>6
    <2>2. QED
      BY <1>8, <2>1
  <1>10. p \in 1..Len(t) /\ toupper(t[p]) = 65
    BY <1>1, <1>4
  <1>11. Reading(t)[1][TRUE] = calls \o Reading(t)[p][dbg_on]
    BY <1>1, <1>2 DEF UartInv, Account, p
  <1>12. /\ Reading(t)[p][dbg_on]
              = CallAt(t, p, dbg_on) \o Reading(t)[NextAt(t, p)][DebugAt(t, p, dbg_on)]
         /\ Reading(t)[NextAt(t, p)][DebugAt(t, p, dbg_on)] \in Seq(AllCalls)
    BY <1>2, <1>10, ReadStep
  <1>13. /\ CallAt(t, p, dbg_on) = TimeCall(t, p + 1) /\ DebugAt(t, p, dbg_on) = dbg_on
         /\ NextAt(t, p) = FrameEnd(t, p + 1) + 1
    BY <1>10 DEF CallAt, DebugAt, NextAt
  <1>14. /\ Reading(t)[1][TRUE]
              = calls \o (TimeCall(t, p + 1) \o Reading(t)[FrameEnd(t, p + 1) + 1][dbg_on])
         /\ Reading(t)[FrameEnd(t, p + 1) + 1][dbg_on] \in Seq(AllCalls)
    BY <1>11, <1>12, <1>13, Zenon
  <1>15. Len(hist) + 1 <= Len(t)
    BY <1>1
  <1>16. QED
    BY <1>1, <1>4, <1>5, <1>6, <1>8, <1>9, <1>14, <1>15 DEF p

(* A newline ends the time: the frame has no call. *)
LEMMA TimeEndUart ==
  ASSUME UartInv, NEW b \in Input, hist' = Append(hist, b), calls' = calls, TimeEnd(b)
  PROVE  Account' /\ FrameInv' /\ Done' = Done
  <1>1. /\ time_mode /\ ~time_mode' /\ upc = "poll" /\ upc' = "poll" /\ b \in NewLine
        /\ UNCHANGED <<timer_delay_s, dbg_on, cmd>>
    BY DEF TimeEnd, time_mode_reset, timerVars
  <1>2. Done' = calls /\ Done = calls /\ Debug' = dbg_on
    BY <1>1 DEF Done, Debug
  <1>3. Len(hist') = Len(hist) + 1 /\ Len(hist) \in Nat /\ Len(time_buf) \in Nat /\ Len(time_buf) <= 5
    BY AppendProperties DEF UartInv, HistTyped, TypeOK
  <1>4. Here' = Len(hist) + 2
    BY <1>1, <1>3 DEF Here
  <1>5. Account'
    <2> SUFFICES ASSUME NEW t \in Seq(Input), Begins(hist', t)
                 PROVE  Reading(t)[1][TRUE] = calls \o Reading(t)[Here'][dbg_on]
      BY <1>2 DEF Account
    <2> DEFINE p == Here
               n == Len(hist)
               r == Reading(t)[FrameEnd(t, p + 1) + 1][dbg_on]
    <2>1. /\ p \in 1..n /\ n = p + Len(time_buf) /\ n + 1 <= Len(t) /\ t[n + 1] = b
          /\ \A j \in p + 1..n : t[j] \notin NewLine
          /\ Reading(t)[1][TRUE] = calls \o (TimeCall(t, p + 1) \o r)
          /\ r \in Seq(AllCalls)
      BY <1>1, TimeAccount
    <2> HIDE DEF p, n
    <2>2. p + 1 \in 1..Len(t) + 1 /\ n + 1 \in p + 1..p + 1 + 5 /\ (n + 1) - 1 = n /\ n + 1 + 1 = n + 2
      BY <1>3, <2>1
    <2>3. FrameEnd(t, p + 1) = n + 1
      <3> DEFINE m == n + 1
                 q == p + 1
      <3>1. q \in 1..Len(t) + 1 /\ m \in q..q + 5 /\ m <= Len(t) /\ t[m] \in NewLine
            /\ \A j \in q..m - 1 : t[j] \notin NewLine
        BY <1>1, <2>1, <2>2
      <3> HIDE DEF m, q
      <3>2. FrameEnd(t, q) = m
        BY <3>1, FrameEndIs
      <3>3. QED
        BY <3>2 DEF m, q
    <2>4. TimeCall(t, p + 1) = <<>>
      BY <1>1, <2>1, <2>3 DEF TimeCall
    <2>5. r = Reading(t)[Here'][dbg_on]
      BY <1>4, <2>2, <2>3 DEF n
    <2> HIDE DEF r
    <2>6. Reading(t)[1][TRUE] = calls \o r
      BY <2>1, <2>4, ConcatEmptySeq
    <2>7. QED
      BY <2>5, <2>6
  <1>6. QED
    BY <1>1, <1>2, <1>5 DEF FrameInv

(* A character of the time: nothing is said yet. *)
LEMMA TimeCharUart ==
  ASSUME UartInv, NEW b \in Input, hist' = Append(hist, b), calls' = calls, TimeChar(b)
  PROVE  Account' /\ FrameInv' /\ Done' = Done
  <1>1. /\ time_mode /\ time_mode' /\ upc = "poll" /\ upc' = "poll" /\ b \notin NewLine
        /\ time_buf' = Append(time_buf, b)
        /\ UNCHANGED <<timer_delay_s, dbg_on, cmd>>
    BY DEF TimeChar, timerVars
  <1>2. Done' = Done /\ Debug' = Debug
    BY <1>1 DEF Done, Debug
  <1>3. /\ Len(hist') = Len(hist) + 1 /\ Len(hist) \in Nat /\ hist'[Len(hist) + 1] = b
        /\ \A i \in 1..Len(hist) : hist'[i] = hist[i]
    BY AppendProperties DEF UartInv, HistTyped
  <1>4. /\ Len(time_buf') = Len(time_buf) + 1 /\ Len(time_buf) \in Nat
        /\ time_buf'[Len(time_buf) + 1] = b
        /\ \A i \in 1..Len(time_buf) : time_buf'[i] = time_buf[i]
    BY <1>1, AppendProperties DEF UartInv, TypeOK
  <1>5. Here' = Here /\ Len(hist) = Here + Len(time_buf)
    BY <1>1, <1>3, <1>4 DEF Here
  <1>6. /\ Here \in 1..Len(hist) /\ toupper(hist[Here]) = 65
        /\ \A j \in 1..Len(time_buf) :
             time_buf[j] = hist[Here + j] /\ time_buf[j] \notin NewLine
    BY <1>1 DEF UartInv, FrameInv
  <1>7. FrameInv'
    <2>1. Here \in 1..Len(hist') /\ toupper(hist'[Here]) = 65
      BY <1>3, <1>6
    <2>2. ASSUME NEW j \in 1..Len(time_buf')
          PROVE  time_buf'[j] = hist'[Here + j] /\ time_buf'[j] \notin NewLine
      <3>1. CASE j = Len(time_buf) + 1
        <4>1. Here + j = Len(hist) + 1
          BY <1>3, <1>4, <1>5, <1>6, <3>1
        <4>2. QED
          BY <1>1, <1>3, <1>4, <3>1, <4>1
      <3>2. CASE j # Len(time_buf) + 1
        <4>1. j \in 1..Len(time_buf) /\ Here + j \in 1..Len(hist)
          BY <1>3, <1>4, <1>5, <1>6, <3>2
        <4>2. QED
          BY <1>3, <1>4, <1>6, <4>1
      <3>3. QED
        BY <3>1, <3>2
    <2>3. QED
      BY <1>5, <2>1, <2>2 DEF FrameInv
  <1>8. Account'
    <2> SUFFICES ASSUME NEW t \in Seq(Input), Begins(hist', t)
                 PROVE  Reading(t)[1][TRUE] = Done \o Reading(t)[Here][Debug]
      BY <1>2, <1>5 DEF Account
    <2>1. Begins(hist, t)
      BY OneMore DEF UartInv
    <2>2. QED
      BY <2>1 DEF UartInv, Account
  <1>9. QED
    BY <1>2, <1>7, <1>8

(* The sixth character: the frame has the delay it says, if it is one. *)
LEMMA TimeLastUart ==
  ASSUME UartInv, NEW b \in Input, hist' = Append(hist, b), calls' = calls, TimeLast(b)
  PROVE  /\ Account' /\ FrameInv'
         /\ IsDelay(timer_delay_s')
         /\ \/ Done' = Append(Done, <<"arm", timer_delay_s'>>)
            \/ Done' = Done /\ timer_delay_s' = timer_delay_s
  <1> DEFINE secs == time_parse(CString(Append(time_buf, b)))
             c == <<"arm", secs>>
  <1>1. /\ time_mode /\ ~time_mode' /\ upc = "poll" /\ b \notin NewLine /\ Len(time_buf) = 5
        /\ dbg_on' = dbg_on /\ cmd' = cmd
        /\ \/ secs >= 0 /\ timer_delay_s' = secs /\ upc' = "arm"
           \/ ~(secs >= 0) /\ timer_delay_s' = timer_delay_s /\ upc' = upc
    BY DEF TimeLast, time_mode_reset
  <1>2. /\ secs < 0 <=> ~(secs >= 0)
        /\ secs >= 0 => IsDelay(secs) /\ secs \in Nat
    BY ParseResult
  <1> HIDE DEF secs
  <1>3. IsDelay(timer_delay_s')
    BY <1>1, <1>2 DEF UartInv, TypeOK
  <1>4. /\ Done = calls /\ Debug' = dbg_on
        /\ Done' = IF secs >= 0 THEN Append(calls, c) ELSE calls
    BY <1>1 DEF Done, Debug
  <1>5. Len(hist') = Len(hist) + 1 /\ Len(hist) \in Nat
    BY AppendProperties DEF UartInv, HistTyped
  <1>6. Here' = Len(hist) + 2
    BY <1>1, <1>5 DEF Here
  <1>7. Account'
    <2> SUFFICES ASSUME NEW t \in Seq(Input), Begins(hist', t)
                 PROVE  Reading(t)[1][TRUE] = Done' \o Reading(t)[Here'][dbg_on]
      BY <1>4 DEF Account
    <2> DEFINE p == Here
               n == Len(hist)
               r == Reading(t)[FrameEnd(t, p + 1) + 1][dbg_on]
    <2>1. /\ p \in 1..n /\ n = p + Len(time_buf) /\ n + 1 <= Len(t) /\ t[n + 1] = b
          /\ \A j \in 1..Len(time_buf) : t[p + j] = time_buf[j]
          /\ \A j \in p + 1..n : t[j] \notin NewLine
          /\ Reading(t)[1][TRUE] = calls \o (TimeCall(t, p + 1) \o r)
          /\ r \in Seq(AllCalls) /\ calls \in Seq(AllCalls)
      BY <1>1, TimeAccount
    <2> HIDE DEF p, n
    <2>2. n = p + 5 /\ p \in Nat /\ p >= 1 /\ p + 1 + 5 = n + 1 /\ Len(t) \in Nat
      BY <1>1, <1>5, <2>1 DEF n
    <2>3. FrameEnd(t, p + 1) = n + 1
      <3>1. p + 1 \in 1..Len(t) + 1
        BY <2>1, <2>2
      <3>2. \A j \in p + 1..p + 1 + 5 : j <= Len(t) => t[j] \notin NewLine
        <4> SUFFICES ASSUME NEW j \in p + 1..p + 1 + 5 PROVE t[j] \notin NewLine
          OBVIOUS
        <4>1. j \in p + 1..n \/ j = n + 1
          BY <2>2
        <4>2. QED
          BY <1>1, <2>1, <4>1
      <3>3. QED
        BY <2>2, <3>1, <3>2, FrameEndIs
    <2>4. Append(time_buf, b) = SubSeq(t, p + 1, p + 1 + 5)
      <3> DEFINE a == Append(time_buf, b)
                 d == SubSeq(t, p + 1, p + 1 + 5)
      <3>1. /\ a \in Seq(Input) /\ Len(a) = 6 /\ a[6] = b
            /\ \A j \in 1..5 : a[j] = time_buf[j]
        <4>1. time_buf \in Seq(Input)
          BY DEF UartInv, TypeOK
        <4>2. /\ a \in Seq(Input) /\ Len(a) = Len(time_buf) + 1 /\ a[Len(time_buf) + 1] = b
              /\ \A j \in 1..Len(time_buf) : a[j] = time_buf[j]
          BY <4>1, AppendProperties
        <4> HIDE DEF a
        <4>3. QED
          BY <1>1, <4>2
      <3>2. p + 1 \in 1..Len(t) + 1 /\ p + 1 + 5 \in p + 1 - 1..Len(t)
        BY <2>1, <2>2
      <3>3. /\ d \in Seq(Input) /\ Len(d) = (p + 1 + 5) - (p + 1) + 1
            /\ \A j \in 1..(p + 1 + 5) - (p + 1) + 1 : d[j] = t[(p + 1) + j - 1]
        <4> DEFINE u == p + 1
                   v == p + 1 + 5
        <4>1. u \in 1..Len(t) + 1 /\ v \in u - 1..Len(t) /\ d = SubSeq(t, u, v)
          BY <3>2
        <4> HIDE DEF u, v, d
        <4>2. /\ d \in Seq(Input) /\ Len(d) = v - u + 1
              /\ \A j \in 1..v - u + 1 : d[j] = t[u + j - 1]
          BY <4>1, SubSeqProperties
        <4>3. QED
          BY <4>2 DEF u, v
      <3>4. (p + 1 + 5) - (p + 1) + 1 = 6
        BY <2>2
      <3> HIDE DEF a, d
      <3>5. Len(d) = 6 /\ \A j \in 1..6 : d[j] = t[p + j]
        <4> SUFFICES ASSUME NEW j \in 1..6 PROVE d[j] = t[p + j]
          BY <3>3, <3>4
        <4>1. (p + 1) + j - 1 = p + j
          BY <2>2
        <4>2. QED
          BY <3>3, <3>4, <4>1
      <3>6. \A j \in 1..6 : a[j] = d[j]
        <4> SUFFICES ASSUME NEW j \in 1..6 PROVE a[j] = d[j]
          OBVIOUS
        <4>1. CASE j = 6
          <5>1. p + j = n + 1
            BY <2>2, <4>1
          <5>2. QED
            BY <2>1, <3>1, <3>5, <4>1, <5>1
        <4>2. CASE j # 6
          <5>1. j \in 1..5
            BY <4>2
          <5>2. QED
            BY <1>1, <2>1, <3>1, <3>5, <5>1
        <4>3. QED
          BY <4>1, <4>2
      <3>7. a = d
        BY <3>1, <3>3, <3>5, <3>6, SeqEqual
      <3>8. QED
        BY <3>7 DEF a, d
    <2>5. TimeCall(t, p + 1) = IF secs < 0 THEN <<>> ELSE <<c>>
      <3>1. ~(FrameEnd(t, p + 1) > Len(t)) /\ t[FrameEnd(t, p + 1)] \notin NewLine
        <4>1. n + 1 \in Nat /\ ~(n + 1 > Len(t))
          BY <2>1, <2>2
        <4>2. QED
          BY <1>1, <2>1, <2>3, <4>1
      <3>2. secs = time_parse(CString(SubSeq(t, p + 1, p + 1 + 5)))
        BY <2>4 DEF secs
      <3>3. QED
        BY <3>1, <3>2, Zenon DEF TimeCall
    <2>6. r = Reading(t)[Here'][dbg_on]
      <3>1. n + 1 + 1 = n + 2
        BY <2>2
      <3>2. QED
        BY <1>6, <2>3, <3>1 DEF n
    <2> HIDE DEF r, c
    <2>7. CASE secs >= 0
      <3>1. Reading(t)[1][TRUE] = calls \o (<<c>> \o r) /\ Done' = Append(calls, c)
        BY <1>2, <1>4, <2>1, <2>5, <2>7
      <3>2. calls \in Seq(AllCalls) /\ r \in Seq(AllCalls) /\ c \in AllCalls
        <4>1. c \in AllCalls
          BY <1>2, <2>7 DEF AllCalls, c
        <4>2. QED
          BY <2>1, <4>1
      <3>3. calls \o (<<c>> \o r) = Append(calls, c) \o r
        BY <3>2, OneCall
      <3>4. QED
        BY <2>6, <3>1, <3>3
    <2>8. CASE ~(secs >= 0)
      <3>1. Reading(t)[1][TRUE] = calls \o (<<>> \o r) /\ Done' = calls
        BY <1>2, <1>4, <2>1, <2>5, <2>8
      <3>2. <<>> \o r = r
        BY <2>1, ConcatEmptySeq
      <3>3. QED
        BY <2>6, <3>1, <3>2
    <2>9. QED
      BY <2>7, <2>8
  <1>8. QED
    BY <1>1, <1>3, <1>4, <1>7 DEF FrameInv
-----------------------------------------------------------------------------
(* A step that only ends what was begun changes neither what was done nor  *)
(* what was read.                                                          *)
LEMMA SameUart ==
  ASSUME UartInv, hist' = hist, UNCHANGED frameVars, Done' = Done, Debug' = Debug
  PROVE  Account' /\ FrameInv'
  <1>1. Here' = Here /\ time_mode' = time_mode /\ time_buf' = time_buf
    BY DEF Here, frameVars
  <1>2. FrameInv'
    BY <1>1 DEF UartInv, FrameInv
  <1>3. Account'
    BY <1>1 DEF UartInv, Account, Begins
  <1>4. QED
    BY <1>2, <1>3

LEMMA ReadUart ==
  ASSUME UartInv, NEW b \in Input, hist' = Append(hist, b), calls' = calls, Read(b)
  PROVE  Account' /\ FrameInv'
  <1>1. \/ TimeEnd(b) \/ TimeChar(b) \/ TimeLast(b)
        \/ StartTime(b) \/ Colour(b) \/ Toggle(b) \/ Ignore(b)
    BY DEF Read
  <1>2. QED
    BY <1>1, TimeEndUart, TimeCharUart, TimeLastUart, StartTimeUart, ColourUart, ToggleUart,
       IgnoreUart

(* Every step of the task keeps its variables typed. *)
LEMMA ReadTyped ==
  ASSUME UartInv, NEW b \in Input, hist' = Append(hist, b), calls' = calls, Read(b)
  PROVE  TypeOK' /\ HistTyped'
  <1>1. /\ time_mode \in BOOLEAN /\ time_buf \in Seq(Input) /\ Len(time_buf) <= 5
        /\ timer_color \in {"R", "Y", "G"} /\ cmd \in {"R", "Y", "G"}
        /\ IsDelay(timer_delay_s) /\ dbg_on \in BOOLEAN /\ upc \in Stages
    BY DEF UartInv, TypeOK
  <1>2. HistTyped'
    BY AppendProperties DEF UartInv, HistTyped
  <1>3. <<>> \in Seq(Input) /\ Len(<<>>) <= 5
    BY EmptySeq
  <1>4. CASE TimeEnd(b)
    BY <1>1, <1>2, <1>3, <1>4 DEF TimeEnd, time_mode_reset, timerVars, TypeOK
  <1>5. CASE TimeChar(b)
    <2>1. time_buf' = Append(time_buf, b) /\ Len(time_buf) < 5
      BY <1>5 DEF TimeChar
    <2>2. time_buf' \in Seq(Input) /\ Len(time_buf') = Len(time_buf) + 1 /\ Len(time_buf) \in Nat
      BY <1>1, <2>1, AppendProperties
    <2>3. Len(time_buf') <= 5
      BY <2>1, <2>2
    <2>4. QED
      BY <1>1, <1>2, <1>5, <2>2, <2>3 DEF TimeChar, timerVars, TypeOK
  <1>6. CASE TimeLast(b)
    <2>1. IsDelay(timer_delay_s')
      BY <1>6, TimeLastUart
    <2>2. /\ time_mode' = FALSE /\ time_buf' = <<>> /\ UNCHANGED <<timer_color, dbg_on, cmd>>
          /\ upc' = "arm" \/ upc' = upc
      BY <1>6 DEF TimeLast, time_mode_reset
    <2>3. QED
      BY <1>1, <1>2, <1>3, <2>1, <2>2 DEF TypeOK, Stages
  <1>7. CASE StartTime(b)
    BY <1>1, <1>2, <1>3, <1>7 DEF StartTime, timerVars, TypeOK
  <1>8. CASE Colour(b)
    <2>1. \A x \in DOMAIN ColourOf : ColourOf[x] \in {"R", "Y", "G"}
      BY DEF ColourOf
    <2>2. /\ timer_color' \in {"R", "Y", "G"} /\ cmd' \in {"R", "Y", "G"} /\ upc' = "put"
          /\ UNCHANGED <<time_mode, time_buf, timer_delay_s, dbg_on>>
      BY <1>8, <2>1 DEF Colour, frameVars
    <2>3. QED
      BY <1>1, <1>2, <2>2 DEF TypeOK, Stages
  <1>9. CASE Toggle(b)
    BY <1>1, <1>2, <1>9 DEF Toggle, frameVars, timerVars, TypeOK, Stages
  <1>10. CASE Ignore(b)
    BY <1>1, <1>2, <1>10 DEF Ignore, frameVars, timerVars, TypeOK, Stages
  <1>11. QED
    BY <1>4, <1>5, <1>6, <1>7, <1>8, <1>9, <1>10 DEF Read

LEMMA NextUart ==
  ASSUME UartInv, [MCNext]_mcVars
  PROVE  UartInv'
  <1>1. /\ time_mode \in BOOLEAN /\ time_buf \in Seq(Input) /\ Len(time_buf) <= 5
        /\ timer_color \in {"R", "Y", "G"} /\ cmd \in {"R", "Y", "G"}
        /\ IsDelay(timer_delay_s) /\ dbg_on \in BOOLEAN /\ upc \in Stages
        /\ hist \in Seq(Input) /\ calls \in Seq(AllCalls)
    BY DEF UartInv, TypeOK, HistTyped
  <1>2. CASE MCRead
    <2>1. PICK b \in Input : Read(b) /\ hist' = Append(hist, b) /\ calls' = calls
      BY <1>2 DEF MCRead
    <2>2. QED
      BY <2>1, ReadUart, ReadTyped DEF UartInv
  <1>3. CASE (Wake \/ PostToggle) /\ UNCHANGED <<hist, calls>>
    <2>1. /\ upc' \in Stages /\ UNCHANGED <<time_mode, time_buf, timer_color, timer_delay_s>>
          /\ UNCHANGED <<dbg_on, cmd, hist, calls>>
      BY <1>3 DEF Wake, PostToggle, frameVars, timerVars, Stages
    <2>2. TypeOK' /\ HistTyped'
      BY <1>1, <2>1 DEF TypeOK, HistTyped
    <2>3. Done' = Done /\ Debug' = Debug
      BY <1>3, <2>1 DEF Wake, PostToggle, Done, Debug
    <2>4. QED
      BY <2>1, <2>2, <2>3, SameUart DEF UartInv, frameVars
  <1>4. CASE Does(Arm, <<"arm", timer_delay_s>>)
    <2>1. /\ upc = "arm" /\ upc' = "poll" /\ calls' = Append(calls, <<"arm", timer_delay_s>>)
          /\ UNCHANGED <<time_mode, time_buf, timer_color, timer_delay_s, dbg_on, cmd, hist>>
      BY <1>4 DEF Does, Arm, frameVars, timerVars
    <2>2. Done' = Done /\ Debug' = Debug
      BY <2>1 DEF Done, Debug
    <2>3. calls' \in Seq(AllCalls)
      <3>1. Done \in Seq(AllCalls) /\ calls' = Done
        BY <2>1, DoneTyped DEF Done, UartInv
      <3>2. QED
        BY <3>1
    <2>4. TypeOK' /\ HistTyped'
      BY <1>1, <2>1, <2>3 DEF TypeOK, HistTyped, Stages
    <2>5. QED
      BY <2>1, <2>2, <2>4, SameUart DEF UartInv, frameVars
  <1>5. CASE Does(PutColour, <<"put", cmd>>)
    <2>1. /\ upc = "put" /\ upc' = "poll" /\ calls' = Append(calls, <<"put", cmd>>)
          /\ UNCHANGED <<time_mode, time_buf, timer_color, timer_delay_s, dbg_on, cmd, hist>>
      BY <1>5 DEF Does, PutColour, frameVars, timerVars
    <2>2. Done' = Done /\ Debug' = Debug
      BY <2>1 DEF Done, Debug
    <2>3. calls' \in Seq(AllCalls)
      <3>1. Done \in Seq(AllCalls) /\ calls' = Done
        BY <2>1, DoneTyped DEF Done, UartInv
      <3>2. QED
        BY <3>1
    <2>4. TypeOK' /\ HistTyped'
      BY <1>1, <2>1, <2>3 DEF TypeOK, HistTyped, Stages
    <2>5. QED
      BY <2>1, <2>2, <2>4, SameUart DEF UartInv, frameVars
  <1>6. CASE Does(SetDebug, <<"toggle", ~dbg_on>>)
    <2>1. /\ upc = "assign" /\ upc' = "poll" /\ calls' = Append(calls, <<"toggle", ~dbg_on>>)
          /\ dbg_on' = ~dbg_on
          /\ UNCHANGED <<time_mode, time_buf, timer_color, timer_delay_s, cmd, hist>>
      BY <1>6 DEF Does, SetDebug, frameVars, timerVars
    <2>2. Done' = Done /\ Debug' = Debug
      BY <2>1 DEF Done, Debug
    <2>3. calls' \in Seq(AllCalls)
      <3>1. Done \in Seq(AllCalls) /\ calls' = Done
        BY <2>1, DoneTyped DEF Done, UartInv
      <3>2. QED
        BY <3>1
    <2>4. dbg_on' \in BOOLEAN /\ upc' \in Stages
      BY <2>1 DEF Stages
    <2>5. TypeOK' /\ HistTyped'
      BY <1>1, <2>1, <2>3, <2>4 DEF TypeOK, HistTyped
    <2>6. QED
      BY <2>1, <2>2, <2>5, SameUart DEF UartInv, frameVars
  <1>7. CASE UNCHANGED mcVars
    <2>1. UNCHANGED <<time_mode, time_buf, timer_color, timer_delay_s, dbg_on, upc, cmd, hist, calls>>
      BY <1>7 DEF mcVars, vars
    <2>2. TypeOK' /\ HistTyped' /\ Done' = Done /\ Debug' = Debug
      BY <1>1, <2>1 DEF TypeOK, HistTyped, Done, Debug
    <2>3. QED
      BY <2>1, <2>2, SameUart DEF UartInv, frameVars
  <1>8. QED
    BY <1>2, <1>3, <1>4, <1>5, <1>6, <1>7 DEF MCNext

LEMMA AlwaysUart == MCSpec => []UartInv
  <1>1. MCInit => UartInv
    BY InitUart
  <1>2. UartInv /\ [MCNext]_mcVars => UartInv'
    BY NextUart
  <1>3. QED
    BY <1>1, <1>2, PTL DEF MCSpec

(* The task's variables stay in their ranges: no time outgrows time_buf,   *)
(* and the delay is a second of a day (main.c:256-316).                    *)
THEOREM Typed == MCSpec => []TypeOK
  <1>1. UartInv => TypeOK
    BY DEF UartInv
  <1>2. QED
    BY <1>1, AlwaysUart, PTL

(* What is typed so far is one of the strings that begin so, and it ends   *)
(* here or, in time mode, within the frame.                                *)
LEMMA UartReads == UartInv => Expected(hist) = Done
  <1> SUFFICES ASSUME UartInv PROVE Reading(hist)[1][TRUE] = Done
    BY DEF Expected
  <1> DEFINE n == Len(hist)
             p == Here
  <1>1. /\ hist \in Seq(Input) /\ n \in Nat /\ time_mode \in BOOLEAN
        /\ Len(time_buf) \in Nat /\ Len(time_buf) <= 5
    BY DEF UartInv, TypeOK, HistTyped
  <1>2. Done \in Seq(AllCalls) /\ Debug \in BOOLEAN
    BY DoneTyped DEF UartInv
  <1>3. Reading(hist)[1][TRUE] = Done \o Reading(hist)[p][Debug]
    <2>1. Begins(hist, hist)
      BY <1>1 DEF Begins
    <2>2. QED
      BY <1>1, <2>1 DEF UartInv, Account
  <1>4. Reading(hist)[p][Debug] = <<>>
    <2>1. CASE ~time_mode
      <3>1. p \in n + 1..n + 7
        BY <1>1, <2>1 DEF Here
      <3>2. QED
        BY <1>1, <1>2, <3>1, ReadEnd
    <2>2. CASE time_mode
      <3>1. p \in 1..n /\ n = p + Len(time_buf)
        BY <1>1, <2>2 DEF UartInv, FrameInv, Here
      <3>2. toupper(hist[p]) = 65
            /\ \A j \in 1..Len(time_buf) :
                 time_buf[j] = hist[p + j] /\ time_buf[j] \notin NewLine
        BY <2>2 DEF UartInv, FrameInv
      <3> HIDE DEF n, p
      <3>3. FrameEnd(hist, p + 1) = p + 6
        <4>1. p + 1 \in 1..Len(hist) + 1 /\ p + 1 + 5 = p + 6
          BY <1>1, <3>1 DEF n
        <4>2. \A j \in p + 1..p + 1 + 5 : j <= Len(hist) => hist[j] \notin NewLine
          <5> SUFFICES ASSUME NEW j \in p + 1..p + 1 + 5, j <= n PROVE hist[j] \notin NewLine
            BY DEF n
          <5>1. j - p \in 1..Len(time_buf) /\ p + (j - p) = j
            BY <1>1, <3>1
          <5>2. QED
            BY <3>2, <5>1
        <4>3. QED
          BY <1>1, <4>1, <4>2, FrameEndIs
      <3>4. TimeCall(hist, p + 1) = <<>>
        <4>1. p + 6 > n
          BY <1>1, <3>1
        <4>2. FrameEnd(hist, p + 1) > Len(hist)
          BY <3>3, <4>1 DEF n
        <4>3. QED
          BY <4>2 DEF TimeCall
      <3>5. /\ CallAt(hist, p, Debug) = <<>> /\ DebugAt(hist, p, Debug) = Debug
            /\ NextAt(hist, p) = p + 6 + 1
        BY <3>2, <3>3, <3>4 DEF CallAt, DebugAt, NextAt
      <3>6. p \in 1..Len(hist) /\ p + 6 + 1 \in Len(hist) + 1..Len(hist) + 7
        BY <1>1, <3>1 DEF n
      <3>7. Reading(hist)[p][Debug] = <<>> \o Reading(hist)[p + 6 + 1][Debug]
        BY <1>1, <1>2, <3>5, <3>6, ReadStep
      <3>8. Reading(hist)[p + 6 + 1][Debug] = <<>>
        BY <1>1, <1>2, <3>6, ReadEnd
      <3>9. <<>> \o <<>> = <<>>
        BY EmptySeq, ConcatEmptySeq
      <3>10. QED
        BY <3>7, <3>8, <3>9
    <2>3. QED
      BY <1>1, <2>1, <2>2
  <1>5. QED
    BY <1>2, <1>3, <1>4, ConcatEmptySeq

(* Whatever string is typed, the task does what the string as a whole says *)
(* (main.c:269-316).                                                       *)
THEOREM ReadsStrings == MCSpec => []FramesRight
  <1>1. UartInv => FramesRight
    <2> SUFFICES ASSUME UartInv, upc \in {"poll", "sleep"} PROVE calls = Expected(hist)
      BY DEF FramesRight
    <2>1. Done = calls
      BY DEF Done
    <2>2. QED
      BY <2>1, UartReads
  <1>2. QED
    BY <1>1, AlwaysUart, PTL
-----------------------------------------------------------------------------
(* What the last call of a kind said, when a call is added. *)
LEMMA LastIs ==
  ASSUME NEW s \in Seq(AllCalls), NEW kind, NEW none
  PROVE  /\ \A m \in 1..Len(s) :
              s[m][1] = kind /\ (\A j \in 1..Len(s) : s[j][1] = kind => j <= m)
                => LastOf(s, kind, none) = s[m][2]
         /\ (\A j \in 1..Len(s) : s[j][1] # kind) => LastOf(s, kind, none) = none
         /\ \/ \A j \in 1..Len(s) : s[j][1] # kind
            \/ \E m \in 1..Len(s) :
                 s[m][1] = kind /\ \A j \in 1..Len(s) : s[j][1] = kind => j <= m
  <1> DEFINE N == Len(s)
             I == {i \in 1..N : s[i][1] = kind}
             last == IF I # {} THEN Max(I) ELSE 0
  <1>1. N \in Nat /\ LastOf(s, kind, none) = IF last = 0 THEN none ELSE s[last][2]
    BY DEF LastOf, SelectLastInSeq
  <1> HIDE DEF N
  <1>2. ASSUME NEW m \in I, \A j \in I : j <= m
        PROVE  last = m
    <2>1. Max(I) \in I /\ \A j \in I : Max(I) >= j
      <3>1. m \in I /\ \A j \in I : m >= j
        BY <1>1, <1>2
      <3> HIDE DEF I
      <3>2. QED
        BY <3>1 DEF Max
    <2>2. Max(I) <= m /\ Max(I) >= m /\ Max(I) \in Nat /\ m \in Nat
      BY <1>1, <1>2, <2>1
    <2>3. QED
      BY <1>2, <2>2
  <1>3. ASSUME I # {}
        PROVE  \E m \in I : \A j \in I : j <= m
    <2> DEFINE U == {k \in 0..N : N - k \in I}
    <2>1. U \in SUBSET Nat
      BY <1>1
    <2>2. U # {}
      <3>1. PICK i \in I : TRUE
        BY <1>3
      <3>2. N - i \in 0..N /\ N - (N - i) = i
        BY <1>1
      <3>3. QED
        BY <3>1, <3>2
    <2>3. PICK k \in U : \A l \in U : k <= l
      <3> HIDE DEF U
      <3>1. QED
        BY <2>1, <2>2, LeastNumber
    <2>4. N - k \in I
      OBVIOUS
    <2>5. ASSUME NEW j \in I PROVE j <= N - k
      <3>1. N - j \in 0..N /\ N - (N - j) = j /\ j \in Nat
        BY <1>1
      <3>2. N - j \in U
        BY <3>1
      <3>3. k <= N - j /\ k \in 0..N
        BY <2>3, <3>2
      <3>4. QED
        BY <1>1, <3>1, <3>3
    <2>6. QED
      BY <2>4, <2>5
  <1>4. ASSUME NEW m \in 1..N, s[m][1] = kind, \A j \in 1..N : s[j][1] = kind => j <= m
        PROVE  LastOf(s, kind, none) = s[m][2]
    <2>1. last = m
      BY <1>2, <1>4
    <2>2. m # 0
      BY <1>1
    <2> HIDE DEF last
    <2>3. QED
      BY <1>1, <2>1, <2>2
  <1>5. (\A j \in 1..N : s[j][1] # kind) => LastOf(s, kind, none) = none
    BY <1>1
  <1>6. \/ \A j \in 1..N : s[j][1] # kind
        \/ \E m \in 1..N : s[m][1] = kind /\ \A j \in 1..N : s[j][1] = kind => j <= m
    BY <1>3
  <1>7. QED
    BY <1>4, <1>5, <1>6 DEF N

LEMMA LastAppended ==
  ASSUME NEW s \in Seq(AllCalls), NEW c \in AllCalls, NEW kind, NEW none
  PROVE  LastOf(Append(s, c), kind, none) = IF c[1] = kind THEN c[2] ELSE LastOf(s, kind, none)
  <1> DEFINE t == Append(s, c)
             n == Len(s)
  <1>1. /\ n \in Nat /\ t \in Seq(AllCalls) /\ Len(t) = n + 1 /\ t[n + 1] = c
        /\ \A j \in 1..n : t[j] = s[j]
    BY AppendProperties
  <1> HIDE DEF t, n
  <1>2. CASE c[1] = kind
    <2>1. n + 1 \in 1..Len(t) /\ \A j \in 1..Len(t) : j <= n + 1
      BY <1>1
    <2>2. t[n + 1][1] = kind
      BY <1>1, <1>2
    <2>3. LastOf(t, kind, none) = t[n + 1][2]
      BY <1>1, <2>1, <2>2, LastIs
    <2>4. QED
      BY <1>1, <1>2, <2>3 DEF t
  <1>3. CASE c[1] # kind
    <2>1. \A j \in 1..Len(t) : t[j][1] = kind => j \in 1..n
      BY <1>1, <1>3
    <2>2. CASE \A j \in 1..n : s[j][1] # kind
      <3>1. LastOf(s, kind, none) = none
        BY <2>2, LastIs DEF n
      <3>2. \A j \in 1..Len(t) : t[j][1] # kind
        BY <1>1, <2>1, <2>2
      <3>3. LastOf(t, kind, none) = none
        BY <1>1, <3>2, LastIs
      <3>4. QED
        BY <1>3, <3>1, <3>3 DEF t
    <2>3. ASSUME NEW m \in 1..n, s[m][1] = kind, \A j \in 1..n : s[j][1] = kind => j <= m
          PROVE  LastOf(t, kind, none) = LastOf(s, kind, none)
      <3>1. LastOf(s, kind, none) = s[m][2]
        BY <2>3, LastIs DEF n
      <3>2. /\ m \in 1..Len(t) /\ t[m][1] = kind /\ t[m] = s[m]
            /\ \A j \in 1..Len(t) : t[j][1] = kind => j <= m
        BY <1>1, <2>1, <2>3
      <3>3. LastOf(t, kind, none) = t[m][2]
        <4>1. t \in Seq(AllCalls)
          BY <1>1
        <4>2. QED
          BY <3>2, <4>1, LastIs
      <3>4. QED
        BY <3>1, <3>2, <3>3
    <2>4. \/ \A j \in 1..n : s[j][1] # kind
          \/ \E m \in 1..n : s[m][1] = kind /\ \A j \in 1..n : s[j][1] = kind => j <= m
      BY LastIs DEF n
    <2>5. QED
      BY <1>3, <2>2, <2>3, <2>4 DEF t
  <1>4. QED
    BY <1>2, <1>3

(* The timer's settings are the last ones of what has been done. *)
LastInv == /\ timer_color = LastOf(Done, "put", "R")
           /\ timer_delay_s = LastOf(Done, "arm", 0)

LEMMA ReadLast ==
  ASSUME UartInv, LastInv, NEW b \in Input, hist' = Append(hist, b), calls' = calls, Read(b)
  PROVE  LastInv'
  <1>1. Done \in Seq(AllCalls)
    BY DoneTyped DEF UartInv
  <1>2. ASSUME Done' = Done, UNCHANGED timerVars
        PROVE  LastInv'
    BY <1>2 DEF LastInv, timerVars
  <1>3. CASE TimeEnd(b)
    BY <1>2, <1>3, TimeEndUart DEF TimeEnd
  <1>4. CASE TimeChar(b)
    BY <1>2, <1>4, TimeCharUart DEF TimeChar
  <1>5. CASE StartTime(b)
    BY <1>2, <1>5, StartTimeUart DEF StartTime
  <1>6. CASE Ignore(b)
    BY <1>2, <1>6, IgnoreUart DEF Ignore
  <1>7. CASE TimeLast(b)
    <2> DEFINE c == <<"arm", timer_delay_s'>>
    <2>1. timer_color' = timer_color /\ IsDelay(timer_delay_s')
      BY <1>7, TimeLastUart DEF TimeLast
    <2>2. c \in AllCalls /\ c[1] = "arm" /\ c[2] = timer_delay_s'
      BY <2>1 DEF AllCalls, IsDelay
    <2> HIDE DEF c
    <2>3. CASE Done' = Append(Done, c)
      <3>1. c[1] # "put"
        BY <2>2
      <3>2. LastOf(Append(Done, c), "put", "R") = LastOf(Done, "put", "R")
        BY <1>1, <2>2, <3>1, LastAppended
      <3>3. LastOf(Append(Done, c), "arm", 0) = timer_delay_s'
        BY <1>1, <2>2, LastAppended
      <3>4. QED
        BY <2>1, <2>3, <3>2, <3>3 DEF LastInv
    <2>4. CASE Done' = Done /\ timer_delay_s' = timer_delay_s
      BY <2>1, <2>4 DEF LastInv
    <2>5. QED
      BY <1>7, <2>3, <2>4, TimeLastUart DEF c
  <1>8. CASE Colour(b)
    <2> DEFINE c == <<"put", timer_color'>>
    <2>1. /\ Done' = Append(Done, c) /\ timer_delay_s' = timer_delay_s
          /\ timer_color' \in {"R", "Y", "G"}
      <3>1. TypeOK'
        BY <1>8, ReadTyped
      <3>2. QED
        BY <1>8, <3>1, ColourUart DEF TypeOK
    <2>2. c \in AllCalls /\ c[1] = "put" /\ c[2] = timer_color'
      BY <2>1 DEF AllCalls
    <2> HIDE DEF c
    <2>3. c[1] # "arm"
      BY <2>2
    <2>4. LastOf(Append(Done, c), "put", "R") = timer_color'
      BY <1>1, <2>2, LastAppended
    <2>5. LastOf(Append(Done, c), "arm", 0) = LastOf(Done, "arm", 0)
      BY <1>1, <2>2, <2>3, LastAppended
    <2>6. QED
      BY <2>1, <2>4, <2>5 DEF LastInv
  <1>9. CASE Toggle(b)
    <2> DEFINE c == <<"toggle", ~dbg_on>>
    <2>1. Done' = Append(Done, c) /\ UNCHANGED timerVars /\ dbg_on \in BOOLEAN
      BY <1>9, ToggleUart DEF Toggle, UartInv, TypeOK
    <2>2. c \in AllCalls
      BY <2>1 DEF AllCalls
    <2>3. c[1] # "put" /\ c[1] # "arm"
      OBVIOUS
    <2> HIDE DEF c
    <2>4. LastOf(Append(Done, c), "put", "R") = LastOf(Done, "put", "R")
      BY <1>1, <2>2, <2>3, LastAppended
    <2>5. LastOf(Append(Done, c), "arm", 0) = LastOf(Done, "arm", 0)
      BY <1>1, <2>2, <2>3, LastAppended
    <2>6. QED
      BY <2>1, <2>4, <2>5 DEF LastInv, timerVars
  <1>10. QED
    BY <1>3, <1>4, <1>5, <1>6, <1>7, <1>8, <1>9 DEF Read

LEMMA NextLast ==
  ASSUME UartInv, LastInv, [MCNext]_mcVars
  PROVE  LastInv'
  <1>1. CASE MCRead
    BY <1>1, ReadLast DEF MCRead
  <1>2. ASSUME Done' = Done, UNCHANGED timerVars
        PROVE  LastInv'
    BY <1>2 DEF LastInv, timerVars
  <1>3. CASE (Wake \/ PostToggle) /\ UNCHANGED <<hist, calls>>
    BY <1>2, <1>3 DEF Wake, PostToggle, timerVars, Done
  <1>4. CASE Does(Arm, <<"arm", timer_delay_s>>)
    BY <1>2, <1>4 DEF Does, Arm, timerVars, Done
  <1>5. CASE Does(PutColour, <<"put", cmd>>)
    BY <1>2, <1>5 DEF Does, PutColour, timerVars, Done
  <1>6. CASE Does(SetDebug, <<"toggle", ~dbg_on>>)
    BY <1>2, <1>6 DEF Does, SetDebug, timerVars, Done
  <1>7. CASE UNCHANGED mcVars
    BY <1>2, <1>7 DEF mcVars, vars, timerVars, Done
  <1>8. QED
    BY <1>1, <1>3, <1>4, <1>5, <1>6, <1>7 DEF MCNext

(* The timer lights the last colour typed after the last valid delay, in   *)
(* whatever order they were typed (main.c:256-258).                        *)
THEOREM LastTyped == MCSpec => []LastSettings
  <1>1. MCInit => LastInv
    <2> SUFFICES ASSUME MCInit PROVE LastInv
      OBVIOUS
    <2>1. Done = <<>> /\ timer_color = "R" /\ timer_delay_s = 0
      BY DEF MCInit, Init, Done
    <2>2. \A kind, none : LastOf(<<>>, kind, none) = none
      <3> DEFINE e == <<>>
      <3>1. e \in Seq(AllCalls) /\ \A j \in 1..Len(e) : FALSE
        BY EmptySeq
      <3> HIDE DEF e
      <3>2. ASSUME NEW kind, NEW none PROVE LastOf(e, kind, none) = none
        <4>1. \A j \in 1..Len(e) : e[j][1] # kind
          BY <3>1
        <4>2. QED
          BY <3>1, <4>1, LastIs
      <3>3. QED
        BY <3>2 DEF e
    <2>3. QED
      BY <2>1, <2>2 DEF LastInv
  <1>2. UartInv /\ LastInv /\ [MCNext]_mcVars => LastInv'
    BY NextLast
  <1>3. UartInv /\ LastInv => LastSettings
    <2> SUFFICES ASSUME UartInv, LastInv, upc \in {"poll", "sleep"}
                 PROVE  /\ timer_color = LastOf(Expected(hist), "put", "R")
                        /\ timer_delay_s = LastOf(Expected(hist), "arm", 0)
      BY DEF LastSettings
    <2>1. QED
      BY UartReads DEF LastInv
  <1>4. QED
    BY <1>1, <1>2, <1>3, AlwaysUart, PTL DEF MCSpec
=============================================================================
