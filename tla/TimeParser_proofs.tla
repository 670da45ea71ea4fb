-------------------------- MODULE TimeParser_proofs --------------------------
(***************************************************************************)
(* Proofs about time_parse for every C string, where TLC checks a small    *)
(* alphabet.                                                               *)
(***************************************************************************)
EXTENDS TimeParser, SequenceTheorems, TLAPS

(* A string that passes the format check is six digits.                    *)
LEMMA SixDigits ==
  ASSUME NEW time \in String \cup {NULL}, formatError(time) >= 0
  PROVE  /\ formatError(time) = 0
         /\ time \in String
         /\ Len(time) = 6
         /\ \A i \in 1..6 : time[i] \in Digit
  BY DEF formatError, TIME_ARRAY_ERROR, TIME_LEN_ERROR

(* Two digits read as a number from 0 to 99, and as no other two digits.   *)
LEMMA TwoDigitValue ==
  ASSUME NEW a \in Digit, NEW b \in Digit
  PROVE  /\ atoi2(a, b) \in 0..99
         /\ twoDigits(atoi2(a, b)) = <<a, b>>
  <1>1. atoi2(a, b) \in 0..99
    BY DEF atoi2, Digit, DigitZero
  <1>2. atoi2(a, b) \div 10 = a - DigitZero /\ atoi2(a, b) % 10 = b - DigitZero
    BY DEF atoi2, Digit, DigitZero
  <1>3. QED
    BY <1>1, <1>2 DEF twoDigits, Digit, DigitZero

(* atoi undoes the writing of a number in two digits.                      *)
LEMMA ReadBack ==
  ASSUME NEW n \in 0..99
  PROVE  /\ twoDigits(n) \in Seq(Digit) /\ Len(twoDigits(n)) = 2
         /\ atoi2(twoDigits(n)[1], twoDigits(n)[2]) = n
  <1>1. n \div 10 \in 0..9 /\ n % 10 \in 0..9 /\ n = 10 * (n \div 10) + (n % 10)
    OBVIOUS
  <1>2. QED
    BY <1>1 DEF twoDigits, atoi2, Digit, DigitZero

(* The firmware's parser and the unit-tested library agree on every input. *)
THEOREM ParsersAgreeAlways ==
  \A time \in String \cup {NULL} : time_parse(time) = library_time_parse(time)
  <1>1. SUFFICES ASSUME NEW time \in String \cup {NULL}
                 PROVE  time_parse(time) = library_time_parse(time)
    OBVIOUS
  <1>2. CASE formatError(time) >= 0
    <2>1. /\ hourOf(time) \in 0..99
          /\ minuteOf(time) \in 0..99
          /\ secondOf(time) \in 0..99
      BY <1>2, SixDigits, TwoDigitValue DEF hourOf, minuteOf, secondOf
    <2>2. QED
      BY <1>2, <2>1, SixDigits DEF time_parse, library_time_parse
  <1>3. CASE formatError(time) < 0
    BY <1>3 DEF time_parse, library_time_parse
  <1>4. formatError(time) \in Int
    BY DEF formatError, TIME_ARRAY_ERROR, TIME_LEN_ERROR
  <1>5. QED
    BY <1>2, <1>3, <1>4

(* time is the text of the clock time h:m:s, which is the n-th second.     *)
Names(time, h, m, s, n) == time = HHMMSS(h, m, s) /\ n = SecondOfDay(h, m, s)

(* A result that is not an error is a second of the day, and the string    *)
(* names that very second: no other string is accepted.                    *)
THEOREM OnlyClockTimes ==
  ASSUME NEW time \in String \cup {NULL}, time_parse(time) >= 0
  PROVE  \E h \in 0..23, m \in 0..59, s \in 0..59 :
            Names(time, h, m, s, time_parse(time))
  <1>1. formatError(time) >= 0
    BY DEF time_parse, formatError, TIME_ARRAY_ERROR, TIME_LEN_ERROR
  <1>2. time \in String /\ Len(time) = 6 /\ \A i \in 1..6 : time[i] \in Digit
    BY <1>1, SixDigits
  <1>3. /\ hourOf(time) \in 0..99
        /\ minuteOf(time) \in 0..99
        /\ secondOf(time) \in 0..99
    BY <1>2, TwoDigitValue DEF hourOf, minuteOf, secondOf
  <1>4. /\ hourOf(time) \in 0..23
        /\ minuteOf(time) \in 0..59
        /\ secondOf(time) \in 0..59
        /\ time_parse(time) = seconds(time)
    BY <1>1, <1>3, SixDigits DEF time_parse, TIME_VALUE_ERROR
  <1>5. PICK h \in 0..23, m \in 0..59, s \in 0..59 :
          hourOf(time) = h /\ minuteOf(time) = m /\ secondOf(time) = s
    BY <1>4
  <1>6. time_parse(time) = SecondOfDay(h, m, s)
    BY <1>4, <1>5 DEF seconds, SecondOfDay
  <1>7. time = HHMMSS(h, m, s)
    <2>1. /\ twoDigits(h) = <<time[1], time[2]>>
          /\ twoDigits(m) = <<time[3], time[4]>>
          /\ twoDigits(s) = <<time[5], time[6]>>
      BY <1>2, <1>5, TwoDigitValue DEF hourOf, minuteOf, secondOf
    <2>2. time = <<time[1], time[2]>> \o <<time[3], time[4]>> \o <<time[5], time[6]>>
      BY <1>2 DEF String
    <2>3. QED
      BY <2>1, <2>2 DEF HHMMSS
  <1>8. Names(time, h, m, s, time_parse(time))
    BY <1>6, <1>7 DEF Names
  <1>9. QED
    BY <1>8

(* Two pairs of digits, or a pair after more, keep their digits in place.  *)
LEMMA ConcatAt ==
  ASSUME NEW a \in Seq(Digit), NEW b \in Seq(Digit)
  PROVE  /\ a \o b \in Seq(Digit) /\ Len(a \o b) = Len(a) + Len(b)
         /\ \A i \in 1..Len(a) : (a \o b)[i] = a[i]
         /\ \A i \in 1..Len(b) : (a \o b)[Len(a) + i] = b[i]
  <1>1. /\ a \o b \in Seq(Digit) /\ Len(a \o b) = Len(a) + Len(b)
        /\ \A i \in 1 .. Len(a) + Len(b) :
              (a \o b)[i] = IF i <= Len(a) THEN a[i] ELSE b[i - Len(a)]
    BY ConcatProperties
  <1>2. Len(a) \in Nat /\ Len(b) \in Nat
    OBVIOUS
  <1>3. QED
    BY <1>1, <1>2

(* Three pairs of digits joined keep their digits in place.                *)
LEMMA ThreePairs ==
  ASSUME NEW a \in Seq(Digit), NEW b \in Seq(Digit), NEW c \in Seq(Digit),
         Len(a) = 2, Len(b) = 2, Len(c) = 2
  PROVE  /\ a \o b \o c \in Seq(Digit) /\ Len(a \o b \o c) = 6
         /\ (a \o b \o c)[1] = a[1] /\ (a \o b \o c)[2] = a[2]
         /\ (a \o b \o c)[3] = b[1] /\ (a \o b \o c)[4] = b[2]
         /\ (a \o b \o c)[5] = c[1] /\ (a \o b \o c)[6] = c[2]
  <1> DEFINE ab == a \o b
  <1>1. /\ ab \in Seq(Digit) /\ Len(ab) = 4
        /\ \A i \in 1..2 : ab[i] = a[i]
        /\ \A i \in 1..2 : ab[2 + i] = b[i]
    <2>1. /\ ab \in Seq(Digit) /\ Len(ab) = Len(a) + Len(b)
          /\ \A i \in 1..Len(a) : ab[i] = a[i]
          /\ \A i \in 1..Len(b) : ab[Len(a) + i] = b[i]
      BY ConcatAt
    <2> HIDE DEF ab
    <2>2. QED
      BY <2>1
  <1> HIDE DEF ab
  <1>2. /\ ab \o c \in Seq(Digit) /\ Len(ab \o c) = 6
        /\ \A i \in 1..4 : (ab \o c)[i] = ab[i]
        /\ \A i \in 1..2 : (ab \o c)[4 + i] = c[i]
    <2> DEFINE abc == ab \o c
    <2>1. /\ abc \in Seq(Digit) /\ Len(abc) = Len(ab) + Len(c)
          /\ \A i \in 1..Len(ab) : abc[i] = ab[i]
          /\ \A i \in 1..Len(c) : abc[Len(ab) + i] = c[i]
      BY <1>1, ConcatAt
    <2> HIDE DEF abc
    <2>2. /\ abc \in Seq(Digit) /\ Len(abc) = 6
          /\ \A i \in 1..4 : abc[i] = ab[i]
          /\ \A i \in 1..2 : abc[4 + i] = c[i]
      BY <1>1, <2>1
    <2>3. QED
      BY <2>2 DEF abc
  <1>3. /\ ab[1] = a[1] /\ ab[2] = a[2] /\ ab[3] = b[1] /\ ab[4] = b[2]
        /\ (ab \o c)[5] = c[1] /\ (ab \o c)[6] = c[2]
    BY <1>1, <1>2
  <1>4. QED
    BY <1>2, <1>3 DEF ab

(* Every time of day is accepted and read as the seconds since midnight.   *)
THEOREM EveryClockTime ==
  ASSUME NEW h \in 0..23, NEW m \in 0..59, NEW s \in 0..59
  PROVE  time_parse(HHMMSS(h, m, s)) = SecondOfDay(h, m, s)
  <1> DEFINE t == HHMMSS(h, m, s)
  <1>0. h \in 0..99 /\ m \in 0..99 /\ s \in 0..99
    OBVIOUS
  <1>1. /\ t \in Seq(Digit) /\ Len(t) = 6
        /\ t[1] = twoDigits(h)[1] /\ t[2] = twoDigits(h)[2]
        /\ t[3] = twoDigits(m)[1] /\ t[4] = twoDigits(m)[2]
        /\ t[5] = twoDigits(s)[1] /\ t[6] = twoDigits(s)[2]
    <2>1. /\ twoDigits(h) \in Seq(Digit) /\ Len(twoDigits(h)) = 2
          /\ twoDigits(m) \in Seq(Digit) /\ Len(twoDigits(m)) = 2
          /\ twoDigits(s) \in Seq(Digit) /\ Len(twoDigits(s)) = 2
      BY <1>0, ReadBack
    <2>2. QED
      BY <2>1, ThreePairs DEF HHMMSS
  <1> HIDE DEF t
  <1>2. t \in String /\ t # NULL
    BY <1>1, NullAssumption DEF String, Digit, DigitZero, Char
  <1>3. hourOf(t) = h /\ minuteOf(t) = m /\ secondOf(t) = s
    <2>1. /\ atoi2(twoDigits(h)[1], twoDigits(h)[2]) = h
          /\ atoi2(twoDigits(m)[1], twoDigits(m)[2]) = m
          /\ atoi2(twoDigits(s)[1], twoDigits(s)[2]) = s
      BY <1>0, ReadBack
    <2>2. QED
      BY <1>1, <2>1 DEF hourOf, minuteOf, secondOf
  <1>4. formatError(t) = 0
    <2>1. \A i \in 1..6 : t[i] \in Digit
      BY <1>1, ElementOfSeq
    <2>2. QED
      BY <1>1, <1>2, <2>1 DEF formatError
  <1>5. time_parse(t) = SecondOfDay(h, m, s)
    BY <1>3, <1>4 DEF time_parse, seconds, SecondOfDay
  <1>6. QED
    BY <1>5 DEF t
=============================================================================
