------------------------ MODULE MCTimeParser_proofs -------------------------
(***************************************************************************)
(* The two properties of MCTimeParser, for every alphabet of characters.   *)
(***************************************************************************)
EXTENDS MCTimeParser, TimeParser_proofs

IsInput == time \in String \cup {NULL}

LEMMA AlwaysInput == Spec => []IsInput
  <1>1. Init => IsInput
    <2>1. <<>> \in String
      BY EmptySeq DEF String
    <2>2. QED
      BY <2>1 DEF Init, IsInput
  <1>2. IsInput /\ [Next]_time => IsInput'
    <2>1. ASSUME NEW t \in String, NEW c \in Char
          PROVE  Append(t, c) \in String
      BY <2>1, AppendProperties DEF String
    <2>2. ASSUME IsInput, Grow
          PROVE  IsInput'
      <3>1. PICK c \in Alphabet : time' = Append(time, c)
        BY <2>2 DEF Grow
      <3>2. c \in Char /\ time \in String
        BY <2>2, AlphabetAssumption DEF IsInput, Grow
      <3>3. QED
        BY <2>1, <3>1, <3>2 DEF IsInput
    <2>3. ASSUME IsInput, TooLong
          PROVE  IsInput'
      <3>1. DigitZero \in Char /\ time \in String
        BY <2>3 DEF IsInput, TooLong, DigitZero, Char
      <3>2. time' = Append(time, DigitZero)
        BY <2>3 DEF TooLong
      <3>3. QED
        BY <2>1, <3>1, <3>2 DEF IsInput
    <2>4. ASSUME IsInput, UNCHANGED time
          PROVE  IsInput'
      BY <2>4 DEF IsInput
    <2>5. QED
      BY <2>2, <2>3, <2>4 DEF Next
  <1>3. QED
    BY <1>1, <1>2, PTL DEF Spec

(* Whatever is typed, the firmware parses it as the unit-tested code does. *)
THEOREM AlwaysAgree == Spec => []ParsersAgree
  <1>1. IsInput => ParsersAgree
    BY ParsersAgreeAlways DEF IsInput, ParsersAgree
  <1>2. QED
    BY <1>1, AlwaysInput, PTL

LEMMA SecondsCount ==
  ASSUME NEW h \in 0..23, NEW m \in 0..59, NEW s \in 0..59
  PROVE  SecondOfDay(h, m, s) \in Nat
  BY DEF SecondOfDay

LEMMA ResultIsInteger ==
  ASSUME NEW t \in String \cup {NULL}
  PROVE  time_parse(t) \in Int
  <1>1. CASE formatError(t) >= 0
    <2>1. /\ hourOf(t) \in 0..99
          /\ minuteOf(t) \in 0..99
          /\ secondOf(t) \in 0..99
      BY <1>1, SixDigits, TwoDigitValue DEF hourOf, minuteOf, secondOf
    <2>2. seconds(t) \in Int
      <3> DEFINE h == hourOf(t)
                 m == minuteOf(t)
                 s == secondOf(t)
      <3>1. h \in 0..99 /\ m \in 0..99 /\ s \in 0..99
        BY <2>1
      <3> HIDE DEF h, m, s
      <3>2. h * 3600 + m * 60 + s \in Int
        BY <3>1
      <3>3. QED
        BY <3>2 DEF seconds, h, m, s
    <2>3. formatError(t) = 0
      BY <1>1, SixDigits
    <2>4. QED
      BY <2>2, <2>3 DEF time_parse, TIME_VALUE_ERROR
  <1>2. CASE formatError(t) < 0
    BY <1>2 DEF time_parse, formatError, TIME_ARRAY_ERROR, TIME_LEN_ERROR
  <1>3. formatError(t) \in Int
    BY DEF formatError, TIME_ARRAY_ERROR, TIME_LEN_ERROR
  <1>4. QED
    BY <1>1, <1>2, <1>3

(* The digits in their places, or the text: the same time.                 *)
LEMMA PlacesAreText ==
  ASSUME time \in String, Len(time) = 6,
         NEW h \in 0..23, NEW m \in 0..59, NEW s \in 0..59
  PROVE  time = HHMMSS(h, m, s) <=> At(1, h) /\ At(3, m) /\ At(5, s)
  <1> DEFINE text == HHMMSS(h, m, s)
  <1>1. /\ text \in Seq(Digit) /\ Len(text) = 6
        /\ text[1] = twoDigits(h)[1] /\ text[2] = twoDigits(h)[2]
        /\ text[3] = twoDigits(m)[1] /\ text[4] = twoDigits(m)[2]
        /\ text[5] = twoDigits(s)[1] /\ text[6] = twoDigits(s)[2]
    <2>1. h \in 0..99 /\ m \in 0..99 /\ s \in 0..99
      OBVIOUS
    <2>2. /\ twoDigits(h) \in Seq(Digit) /\ Len(twoDigits(h)) = 2
          /\ twoDigits(m) \in Seq(Digit) /\ Len(twoDigits(m)) = 2
          /\ twoDigits(s) \in Seq(Digit) /\ Len(twoDigits(s)) = 2
      BY <2>1, ReadBack
    <2>3. QED
      BY <2>2, ThreePairs DEF HHMMSS
  <1> HIDE DEF text
  <1>2. text \in String
    BY <1>1 DEF String, Digit, DigitZero, Char
  <1>3. (\A i \in 1 .. 6 : time[i] = text[i]) => time = text
    BY <1>1, <1>2, SeqEqual DEF String
  <1>4. At(1, h) /\ At(3, m) /\ At(5, s) <=> \A i \in 1 .. 6 : time[i] = text[i]
    BY <1>1 DEF At
  <1>5. QED
    BY <1>3, <1>4 DEF text

(* The parser accepts exactly the strings HHMMSS of a day.                 *)
THEOREM AlwaysClockTimes == Spec => []ParsesClockTimes
  <1>1. ASSUME IsInput, ~(time_parse(time) < 0)
        PROVE  ParsesClockTimes
    <2>1. time_parse(time) \in Int
      BY <1>1, ResultIsInteger DEF IsInput
    <2>2. time_parse(time) >= 0
      BY <1>1, <2>1
    <2>3. PICK h \in 0..23, m \in 0..59, s \in 0..59 :
            Names(time, h, m, s, time_parse(time))
      BY <1>1, <2>2, OnlyClockTimes DEF IsInput
    <2>4. formatError(time) >= 0
      BY <2>2 DEF time_parse, formatError, TIME_ARRAY_ERROR, TIME_LEN_ERROR
    <2>5. time \in String /\ Len(time) = 6
      BY <1>1, <2>4, SixDigits DEF IsInput
    <2>6. time = HHMMSS(h, m, s) /\ time_parse(time) = SecondOfDay(h, m, s)
      BY <2>3 DEF Names
    <2>7. At(1, h) /\ At(3, m) /\ At(5, s)
      BY <2>5, <2>6, PlacesAreText
    <2>8. time # NULL
      BY <2>5, NullAssumption
    <2>9. QED
      BY <1>1, <2>5, <2>6, <2>7, <2>8 DEF ParsesClockTimes
  <1>2. ASSUME IsInput, time_parse(time) < 0
        PROVE  ParsesClockTimes
    <2>1. ASSUME time # NULL, Len(time) = 6,
                 NEW h \in 0..23, NEW m \in 0..59, NEW s \in 0..59,
                 At(1, h), At(3, m), At(5, s)
          PROVE  FALSE
      <3>1. time \in String
        BY <1>2, <2>1 DEF IsInput
      <3>2. time = HHMMSS(h, m, s)
        BY <2>1, <3>1, PlacesAreText
      <3>3. time_parse(HHMMSS(h, m, s)) = SecondOfDay(h, m, s)
        BY <2>1, EveryClockTime
      <3>4. SecondOfDay(h, m, s) \in Nat
        BY SecondsCount
      <3>5. ASSUME NEW n, n = SecondOfDay(h, m, s), n < 0
            PROVE  FALSE
        BY <3>4, <3>5
      <3>6. QED
        BY <1>2, <3>2, <3>3, <3>5
    <2>2. QED
      BY <1>2, <2>1 DEF ParsesClockTimes
  <1>3. IsInput => ParsesClockTimes
    BY <1>1, <1>2
  <1>4. QED
    BY <1>3, AlwaysInput, PTL
=============================================================================
