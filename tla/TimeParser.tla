----------------------------- MODULE TimeParser -----------------------------
(***************************************************************************)
(* time_parse, which turns the six digits HHMMSS into seconds, in its two  *)
(* versions: the static function of the firmware (main.c) and the library  *)
(* that the unit tests exercise (parser/TimeParser.cpp).  The firmware     *)
(* never runs the version that was tested, so that they agree matters.     *)
(*                                                                         *)
(* A C string is the sequence of the bytes before its terminating zero.    *)
(***************************************************************************)
EXTENDS Integers, Sequences

CONSTANT NULL   \* the null pointer

TIME_LEN_ERROR   == -1
TIME_ARRAY_ERROR == -2
TIME_VALUE_ERROR == -3

Char == 1..255          \* a byte of a C string
DigitZero == 48
Digit == DigitZero..57

String == Seq(Char)

ASSUME NullAssumption == NULL \notin String

(* atoi of a string of two digits. *)
atoi2(tens, ones) == 10 * (tens - DigitZero) + (ones - DigitZero)

hourOf(time)   == atoi2(time[1], time[2])
minuteOf(time) == atoi2(time[3], time[4])
MutantSecondOf(time) == atoi2(time[6], time[5])   \* the digits swapped
secondOf(time) == atoi2(time[5], time[6])

seconds(time) == hourOf(time) * 3600 + minuteOf(time) * 60 + secondOf(time)

(* The checks both versions share, on the pointer, length and digits. *)
formatError(time) == IF time = NULL THEN TIME_ARRAY_ERROR
                     ELSE IF \/ Len(time) # 6
                             \/ \E i \in 1..6 : time[i] \notin Digit
                          THEN TIME_LEN_ERROR
                          ELSE 0

(* The hour 24 accepted. *)
MutantTimeParse(time) ==
  IF formatError(time) < 0 THEN formatError(time)
  ELSE IF hourOf(time) > 24 \/ minuteOf(time) > 59 \/ secondOf(time) > 59
       THEN TIME_VALUE_ERROR
       ELSE seconds(time)

(* LIIKENNEVALOT/src/main.c *)
time_parse(time) ==
  IF formatError(time) < 0 THEN formatError(time)
  ELSE IF hourOf(time) > 23 \/ minuteOf(time) > 59 \/ secondOf(time) > 59
       THEN TIME_VALUE_ERROR
       ELSE seconds(time)

(* parser/TimeParser.cpp *)
library_time_parse(time) ==
  IF formatError(time) < 0 THEN formatError(time)
  ELSE IF \/ hourOf(time) < 0   \/ hourOf(time) > 23
          \/ minuteOf(time) < 0 \/ minuteOf(time) > 59
          \/ secondOf(time) < 0 \/ secondOf(time) > 59
       THEN TIME_VALUE_ERROR
       ELSE seconds(time)
-----------------------------------------------------------------------------
(* The reference: what the strings of the times of a day look like.        *)
twoDigits(n) == <<DigitZero + n \div 10, DigitZero + (n % 10)>>

SecondOfDay(h, m, s) == h * 3600 + m * 60 + s

HHMMSS(h, m, s) == twoDigits(h) \o twoDigits(m) \o twoDigits(s)
=============================================================================
