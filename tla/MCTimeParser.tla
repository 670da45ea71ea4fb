---------------------------- MODULE MCTimeParser ----------------------------
(***************************************************************************)
(* Every string over a small alphabet, up to one character too long, grown *)
(* a character at a time, and the null pointer.  The alphabet has the      *)
(* digits that reach 23/24 and 59/60, '/' just below '0' and ':' just      *)
(* above '9'.                                                              *)
(***************************************************************************)
EXTENDS TimeParser

CONSTANT Alphabet

ASSUME AlphabetAssumption == Alphabet \subseteq Char

VARIABLE time

Init == time \in {<<>>, NULL}

Grow == /\ time # NULL
        /\ Len(time) < 6
        /\ \E c \in Alphabet : time' = Append(time, c)

(* Any seventh character makes the string too long. *)
TooLong == /\ time # NULL
           /\ Len(time) = 6
           /\ time' = Append(time, DigitZero)

Next == Grow \/ TooLong

Spec == Init /\ [][Next]_time

(* The firmware's parser returns what the unit-tested library returns      *)
(* (main.c:20-40 and TimeParser.cpp:5-34).                                 *)
ParsersAgree == time_parse(time) = library_time_parse(time)

At(i, n) == time[i] = twoDigits(n)[1] /\ time[i + 1] = twoDigits(n)[2]

(* The parser accepts the strings HHMMSS of a day and no other, and        *)
(* returns the seconds they name: nothing malformed can start the timer    *)
(* (main.c:20-40).                                                         *)
ParsesClockTimes ==
  LET SixLong == time # NULL /\ Len(time) = 6
  IN IF time_parse(time) < 0
     THEN ~ /\ SixLong
            /\ \E h \in 0..23 : At(1, h)
            /\ \E m \in 0..59 : At(3, m)
            /\ \E s \in 0..59 : At(5, s)
     ELSE /\ SixLong
          /\ \E h \in 0..23 :
               /\ At(1, h)
               /\ \E m \in 0..59 :
                    /\ At(3, m)
                    /\ \E s \in 0..59 :
                         At(5, s) /\ time_parse(time) = SecondOfDay(h, m, s)
=============================================================================
