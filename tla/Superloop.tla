----------------------------- MODULE Superloop ------------------------------
(***************************************************************************)
(* The superloop of parser/RTOS_main_example/main.c: characters are        *)
(* collected in a buffer on the stack, which a newline hands to the parser *)
(* as a string.  Nothing initializes the buffer before the first line.     *)
(*                                                                         *)
(* Lines have fewer characters than the buffer: cnt has no limit in the    *)
(* code, and what a longer line overwrites is not modelled.                *)
(***************************************************************************)
EXTENDS Naturals, Sequences, SequencesExt

CONSTANTS
  Size,      \* bytes of the buffer, 16 in the code
  Char,      \* the characters that may be typed, newlines apart
  MaxLines   \* bound: how many lines are typed

ASSUME SizeAssumption == Size \in Nat

VARIABLES buffer, cnt,
          typed,   \* the lines typed, the last of them unfinished
          given    \* the strings the parser was given

vars == <<buffer, cnt, typed, given>>

Memory == [1..Size -> Char \cup {0}]

(* What a parser reads: the characters before the first zero.  (The parser *)
(* of the example is empty.)                                               *)
CString(s) == LET zero == SelectInSeq(s, LAMBDA ch : ch = 0)
              IN IF zero = 0 THEN s ELSE SubSeq(s, 1, zero - 1)

Init == /\ buffer \in Memory
        /\ cnt = 0
        /\ typed = << <<>> >>
        /\ given = <<>>

Store(ch) == /\ cnt < Size - 1                       \* the bound on a line
             /\ Len(typed) <= MaxLines
             /\ buffer' = [buffer EXCEPT ![cnt + 1] = ch]
             /\ cnt' = cnt + 1
             /\ typed' = [typed EXCEPT ![Len(typed)] = Append(@, ch)]
             /\ UNCHANGED given

(* The buffer is not cleared. *)
MutantNewLine == /\ Len(typed) <= MaxLines
                 /\ given' = Append(given, CString(buffer))
                 /\ cnt' = 0
                 /\ typed' = Append(typed, <<>>)
                 /\ UNCHANGED buffer

NewLine == /\ Len(typed) <= MaxLines
           /\ given' = Append(given, CString(buffer))
           /\ cnt' = 0
           /\ buffer' = [i \in 1..Size |-> 0]
           /\ typed' = Append(typed, <<>>)

Next == NewLine \/ \E ch \in Char : Store(ch)

Spec == Init /\ [][Next]_vars
-----------------------------------------------------------------------------
(* Each newline hands the line before it to the parser, up to the first    *)
(* zero typed, with no rest of an earlier and longer line behind it.  The  *)
(* first line alone may have the stack's garbage after it: the buffer is   *)
(* cleared only after it is used (RTOS_main_example/main.c:41-55).         *)
ParserGetsLines ==
  /\ Len(given) = Len(typed) - 1
  /\ \A i \in 2..Len(given) : given[i] = CString(typed[i])
  /\ given # <<>> => IsPrefix(CString(typed[1]), given[1])
=============================================================================
