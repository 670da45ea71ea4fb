-------------------------- MODULE Superloop_proofs --------------------------
(***************************************************************************)
(* What the parser of the example gets, for every size of the buffer,      *)
(* every set of characters and every number of lines.                      *)
(***************************************************************************)
EXTENDS Superloop, SequenceTheorems, WellFoundedInduction, TLAPS

LEMMA LeastNumber ==
  ASSUME NEW T \in SUBSET Nat, T # {}
  PROVE  \E x \in T : \A y \in T : x <= y
  <1>1. IsWellFoundedOn(OpToRel(<, Nat), Nat)
    BY NatLessThanWellFounded
  <1> DEFINE R == OpToRel(<, Nat)
  <1> HIDE DEF R
  <1>2. PICK x \in T : \A y \in T : ~ (<<y, x>> \in R)
    BY <1>1, WFMin DEF R
  <1>3. \A y \in T : x <= y
    <2> SUFFICES ASSUME NEW y \in T, y < x PROVE FALSE
      OBVIOUS
    <2>1. <<y, x>> \in R
      BY DEF R, OpToRel
    <2>2. QED
      BY <1>2, <2>1
  <1>4. QED
    BY <1>3

(* CString(s) is the longest beginning of s without a zero. *)
IsCStringOf(t, s) ==
  /\ Len(t) <= Len(s)
  /\ \A i \in 1..Len(t) : t[i] = s[i] /\ t[i] # 0
  /\ Len(t) = Len(s) \/ s[Len(t) + 1] = 0

LEMMA CStringIs ==
  ASSUME NEW S, NEW s \in Seq(S)
  PROVE  CString(s) \in Seq(S) /\ IsCStringOf(CString(s), s)
  <1> DEFINE zeros == {i \in 1..Len(s) : s[i] = 0}
  <1>1. Len(s) \in Nat
    OBVIOUS
  <1>2. CString(s) = IF zeros = {} \/ Min(zeros) = 0 THEN s ELSE SubSeq(s, 1, Min(zeros) - 1)
    BY DEF CString, SelectInSeq
  <1>3. CASE zeros = {}
    <2>1. CString(s) = s
      BY <1>2, <1>3
    <2>2. \A i \in 1..Len(s) : s[i] # 0
      BY <1>3
    <2>3. QED
      BY <1>1, <2>1, <2>2 DEF IsCStringOf
  <1>4. CASE zeros # {}
    <2>1. \E x \in zeros : \A y \in zeros : x <= y
      <3>1. zeros \in SUBSET Nat
        BY <1>1
      <3> HIDE DEF zeros
      <3>2. QED
        BY <1>4, <3>1, LeastNumber
    <2> DEFINE k == Min(zeros)
    <2>2. k \in zeros /\ \A y \in zeros : k <= y
      BY <2>1 DEF Min
    <2> HIDE DEF k
    <2>3. /\ k \in 1..Len(s) /\ s[k] = 0
          /\ \A i \in 1..k - 1 : i \in 1..Len(s) /\ s[i] # 0
      BY <1>1, <2>2
    <2> DEFINE t == SubSeq(s, 1, k - 1)
    <2>4. CString(s) = t
      <3>1. k # 0
        BY <1>1, <2>3
      <3> HIDE DEF zeros
      <3>2. QED
        BY <1>2, <1>4, <3>1, Zenon DEF k
    <2>5. /\ t \in Seq(S) /\ Len(t) = k - 1
          /\ \A i \in 1..k - 1 : t[i] = s[i]
      <3>1. \A i \in 1..k - 1 : s[i] \in S
        BY <2>3
      <3>2. 1 \in Int /\ k - 1 \in Int
        BY <1>1, <2>3
      <3>3. /\ t \in Seq(S) /\ Len(t) = IF 1 <= k - 1 THEN (k - 1) - 1 + 1 ELSE 0
            /\ \A i \in 1..(k - 1) - 1 + 1 : t[i] = s[1 + i - 1]
        BY <3>1, <3>2, SubSeqProperties
      <3> HIDE DEF t
      <3>4. QED
        BY <1>1, <2>3, <3>3
    <2> HIDE DEF t, zeros
    <2>6. IsCStringOf(t, s)
      BY <1>1, <2>3, <2>5 DEF IsCStringOf
    <2>7. QED
      BY <2>4, <2>5, <2>6
  <1>5. QED
    BY <1>3, <1>4
-----------------------------------------------------------------------------
(* The line being typed is at the start of the buffer; behind it there are *)
(* zeros, once a line has been given to the parser.                        *)
LoopTyped == /\ buffer \in Memory /\ cnt \in 0..Size
             /\ typed \in Seq(Seq(Char)) /\ given \in Seq(Seq(Char \cup {0}))
             /\ Len(typed) = Len(given) + 1

LineInBuffer == /\ Len(typed[Len(typed)]) = cnt
                /\ \A i \in 1..cnt : buffer[i] = typed[Len(typed)][i]

ClearedBehind == given # <<>> => \A i \in cnt + 1..Size : buffer[i] = 0

LinesGiven == /\ \A i \in 2..Len(given) : given[i] = CString(typed[i])
              /\ given # <<>> => IsPrefix(CString(typed[1]), given[1])

LoopInv == LoopTyped /\ LineInBuffer /\ ClearedBehind /\ LinesGiven

(* The string in a buffer that begins with a line begins with the string   *)
(* of the line, and is that string if there are only zeros behind the line.*)
LEMMA BufferString ==
  ASSUME NEW S, NEW line \in Seq(S), NEW buf \in Seq(S), Len(line) <= Len(buf),
         \A i \in 1..Len(line) : buf[i] = line[i]
  PROVE  /\ IsPrefix(CString(line), CString(buf))
         /\ (\A i \in Len(line) + 1..Len(buf) : buf[i] = 0) => CString(buf) = CString(line)
  <1> DEFINE a == CString(line)
             b == CString(buf)
  <1>1. a \in Seq(S) /\ IsCStringOf(a, line)
    BY CStringIs
  <1>2. b \in Seq(S) /\ IsCStringOf(b, buf)
    BY CStringIs
  <1>3. Len(line) \in Nat /\ Len(buf) \in Nat
    OBVIOUS
  <1> HIDE DEF a, b
  <1>4. Len(a) \in Nat /\ Len(b) \in Nat
    BY <1>1, <1>2
  <1>5. Len(a) <= Len(b)
    <2> SUFFICES ASSUME Len(b) < Len(a) PROVE FALSE
      BY <1>4
    <2> DEFINE k == Len(b) + 1
    <2>1. k \in 1..Len(a) /\ k \in 1..Len(line)
      BY <1>1, <1>3, <1>4 DEF IsCStringOf
    <2>2. buf[k] = 0
      BY <1>2, <1>3, <1>4, <2>1 DEF IsCStringOf
    <2>3. buf[k] = a[k] /\ a[k] # 0
      BY <1>1, <2>1 DEF IsCStringOf
    <2>4. QED
      BY <2>2, <2>3
  <1>6. \A i \in 1..Len(a) : a[i] = b[i]
    <2> SUFFICES ASSUME NEW i \in 1..Len(a) PROVE a[i] = b[i]
      OBVIOUS
    <2>1. i \in 1..Len(line) /\ i \in 1..Len(b)
      BY <1>1, <1>3, <1>4, <1>5 DEF IsCStringOf
    <2>2. a[i] = line[i] /\ b[i] = buf[i]
      BY <1>1, <1>2, <2>1 DEF IsCStringOf
    <2>3. QED
      BY <2>1, <2>2
  <1>7. IsPrefix(a, b)
    <2> DEFINE p == SubSeq(a, 1, Len(a))
               q == SubSeq(b, 1, Len(a))
               n == Len(a)
    <2>1. \A i \in 1..n : a[i] \in S /\ b[i] \in S /\ a[i] = b[i]
      BY <1>1, <1>6
    <2>2. n \in Nat /\ n \in Int /\ 1 \in Int
      BY <1>4
    <2>3. /\ SubSeq(a, 1, n) \in Seq(S) /\ Len(SubSeq(a, 1, n)) = IF 1 <= n THEN n - 1 + 1 ELSE 0
          /\ \A i \in 1..n - 1 + 1 : SubSeq(a, 1, n)[i] = a[1 + i - 1]
      BY <2>1, <2>2, SubSeqProperties
    <2>4. /\ SubSeq(b, 1, n) \in Seq(S) /\ Len(SubSeq(b, 1, n)) = IF 1 <= n THEN n - 1 + 1 ELSE 0
          /\ \A i \in 1..n - 1 + 1 : SubSeq(b, 1, n)[i] = b[1 + i - 1]
      BY <2>1, <2>2, SubSeqProperties
    <2> HIDE DEF n
    <2>5. /\ p \in Seq(S) /\ q \in Seq(S) /\ Len(p) = n /\ Len(q) = n
          /\ \A i \in 1..n : p[i] = q[i]
      BY <2>1, <2>2, <2>3, <2>4 DEF n
    <2> HIDE DEF p, q
    <2>6. p = q
      BY <2>5, SeqEqual
    <2>7. QED
      BY <1>5, <2>6 DEF p, q, IsPrefix
  <1>8. ASSUME \A i \in Len(line) + 1..Len(buf) : buf[i] = 0
        PROVE  b = a
    <2>1. Len(b) <= Len(a)
      <3> SUFFICES ASSUME Len(a) < Len(b) PROVE FALSE
        BY <1>4
      <3> DEFINE k == Len(a) + 1
      <3>1. k \in 1..Len(b) /\ k \in 1..Len(buf)
        BY <1>2, <1>3, <1>4 DEF IsCStringOf
      <3>2. b[k] = buf[k] /\ b[k] # 0
        BY <1>2, <3>1 DEF IsCStringOf
      <3>3. CASE Len(a) = Len(line)
        BY <1>3, <1>8, <3>1, <3>2, <3>3
      <3>4. CASE Len(a) # Len(line)
        <4>1. line[k] = 0 /\ k \in 1..Len(line)
          BY <1>1, <1>3, <1>4, <3>4 DEF IsCStringOf
        <4>2. QED
          BY <3>2, <4>1
      <3>5. QED
        BY <3>3, <3>4
    <2>2. Len(a) = Len(b)
      BY <1>4, <1>5, <2>1
    <2>3. QED
      BY <1>1, <1>2, <1>6, <2>2, SeqEqual
  <1>9. QED
    BY <1>7, <1>8 DEF a, b

LEMMA InitLoop == Init => LoopInv
  <1> SUFFICES ASSUME Init PROVE LoopInv
    OBVIOUS
  <1>1. /\ buffer \in Memory /\ cnt = 0 /\ typed = << <<>> >> /\ given = <<>>
    BY DEF Init
  <1>2. <<>> \in Seq(Char) /\ given \in Seq(Seq(Char \cup {0})) /\ Len(given) = 0
    BY <1>1, EmptySeq
  <1>3. typed \in Seq(Seq(Char)) /\ Len(typed) = 1 /\ typed[1] = <<>>
    BY <1>1, <1>2
  <1>4. LoopTyped
    BY <1>1, <1>2, <1>3, SizeAssumption DEF LoopTyped
  <1>5. LineInBuffer /\ ClearedBehind /\ LinesGiven
    BY <1>1, <1>2, <1>3 DEF LineInBuffer, ClearedBehind, LinesGiven
  <1>6. QED
    BY <1>4, <1>5 DEF LoopInv

LEMMA StoreLoop ==
  ASSUME LoopInv, NEW ch \in Char, Store(ch)
  PROVE  LoopInv'
  <1> DEFINE n == Len(typed)
             line == typed[n]
             longer == Append(line, ch)
  <1>1. /\ typed \in Seq(Seq(Char)) /\ n = Len(given) + 1 /\ cnt \in 0..Size
        /\ given \in Seq(Seq(Char \cup {0})) /\ Len(given) \in Nat /\ buffer \in Memory
    BY DEF LoopInv, LoopTyped
  <1>2. n \in 1..n /\ line \in Seq(Char) /\ Len(line) = cnt
    BY <1>1 DEF LoopInv, LineInBuffer
  <1>3. /\ cnt < Size /\ cnt' = cnt + 1 /\ given' = given
        /\ buffer' = [buffer EXCEPT ![cnt + 1] = ch]
        /\ typed' = [typed EXCEPT ![n] = longer]
    BY <1>1, SizeAssumption DEF Store
  <1>4. /\ longer \in Seq(Char) /\ Len(longer) = cnt + 1 /\ longer[cnt + 1] = ch
        /\ \A i \in 1..cnt : longer[i] = line[i]
    BY <1>2, AppendProperties
  <1> HIDE DEF longer
  <1>5. /\ typed' \in Seq(Seq(Char)) /\ Len(typed') = n /\ typed'[n] = longer
        /\ \A i \in 1..n : i # n => typed'[i] = typed[i]
    BY <1>1, <1>2, <1>3, <1>4, ExceptSeq
  <1>6. /\ buffer' \in Memory /\ buffer'[cnt + 1] = ch
        /\ \A i \in 1..Size : i # cnt + 1 => buffer'[i] = buffer[i]
    BY <1>1, <1>3, SizeAssumption DEF Memory
  <1> HIDE DEF n, line
  <1>7. LoopTyped'
    BY <1>1, <1>3, <1>5, <1>6, SizeAssumption DEF LoopTyped
  <1>8. LineInBuffer'
    <2>1. ASSUME NEW i \in 1..cnt + 1 PROVE buffer'[i] = longer[i]
      <3>1. CASE i = cnt + 1
        BY <1>4, <1>6, <3>1
      <3>2. CASE i # cnt + 1
        <4>1. i \in 1..cnt /\ i \in 1..Size
          BY <1>1, <1>3, <3>2, SizeAssumption
        <4>2. buffer[i] = line[i]
          BY <4>1 DEF LoopInv, LineInBuffer, line, n
        <4>3. QED
          BY <1>4, <1>6, <3>2, <4>1, <4>2
      <3>3. QED
        BY <3>1, <3>2
    <2>2. QED
      BY <1>3, <1>4, <1>5, <2>1 DEF LineInBuffer
  <1>9. ClearedBehind'
    <2> SUFFICES ASSUME given # <<>>, NEW i \in cnt + 2..Size
                 PROVE  buffer'[i] = 0
      BY <1>1, <1>3 DEF ClearedBehind
    <2>1. i \in cnt + 1..Size /\ i \in 1..Size /\ i # cnt + 1
      BY <1>1, SizeAssumption
    <2>2. QED
      BY <1>6, <2>1 DEF LoopInv, ClearedBehind
  <1>10. LinesGiven'
    <2>1. \A i \in 1..Len(given) : typed'[i] = typed[i]
      BY <1>1, <1>5
    <2>2. given # <<>> => 1 \in 1..Len(given)
      BY <1>1
    <2>3. QED
      BY <1>1, <1>3, <2>1, <2>2 DEF LoopInv, LinesGiven
  <1>11. QED
    BY <1>7, <1>8, <1>9, <1>10 DEF LoopInv

LEMMA NewLineLoop ==
  ASSUME LoopInv, NewLine
  PROVE  LoopInv'
  <1> DEFINE n == Len(typed)
             line == typed[n]
             text == CString(buffer)
             C == Char \cup {0}
  <1>1. /\ typed \in Seq(Seq(Char)) /\ n = Len(given) + 1 /\ cnt \in 0..Size
        /\ given \in Seq(Seq(C)) /\ Len(given) \in Nat
        /\ buffer \in Seq(C) /\ Len(buffer) = Size
    BY SizeAssumption DEF LoopInv, LoopTyped, Memory
  <1>2. n \in 1..n /\ line \in Seq(C) /\ Len(line) = cnt /\ \A i \in 1..cnt : buffer[i] = line[i]
    BY <1>1 DEF LoopInv, LineInBuffer
  <1>3. /\ given' = Append(given, text) /\ cnt' = 0
        /\ buffer' = [i \in 1..Size |-> 0] /\ typed' = Append(typed, <<>>)
    BY DEF NewLine
  <1>4. text \in Seq(C)
    BY <1>1, CStringIs
  <1>5. IsPrefix(CString(line), text) /\ (given # <<>> => text = CString(line))
    BY <1>1, <1>2, BufferString DEF LoopInv, ClearedBehind
  <1>6. <<>> \in Seq(Char) /\ Len(<<>>) = 0
    BY EmptySeq
  <1> HIDE DEF text
  <1>7. /\ given' \in Seq(Seq(C)) /\ Len(given') = Len(given) + 1
        /\ \A i \in 1..Len(given) : given'[i] = given[i]
        /\ given'[Len(given) + 1] = text
    BY <1>1, <1>3, <1>4, AppendProperties
  <1>8. /\ typed' \in Seq(Seq(Char)) /\ Len(typed') = n + 1
        /\ \A i \in 1..n : typed'[i] = typed[i]
        /\ typed'[n + 1] = <<>>
    BY <1>1, <1>3, <1>6, AppendProperties
  <1>9. LoopTyped'
    <2>1. buffer' \in Memory /\ cnt' \in 0..Size
      BY <1>3, SizeAssumption DEF Memory
    <2>2. QED
      BY <1>1, <1>7, <1>8, <2>1 DEF LoopTyped
  <1>10. LineInBuffer' /\ ClearedBehind'
    BY <1>3, <1>6, <1>8, SizeAssumption DEF LineInBuffer, ClearedBehind
  <1> HIDE DEF line, n
  <1>11. LinesGiven'
    <2>1. ASSUME NEW i \in 2..Len(given') PROVE given'[i] = CString(typed'[i])
      <3>1. CASE i = Len(given) + 1
        <4>1. i = n /\ given # <<>>
          BY <1>1, <2>1, <3>1
        <4>2. typed'[i] = line
          BY <1>2, <1>8, <4>1 DEF line
        <4>3. QED
          BY <1>5, <1>7, <3>1, <4>1, <4>2
      <3>2. CASE i # Len(given) + 1
        <4>1. i \in 2..Len(given) /\ i \in 1..Len(given) /\ i \in 1..n
          BY <1>1, <1>7, <2>1, <3>2
        <4>2. QED
          BY <1>7, <1>8, <4>1 DEF LoopInv, LinesGiven
      <3>3. QED
        BY <3>1, <3>2
    <2>2. IsPrefix(CString(typed'[1]), given'[1])
      <3>1. CASE given = <<>>
        <4>1. n = 1 /\ Len(given) + 1 = 1
          BY <1>1, <3>1
        <4>2. typed'[1] = line /\ given'[1] = text
          BY <1>2, <1>7, <1>8, <4>1 DEF line
        <4>3. QED
          BY <1>5, <4>2
      <3>2. CASE given # <<>>
        <4>1. 1 \in 1..Len(given) /\ 1 \in 1..n
          BY <1>1, <3>2
        <4>2. given'[1] = given[1] /\ typed'[1] = typed[1]
          BY <1>7, <1>8, <4>1
        <4>3. QED
          BY <3>2, <4>2 DEF LoopInv, LinesGiven
      <3>3. QED
        BY <3>1, <3>2
    <2>3. QED
      BY <2>1, <2>2 DEF LinesGiven
  <1>12. QED
    BY <1>9, <1>10, <1>11 DEF LoopInv

(* Each newline hands over the line before it, with nothing of an earlier  *)
(* line behind it; the first line may have garbage behind it.              *)
THEOREM LinesArrive == Spec => []ParserGetsLines
  <1>1. ASSUME LoopInv, [Next]_vars
        PROVE  LoopInv'
    <2>1. CASE UNCHANGED vars
      BY <1>1, <2>1 DEF vars, LoopInv, LoopTyped, LineInBuffer, ClearedBehind, LinesGiven
    <2>2. QED
      BY <1>1, <2>1, StoreLoop, NewLineLoop DEF Next
  <1>2. LoopInv => ParserGetsLines
    BY DEF LoopInv, LoopTyped, LinesGiven, ParserGetsLines
  <1>3. QED
    BY <1>1, <1>2, InitLoop, PTL DEF Spec
=============================================================================
