----------------------------- MODULE Conversions -----------------------------
(***************************************************************************)
(* Numbers to text and back: my_vsnprintf (print.c) and                    *)
(* my_strtol_generic (stdlib.c) as my_atoi calls it, with base 10.         *)
(***************************************************************************)
EXTENDS Integers, Sequences, SequencesExt

CONSTANTS IntMax        \* the largest int

IntMin == -IntMax - 1

\* A character that is a digit is its value; any other is a negative number.
Digit == 0..9
Blank == -1
Plus == -2
Minus == -3
NUL == -4

-----------------------------------------------------------------------------
(* my_strtol_generic.                                                      *)

\* Mutant: the last digit is not compared with cutlim.
FitsCutoff(val, digit) == val <= IntMax \div 10

\* val * 10 + digit does not exceed max: cutoff and cutlim.
Fits(val, digit) ==
    \/ val < IntMax \div 10
    \/ val = IntMax \div 10 /\ digit <= IntMax % 10

\* One round of the loop; a digit that does not fit is dropped.
Accumulate(acc, digit) ==
    IF Fits(acc.val, digit)
    THEN [acc EXCEPT !.val = acc.val * 10 + digit]
    ELSE [acc EXCEPT !.overflow = TRUE]

\* The first position from i on that holds no character of the set.
SkipWhile(str, i, set) ==
    LET stops == {k \in i..Len(str) + 1 : k > Len(str) \/ str[k] \notin set}
    IN  CHOOSE k \in stops : \A m \in stops : k <= m

my_atoi(str) ==
    LET start == SkipWhile(str, 1, {Blank})
        signed == start <= Len(str) /\ str[start] \in {Plus, Minus}
        first == IF signed THEN start + 1 ELSE start
        digits == SubSeq(str, first, SkipWhile(str, first, Digit) - 1)
        acc == FoldLeft(Accumulate, [val |-> 0, overflow |-> FALSE], digits)
        negative == signed /\ str[start] = Minus
    IN  IF acc.overflow THEN (IF negative THEN IntMin ELSE IntMax)
        ELSE IF negative THEN -acc.val ELSE acc.val

-----------------------------------------------------------------------------
(* my_vsnprintf.  A format is a sequence of pieces: characters to be       *)
(* copied, a string or an int.                                             *)

\* The output: what has been written to str, the index i and total_length.
Started == [str |-> << >>, i |-> 0, total |-> 0]

Room(size, out) == size # 0 /\ out.i < size - 1

Write(str, i, ch) ==
    [k \in DOMAIN str \cup {i} |-> IF k = i THEN ch ELSE str[k]]

\* Characters move i on even when they no longer fit.
PutChar(size, out, ch) ==
    [str |-> IF Room(size, out) THEN Write(out.str, out.i, ch) ELSE out.str,
     i |-> out.i + 1, total |-> out.total + 1]

\* A sign and the digits after the first move i only when they fit.
PutFitting(size, out, ch) ==
    IF Room(size, out)
    THEN [str |-> Write(out.str, out.i, ch), i |-> out.i + 1, total |-> out.total + 1]
    ELSE [out EXCEPT !.total = @ + 1]

\* The first digit is written without looking at size.
PutFirst(out, ch) ==
    [str |-> Write(out.str, out.i, ch), i |-> out.i + 1, total |-> out.total + 1]

\* Mutant: zero has no digits.
itostrNoZero(size, out, val) ==
    LET print[v \in 0..IntMax + 1] ==
            IF v = 0 THEN out
            ELSE IF v < 10 THEN PutFirst(out, v)
            ELSE PutFitting(size, print[v \div 10], v % 10)
    IN  print[val]

itostr(size, out, val) ==
    LET print[v \in 0..IntMax + 1] ==
            IF v < 10 THEN PutFirst(out, v)
            ELSE PutFitting(size, print[v \div 10], v % 10)
    IN  print[val]

PutInt(size, out, v) ==
    IF v < 0 THEN itostr(size, PutFitting(size, out, Minus), -v)
             ELSE itostr(size, out, v)

PutChars(size, out, chars) ==
    FoldLeft(LAMBDA o, ch : PutChar(size, o, ch), out, chars)

PutPiece(size, out, piece) ==
    IF piece.kind = "int" THEN PutInt(size, out, piece.int)
                          ELSE PutChars(size, out, piece.chars)

\* What is in str, and the length that is returned.
my_vsnprintf(size, format) ==
    LET out == FoldLeft(LAMBDA o, p : PutPiece(size, o, p), Started, format)
        end == IF out.i < size THEN out.i ELSE size - 1
    IN  [str |-> IF size # 0 THEN Write(out.str, end, NUL) ELSE out.str,
         total |-> out.total]

=============================================================================
