-------------------------------- MODULE Libc --------------------------------
(***************************************************************************)
(* The routines that stand in for libc, called one at a time: those of     *)
(* Memory, loop by loop, and the conversions, each at once.                *)
(***************************************************************************)
EXTENDS Memory, SequencesExt, FiniteSetsExt

CONSTANTS
    IntMax,
    Strings,    \* what my_atoi is called with
    Formats,    \* what my_vsnprintf is called with
    Sizes       \* and the sizes of its buffer

Conv == INSTANCE Conversions

\* A piece of a format: an int, or characters of the format or of a string.
Piece == [kind: {"int", "chars"}, int: Conv!IntMin..IntMax, chars: Seq(Int)]

ASSUME ConversionsAssumption ==
    /\ IntMax \in Nat /\ IntMax >= 9
    /\ Strings \subseteq Seq(Int)
    /\ Formats \subseteq Seq(Piece)
    /\ Sizes \subseteq Nat

VARIABLES
    given,      \* the arguments of the conversion
    answer      \* and what it returns

vars == <<memVars, given, answer>>

None == <<"none">>

Init == MemInit /\ given = None /\ answer = None

Routine ==
    /\ given = None
    /\ MemNext
    /\ UNCHANGED <<given, answer>>

my_atoi ==
    /\ pc = "idle" /\ given = None
    /\ \E str \in Strings :
          given' = <<"atoi", str>> /\ answer' = <<"int", Conv!my_atoi(str)>>
    /\ UNCHANGED memVars

my_vsnprintf ==
    /\ pc = "idle" /\ given = None
    /\ \E format \in Formats, size \in Sizes :
          /\ given' = <<"printf", format, size>>
          /\ answer' = <<"out", Conv!my_vsnprintf(size, format)>>
    /\ UNCHANGED memVars

Next == Routine \/ my_atoi \/ my_vsnprintf

\* A routine that has been called runs on.
Spec == Init /\ [][Next]_vars /\ WF_vars(Routine)

-----------------------------------------------------------------------------
(* Properties.                                                             *)

\* Every call returns: the loops that count down by words and bytes, and the
\* one that looks for an aligned address, come to their end.
RoutinesReturn == pc # "idle" ~> pc = "done"

\* The powers of ten.
Power[k \in Nat] == IF k = 0 THEN 1 ELSE 10 * Power[k - 1]

\* The value of a sequence of digits, by powers of ten.
Value(digits) ==
    LET sum[k \in 0..Len(digits)] ==
            IF k = 0 THEN 0
            ELSE sum[k - 1] + digits[k] * Power[Len(digits) - k]
    IN  sum[Len(digits)]

\* The value of the number that a string starts with.
Number(str) ==
    LET blanks == {k \in 0..Len(str) : \A m \in 1..k : str[m] = Conv!Blank}
        body == SubSeq(str, Max(blanks) + 1, Len(str))
        signed == body # <<>> /\ Head(body) \in {Conv!Plus, Conv!Minus}
        rest == IF signed THEN Tail(body) ELSE body
        lengths == {k \in 0..Len(rest) : \A m \in 1..k : rest[m] \in Conv!Digit}
        value == Value(SubSeq(rest, 1, Max(lengths)))
    IN  IF signed /\ Head(body) = Conv!Minus THEN -value ELSE value

\* exit's operand (execute.c:42) keeps its value as long as it is an int, and
\* becomes the nearest int otherwise: no string of digits wraps around, also not
\* one whose prefix reaches the limit exactly or whose value is the least int.
AtoiSaturates ==
    given[1] = "atoi" =>
        LET value == Number(given[2])
        IN  answer[2] = IF value > IntMax THEN IntMax
                        ELSE IF value < -IntMax - 1 THEN -IntMax - 1
                        ELSE value

\* The text of a format: a number's digits from its highest power of ten on.
Digits(v) ==
    LET N == CHOOSE k \in 1..v + 1 : v < Power[k] /\ (k = 1 \/ Power[k - 1] <= v)
    IN  [k \in 1..N |-> (v \div Power[N - k]) % 10]

Text(format) ==
    FlattenSeq([k \in DOMAIN format |->
        IF format[k].kind = "chars" THEN format[k].chars
        ELSE IF format[k].int < 0 THEN <<Conv!Minus>> \o Digits(-format[k].int)
        ELSE Digits(format[k].int)])

\* my_vsnprintf returns the length of the whole text, and when that fits it has
\* written the text and its terminator and nothing outside the buffer: what
\* my_printf (print.c:109) then writes is what has been formatted.
PrintfExact ==
    given[1] = "printf" =>
        LET text == Text(given[2])
            len == Len(text)
        IN  /\ answer[2].total = len
            /\ len < given[3] =>
                  /\ DOMAIN answer[2].str = 0..len
                  /\ \A k \in 0..len :
                        answer[2].str[k] = IF k < len THEN text[k + 1]
                                                      ELSE Conv!NUL

=============================================================================
