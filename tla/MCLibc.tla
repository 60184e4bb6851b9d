------------------------------- MODULE MCLibc -------------------------------
(* Libc on a memory of 36 bytes with words of four.                        *)
EXTENDS Libc

\* Every offset of both pointers in a word, every overlap, and lengths around
\* the limits at which the routines change their way.
MCAddresses == 0..9
MCLengths == {0, 1, 5, 15, 16, 17, 19, 21}

MCCall(o, a, b, len) == [op |-> o, dest |-> a, src |-> b, n |-> len]

MCCalls ==
    {MCCall("memset", a, 0, len) : a \in 0..4, len \in MCLengths} \cup
    {MCCall("strlen", 0, b, len) : b \in 0..4, len \in MCLengths} \cup
    {MCCall("memmove", a, b, len) :
        a \in MCAddresses, b \in MCAddresses, len \in MCLengths} \cup
    {MCCall("memmove", a, 22, len) : a \in 0..4, len \in {0, 3, 8, 13}} \cup
    {c \in {MCCall("memcpy", a, b, len) :
                a \in 0..4, b \in 17..20, len \in {0, 3, 8, 13}} : Disjoint(c)}

MCStrings ==
    LET S(k) == [1..k -> {-9, Conv!Blank, Conv!Plus, Conv!Minus, 0, 1, 2, 7, 8, 9}]
    IN  S(0) \cup S(1) \cup S(2) \cup S(3) \cup [1..4 -> {Conv!Minus, 0, 1, 2, 7, 8, 9}]

MCInts == {-128, -127, -10, -9, 0, 9, 10, 99, 100, 127}
MCPieces ==
    {[kind |-> "int", int |-> v, chars |-> <<>>] : v \in MCInts} \cup
    {[kind |-> "chars", int |-> 0, chars |-> cs] :
        cs \in {<<>>, <<-10>>, <<-11, -12>>}}
MCFormats == UNION {[1..k -> MCPieces] : k \in 0..2}

=============================================================================
