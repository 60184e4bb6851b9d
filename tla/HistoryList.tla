---------------------------- MODULE HistoryList ----------------------------
(***************************************************************************)
(* What the command history promises: the last lines entered, numbered in  *)
(* the order they were entered, without immediate repetitions, and never   *)
(* more than MAX_HISTORY of them.                                          *)
(***************************************************************************)
EXTENDS Integers, Sequences

CONSTANTS
    Lines,          \* the lines that may be entered
    MAX_HISTORY     \* how many of them are kept

VARIABLES
    listing,        \* the entries kept, oldest first
    entered         \* how many entries there have ever been

\* The last n elements of s, or all of them.
LastOnes(s, n) == SubSeq(s, 1 + (IF Len(s) > n THEN Len(s) - n ELSE 0), Len(s))

Enter(line) ==
    /\ listing = <<>> \/ listing[Len(listing)].line # line
    /\ entered' = entered + 1
    /\ listing' = LastOnes(Append(listing, [num |-> entered', line |-> line]),
                           MAX_HISTORY)

Init == listing = <<>> /\ entered = 0

Next == \E line \in Lines : Enter(line)

Spec == Init /\ [][Next]_<<listing, entered>>

=============================================================================
