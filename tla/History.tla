------------------------------ MODULE History ------------------------------
(***************************************************************************)
(* The command history (history.c): a ring of MAX_HISTORY slots, and the   *)
(* cursor that the arrow keys move over it.                                *)
(***************************************************************************)
EXTENDS Integers, Sequences

CONSTANTS
    Lines,          \* the lines that may be entered
    MAX_HISTORY,    \* the number of slots
    NULL

ASSUME HistoryAssumption ==
    /\ MAX_HISTORY \in Nat \ {0}
    /\ NULL \notin Lines

VARIABLES
    arr,            \* the line in each slot
    num,            \* and its number
    next_num,
    head,           \* the slot for the next line
    count,          \* the number of slots in use
    cursor          \* the slot the arrow keys have reached

history == <<arr, num, next_num, head, count, cursor>>

Slots == 0..MAX_HISTORY - 1

HistoryTypeOK ==
    /\ arr \in [Slots -> Lines \cup {NULL}]
    /\ num \in [Slots -> Nat]
    /\ next_num \in Nat \ {0}
    /\ head \in Slots
    /\ count \in 0..MAX_HISTORY
    /\ cursor \in Slots

-----------------------------------------------------------------------------

init_history ==
    /\ arr = [s \in Slots |-> NULL]
    /\ num = [s \in Slots |-> 0]
    /\ next_num = 1
    /\ head = 0 /\ count = 0 /\ cursor = 0

Following(s) == (s + 1) % MAX_HISTORY
Preceding(s) == (s + MAX_HISTORY - 1) % MAX_HISTORY

oldest == (head + MAX_HISTORY - count) % MAX_HISTORY
latest == Preceding(head)

\* Mutant: the line is compared with the slot to be overwritten.
RepeatsOldest(line) == arr[head] # NULL /\ arr[head] = line

\* The line is the one in the latest slot.
Repeats(line) == arr[latest] # NULL /\ arr[latest] = line

\* Mutant: the cursor stays where the arrow keys left it.
append_history(line) ==
    /\ arr' = [arr EXCEPT ![head] = line]
    /\ num' = [num EXCEPT ![head] = next_num]
    /\ next_num' = next_num + 1
    /\ head' = Following(head)
    /\ count' = IF count < MAX_HISTORY THEN count + 1 ELSE count
    /\ UNCHANGED cursor

\* update_history for a line that does not repeat the latest one.
new_history(line) ==
    /\ arr' = [arr EXCEPT ![head] = line]
    /\ num' = [num EXCEPT ![head] = next_num]
    /\ next_num' = next_num + 1
    /\ head' = Following(head)
    /\ count' = IF count < MAX_HISTORY THEN count + 1 ELSE count
    /\ cursor' = Following(head)

update_history(line) ==
    \/ Repeats(line) /\ UNCHANGED history
    \/ ~Repeats(line) /\ new_history(line)

\* Both arrow keys return the line in the slot the cursor moves to.
MoveCursor(slot) ==
    /\ cursor' = slot
    /\ UNCHANGED <<arr, num, next_num, head, count>>

get_previous_history ==
    MoveCursor(IF cursor # oldest THEN Preceding(cursor) ELSE cursor)

get_next_history ==
    MoveCursor(IF cursor # latest THEN Following(cursor) ELSE cursor)

-----------------------------------------------------------------------------

\* What print_history prints.
print_history ==
    [i \in 1..count |->
        LET slot == (oldest + i - 1) % MAX_HISTORY
        IN  [num |-> num[slot], line |-> arr[slot]]]

\* The promise, with the entries that print_history would print.
Promise == INSTANCE HistoryList
               WITH listing <- print_history, entered <- next_num - 1

=============================================================================
