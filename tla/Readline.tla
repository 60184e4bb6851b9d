------------------------------ MODULE Readline ------------------------------
(***************************************************************************)
(* The line discipline (ldisc.c) and the history it recalls: my_readline   *)
(* reads one byte at a time, edits ldisc_line and echoes what it does;     *)
(* main stores the line that it returns and calls it again.                *)
(*                                                                         *)
(* The execution of the line between two calls is JobControl's.            *)
(***************************************************************************)
EXTENDS History, FiniteSetsExt

CONSTANTS
    LDISC_MAX_LINE,     \* the size of ldisc_line
    PromptWidth,        \* the columns the prompt takes
    MaxEntries          \* the bound on the lines that history has been given

ASSUME ReadlineAssumption ==
    /\ LDISC_MAX_LINE \in Nat \ 0..1
    /\ PromptWidth \in Nat
    /\ MaxEntries \in Nat

\* The bytes read.  "x" is a printable byte that has no part in the sequences
\* of the arrow keys, "other" one that is neither printable nor listed here.
Sequencing == {"[", "A", "B", "C", "D"}
Printable == {"x"} \cup Sequencing
Bytes == Printable \cup {"enter", "backspace", "ctrl-c", "escape", "other"}

\* A line keeps of a printable byte only whether it is "x".
NUL == "NUL"
Chars == {"x", "["}
Glyph(c) == IF c = "x" THEN "x" ELSE "["

\* Every line fits into ldisc_line with its terminator.
ASSUME LinesAssumption ==
    Lines = UNION {[1..n -> Chars] : n \in 1..LDISC_MAX_LINE - 1}

VARIABLES
    ldisc_line,
    len,
    cursor_pos,
    ctrlchar,       \* how much of an escape sequence has been read
    col,            \* the terminal's cursor, in columns from the prompt's end
    closed,         \* the standard input has ended
    recall          \* history variable: the place the arrow keys have reached

editing == <<ldisc_line, len, cursor_pos, ctrlchar, col>>
vars == <<history, editing, closed, recall>>

Cells == 0..LDISC_MAX_LINE - 1

TypeOK ==
    /\ HistoryTypeOK
    /\ ldisc_line \in [Cells -> Chars \cup {NUL}]
    /\ len \in Cells
    /\ cursor_pos \in 0..len
    /\ ctrlchar \in 0..2
    /\ col \in -PromptWidth..LDISC_MAX_LINE
    /\ closed \in BOOLEAN
    /\ recall \in 0..MAX_HISTORY

-----------------------------------------------------------------------------
(* Strings.                                                                *)

Empty == [i \in Cells |-> NUL]

\* my_memmove within ldisc_line.
Moved(dest, src, n) ==
    [i \in Cells |-> IF i \in dest..dest + n - 1 THEN ldisc_line[src + i - dest]
                                                 ELSE ldisc_line[i]]

\* my_strncpy pads with NUL.
Copied(line) == [i \in Cells |-> IF i < Len(line) THEN line[i + 1] ELSE NUL]

my_strlen(buf) == Min({i \in Cells : buf[i] = NUL})
Line == [i \in 1..my_strlen(ldisc_line) |-> ldisc_line[i - 1]]

-----------------------------------------------------------------------------
(* The echo.                                                               *)

\* The terminal does not move its cursor to the left of the first column.
Left(n) == IF n < -PromptWidth THEN -PromptWidth ELSE n

\* Mutant: the cursor is left at the end of the line.
redraw_to_end(buf, pos) == my_strlen(buf)

\* Where redraw leaves the terminal's cursor: it prints the line and goes back.
redraw(buf, pos) ==
    LET end == my_strlen(buf)
    IN  IF pos < end THEN Left(end - (end - pos)) ELSE end

-----------------------------------------------------------------------------
(* The walk of the arrow keys, told without the ring: MAX_HISTORY places in a   *)
(* circle.  Places 1..count hold the entries, the newest at 1; the others, and  *)
(* place 0 where the walk begins, are empty.  Up stops at the oldest entry and  *)
(* Down at place 1, so Down at a fresh prompt enters the empty places from the  *)
(* other side.  A full ring has no empty place, and the walk begins at the      *)
(* oldest entry.                                                                *)

Older ==
    IF recall = count THEN recall
    ELSE IF recall + 1 = MAX_HISTORY /\ count < MAX_HISTORY THEN 0
    ELSE recall + 1

Newer ==
    IF recall = 1 THEN recall
    ELSE IF recall = 0 THEN MAX_HISTORY - 1
    ELSE recall - 1

-----------------------------------------------------------------------------
(* my_readline.                                                            *)

Room == len < LDISC_MAX_LINE - 1

\* my_readline is called again: the locals and the line are cleared.
NewLine ==
    /\ ldisc_line' = Empty
    /\ len' = 0 /\ cursor_pos' = 0 /\ ctrlchar' = 0 /\ col' = 0

\* my_readline returns: NULL when len is 0, and main calls it at once.
Return(length) ==
    /\ \/ /\ length = 0
          /\ UNCHANGED <<history, recall>>
       \/ /\ length > 0
          /\ next_num <= MaxEntries
          /\ update_history(Line)
          /\ recall' = IF Repeats(Line) THEN recall
                       ELSE IF count' < MAX_HISTORY THEN 0 ELSE MAX_HISTORY
    /\ NewLine

Reads(c) == c \in Bytes /\ ~closed /\ Room

\* The byte read when the line is full is dropped.
LineFull ==
    /\ ~closed /\ ~Room
    /\ Return(len)
    /\ UNCHANGED closed

Enter ==
    /\ Reads("enter")
    /\ Return(len)
    /\ UNCHANGED closed

CtrlC ==
    /\ Reads("ctrl-c")
    /\ Return(0)
    /\ UNCHANGED closed

\* The end of the input is taken for the end of the line.
EndOfInput ==
    /\ ~closed
    /\ closed' = TRUE
    /\ Return(len)

\* From then on my_readline returns NULL, and main goes on calling it.
ReadNothing == closed /\ UNCHANGED vars

Insert(c) ==
    /\ Reads(c) /\ c \in Printable
    /\ ctrlchar = 0
    /\ LET opened == IF cursor_pos # len
                     THEN Moved(cursor_pos + 1, cursor_pos, len - cursor_pos + 1)
                     ELSE ldisc_line
       IN  ldisc_line' = [opened EXCEPT ![cursor_pos] = Glyph(c)]
    /\ cursor_pos' = cursor_pos + 1
    /\ len' = len + 1
    /\ col' = redraw(ldisc_line', cursor_pos')
    /\ UNCHANGED <<history, ctrlchar, closed, recall>>

\* Mutant: the terminator is not moved.
BackspaceShort ==
    /\ Reads("backspace")
    /\ cursor_pos > 0
    /\ ldisc_line' = Moved(cursor_pos - 1, cursor_pos, len - cursor_pos)
    /\ cursor_pos' = cursor_pos - 1
    /\ len' = len - 1
    /\ col' = Left(redraw(ldisc_line', cursor_pos') - (len' - cursor_pos'))
    /\ UNCHANGED <<history, ctrlchar, closed, recall>>

\* redraw puts the cursor where it belongs, and the loop after it goes as far
\* to the left again.
Backspace ==
    /\ Reads("backspace")
    /\ cursor_pos > 0
    /\ ldisc_line' = Moved(cursor_pos - 1, cursor_pos, len - cursor_pos + 1)
    /\ cursor_pos' = cursor_pos - 1
    /\ len' = len - 1
    /\ col' = Left(redraw(ldisc_line', cursor_pos') - (len' - cursor_pos'))
    /\ UNCHANGED <<history, ctrlchar, closed, recall>>

\* The bytes of an escape sequence.
Escape ==
    /\ \/ Reads("escape") /\ ctrlchar' = 1
       \/ Reads("[") /\ ctrlchar = 1 /\ ctrlchar' = 2
    /\ UNCHANGED <<history, ldisc_line, len, cursor_pos, col, closed, recall>>

\* Mutant: the left arrow does not stop at the start of the line.
LeftArrowUnguarded ==
    /\ Reads("D") /\ ctrlchar = 2
    /\ ctrlchar' = 0
    /\ cursor_pos' = cursor_pos - 1
    /\ col' = Left(col - 1)
    /\ UNCHANGED <<history, ldisc_line, len, closed, recall>>

LeftArrow ==
    /\ Reads("D") /\ ctrlchar = 2
    /\ cursor_pos > 0
    /\ ctrlchar' = 0
    /\ cursor_pos' = cursor_pos - 1
    /\ col' = Left(col - 1)
    /\ UNCHANGED <<history, ldisc_line, len, closed, recall>>

RightArrow ==
    /\ Reads("C") /\ ctrlchar = 2
    /\ cursor_pos < len
    /\ ctrlchar' = 0
    /\ cursor_pos' = cursor_pos + 1
    /\ col' = col + 1
    /\ UNCHANGED <<history, ldisc_line, len, closed, recall>>

\* The line in the slot the cursor of history has moved to, if there is one.
Show ==
    /\ ctrlchar' = 0
    /\ \/ /\ arr[cursor'] = NULL
          /\ UNCHANGED <<ldisc_line, len, cursor_pos, col>>
       \/ /\ arr[cursor'] # NULL
          /\ ldisc_line' = Copied(arr[cursor'])
          /\ len' = my_strlen(ldisc_line')
          /\ cursor_pos' = len'
          /\ col' = redraw(ldisc_line', cursor_pos')

UpArrow ==
    /\ Reads("A") /\ ctrlchar = 2
    /\ get_previous_history
    /\ Show
    /\ recall' = Older
    /\ UNCHANGED closed

DownArrow ==
    /\ Reads("B") /\ ctrlchar = 2
    /\ get_next_history
    /\ Show
    /\ recall' = Newer
    /\ UNCHANGED closed

\* Any other byte, and a printable one that does not go on with the sequence.
Ignored(c) ==
    /\ Reads(c)
    /\ \/ c = "other"
       \/ c \in Printable /\ ctrlchar = 1 /\ c # "["
       \/ c \in {"x", "["} /\ ctrlchar = 2
    /\ ctrlchar' = 0
    /\ UNCHANGED <<history, ldisc_line, len, cursor_pos, col, closed, recall>>

-----------------------------------------------------------------------------

Init ==
    /\ init_history
    /\ ldisc_line = Empty
    /\ len = 0 /\ cursor_pos = 0 /\ ctrlchar = 0 /\ col = 0
    /\ closed = FALSE
    /\ recall = 0

Next ==
    \/ \E c \in Bytes : Insert(c) \/ Ignored(c)
    \/ Backspace
    \/ Escape
    \/ LeftArrow \/ RightArrow \/ UpArrow \/ DownArrow
    \/ LineFull \/ Enter \/ CtrlC \/ EndOfInput \/ ReadNothing

Spec == Init /\ [][Next]_vars

-----------------------------------------------------------------------------
(* Properties.                                                             *)

\* my_readline never counts beyond the string it holds: the terminator is at
\* len and nothing stands behind it, although edits in the middle move bytes
\* both ways and a recalled line may replace a longer one.
LineTerminated ==
    \A i \in Cells : (ldisc_line[i] = NUL) <=> (i >= len)

\* The ring of history.c keeps what a history promises, across the wrap of the
\* ring and the lines that repeat the latest one.
HistoryKept == Promise!Spec

\* The cursor of history.c, which moves over the slots of a ring that is
\* overwritten, finds what the walk says: the entry of print_history that is as
\* many from its end, and nothing at an empty place.  That the first Up in a full
\* ring shows the oldest entry (history.c:79), and Down at a fresh prompt leaves
\* the entries (history.c:90), is what the code does; no document promises more.
ArrowsWalkListing ==
    arr[cursor] = IF recall \in 1..count THEN print_history[count - recall + 1].line
                                         ELSE NULL

\* Every key but Backspace leaves the terminal's cursor where the edit is, if
\* it was there before or if the key draws the line again.
CursorFollowsEdit ==
    [][~Backspace /\ (col = cursor_pos \/ ldisc_line' # ldisc_line)
         => col' = cursor_pos']_vars

\* ldisc.c:125, "Move cursor back where it belongs": on the terminal the cursor
\* is always where the edit is.
CursorWhereItBelongs == col = cursor_pos

=============================================================================
