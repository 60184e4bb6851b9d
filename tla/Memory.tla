------------------------------- MODULE Memory -------------------------------
(***************************************************************************)
(* my_memset, my_memcpy and my_memmove (memory.c) and my_strlen            *)
(* (string.c): they work on whole words where they can, on bytes before    *)
(* and after, and my_memmove has to choose a direction when the two        *)
(* regions overlap.                                                        *)
(*                                                                         *)
(* A byte is named by the address it is at when the routine is called.     *)
(***************************************************************************)
EXTENDS Integers

CONSTANTS
    MACHINE_ALIGNMENT,  \* bytes in a word
    Size,               \* bytes in the memory
    Calls               \* the calls that are made

\* Regions of fewer bytes are set and moved byte by byte.
SmallMove == 16

Memory == 0..Size - 1
NUL == -1               \* also the byte my_memset writes

\* A region of n bytes lies in the memory, and has room for a terminator.
Region(a, n) == a \in Nat /\ n \in Nat /\ a + n < Size

Disjoint(c) == c.dest + c.n <= c.src \/ c.src + c.n <= c.dest

ASSUME MemoryAssumption ==
    /\ MACHINE_ALIGNMENT \in {4, 8}
    /\ Size \in Nat /\ Size % MACHINE_ALIGNMENT = 0
    /\ \A c \in Calls :
          /\ c \in [op: {"memset", "memcpy", "memmove", "strlen"},
                    dest: Nat, src: Nat, n: Nat]
          /\ Region(c.dest, c.n) /\ Region(c.src, c.n)
          /\ c.op = "memcpy" => Disjoint(c)     \* dest and src are restrict

VARIABLES
    mem,
    call,       \* the arguments
    pc,
    d, s, n,    \* the routine's pointers, and the bytes that are left
    head        \* the bytes my_memset and my_memcpy treat before the words

memVars == <<mem, call, pc, d, s, n, head>>

NoCall == [op |-> "none", dest |-> 0, src |-> 0, n |-> 0]
min(a, b) == IF a < b THEN a ELSE b
Offset(a) == a % MACHINE_ALIGNMENT

MemTypeOK ==
    /\ mem \in [Memory -> Memory \cup {NUL}]
    /\ call \in Calls \cup {NoCall}
    /\ pc \in {"idle", "head", "words", "bytes", "done",
               "scan", "scanwords", "scanlast"}
    /\ d \in Nat /\ s \in Nat /\ n \in Nat /\ head \in Nat

-----------------------------------------------------------------------------
(* The call: which way the routine takes.                                  *)

\* Mutant: overlapping regions are always moved upwards.
NeverDown(c) == FALSE

\* my_memmove starts at the end when the destination is the higher region.
MovesDown(c) == c.op = "memmove" /\ ~Disjoint(c) /\ c.dest > c.src

\* Byte by byte from the start: a small region, or pointers that never have
\* the same offset in a word.
NoWords(c) ==
    IF c.op = "memset" THEN c.n < SmallMove
    ELSE \/ Offset(c.dest) # Offset(c.src)
         \/ c.op = "memmove" /\ ~Disjoint(c) /\ c.n < SmallMove

Nothing(c) == c.op = "memmove" /\ c.dest = c.src

Copying(c) ==
    /\ c.op # "strlen"
    /\ pc' = IF Nothing(c) THEN "done"
             ELSE IF NoWords(c) THEN "bytes" ELSE "head"
    /\ d' = IF MovesDown(c) THEN c.dest + c.n ELSE c.dest
    /\ s' = IF MovesDown(c) THEN c.src + c.n ELSE c.src
    /\ head' = min(Offset(c.dest), c.n)
    /\ UNCHANGED mem

\* The string that is measured has n bytes.
Scanning(c) ==
    /\ c.op = "strlen"
    /\ pc' = "scan"
    /\ mem' = [mem EXCEPT ![c.src + c.n] = NUL]
    /\ d' = c.dest /\ s' = c.src /\ head' = 0

Call ==
    /\ pc = "idle"
    /\ \E c \in Calls :
          /\ call' = c
          /\ n' = c.n
          /\ Copying(c) \/ Scanning(c)

-----------------------------------------------------------------------------
(* The loops of my_memset, my_memcpy and my_memmove.                       *)

\* Read k bytes and write them, and move the pointers on.
Copy(k) ==
    LET first == IF MovesDown(call) THEN d - k ELSE d
        from  == IF MovesDown(call) THEN s - k ELSE s
        value(a) == IF call.op = "memset" THEN NUL ELSE mem[from + (a - first)]
    IN  /\ mem' = [a \in Memory |-> IF a \in first..first + k - 1 THEN value(a)
                                                                  ELSE mem[a]]
        /\ d' = IF MovesDown(call) THEN first ELSE d + k
        /\ s' = IF MovesDown(call) THEN from ELSE s + k
        /\ n' = n - k

\* my_memmove goes on until its destination is aligned; the others treat as
\* many bytes as their destination is off.
BeforeWords == IF call.op = "memmove" /\ ~Disjoint(call)
               THEN Offset(d) # 0 /\ n > 0
               ELSE head > 0

HeadByte ==
    /\ pc = "head" /\ BeforeWords
    /\ Copy(1)
    /\ head' = IF head > 0 THEN head - 1 ELSE head
    /\ UNCHANGED <<call, pc>>

HeadDone ==
    /\ pc = "head" /\ ~BeforeWords
    /\ pc' = "words"
    /\ UNCHANGED <<mem, call, d, s, n, head>>

\* Mutant: a word is copied as long as anything is left.
WordUnguarded ==
    /\ pc = "words" /\ n > 0
    /\ Copy(MACHINE_ALIGNMENT)
    /\ UNCHANGED <<call, pc, head>>

Word ==
    /\ pc = "words" /\ n >= MACHINE_ALIGNMENT
    /\ Copy(MACHINE_ALIGNMENT)
    /\ UNCHANGED <<call, pc, head>>

\* Mutant: the words have to come out even.
WordsDoneEven ==
    /\ pc = "words" /\ n = 0
    /\ pc' = "bytes"
    /\ UNCHANGED <<mem, call, d, s, n, head>>

WordsDone ==
    /\ pc = "words" /\ n < MACHINE_ALIGNMENT
    /\ pc' = "bytes"
    /\ UNCHANGED <<mem, call, d, s, n, head>>

Byte ==
    /\ pc = "bytes" /\ n > 0
    /\ Copy(1)
    /\ UNCHANGED <<call, pc, head>>

BytesDone ==
    /\ pc = "bytes" /\ n = 0
    /\ pc' = "done"
    /\ UNCHANGED <<mem, call, d, s, n, head>>

-----------------------------------------------------------------------------
(* The loops of my_strlen: to a word's start, by words, to the terminator. *)

\* The word at a has no terminator.
NONZEROES(a) == \A b \in a..a + MACHINE_ALIGNMENT - 1 : mem[b] # NUL

Advance(k, next) ==
    /\ s' = s + k
    /\ pc' = next
    /\ UNCHANGED <<mem, call, d, n, head>>

ScanToWord ==
    /\ pc = "scan" /\ Offset(s) # 0
    /\ IF mem[s] = NUL THEN Advance(0, "done") ELSE Advance(1, "scan")

ScanAligned == pc = "scan" /\ Offset(s) = 0 /\ Advance(0, "scanwords")

ScanWord ==
    /\ pc = "scanwords"
    /\ IF NONZEROES(s) THEN Advance(MACHINE_ALIGNMENT, "scanwords")
                       ELSE Advance(0, "scanlast")

ScanLast ==
    /\ pc = "scanlast"
    /\ IF mem[s] = NUL THEN Advance(0, "done") ELSE Advance(1, "scanlast")

-----------------------------------------------------------------------------

MemInit ==
    /\ mem = [a \in Memory |-> a]
    /\ call = NoCall
    /\ pc = "idle"
    /\ d = 0 /\ s = 0 /\ n = 0 /\ head = 0

MemStep ==
    \/ HeadByte \/ HeadDone \/ Word \/ WordsDone \/ Byte \/ BytesDone
    \/ ScanToWord \/ ScanAligned \/ ScanWord \/ ScanLast

MemNext == Call \/ MemStep

MemSpec == MemInit /\ [][MemNext]_memVars

-----------------------------------------------------------------------------
(* Properties.                                                             *)

Target(c) == c.dest..c.dest + c.n - 1

\* What the memory holds after call c.
Result(c) ==
    [a \in Memory |->
        IF c.op = "strlen" /\ a = c.src + c.n THEN NUL
        ELSE IF c.op = "strlen" \/ a \notin Target(c) THEN a
        ELSE IF c.op = "memset" THEN NUL
        ELSE c.src + (a - c.dest)]

\* A routine that returns has done what its byte-wise definition says: every
\* byte of the target and no other has been written, with a byte that no word
\* copied earlier has overwritten, whatever the alignment and the overlap; and
\* my_strlen (s - call.src) has found the terminator.
RoutinesRight ==
    pc = "done" =>
        /\ mem = Result(call)
        /\ call.op = "strlen" => s - call.src = call.n

=============================================================================
