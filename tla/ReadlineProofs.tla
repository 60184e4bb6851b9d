--------------------------- MODULE ReadlineProofs ---------------------------
(* Proofs about the line discipline and the history it recalls, for every    *)
(* size of the line and of the ring and every width of the prompt.           *)
EXTENDS Readline, SequenceTheorems, TLAPS

-----------------------------------------------------------------------------
(* The arithmetic of the ring.                                               *)

\* The slot n places before the next one to be written.
Back(n) == IF n <= head THEN head - n ELSE head + MAX_HISTORY - n

LEMMA Remainder ==
    ASSUME NEW m \in Nat \ {0}, NEW a \in 0..2 * m - 1
    PROVE  a % m = IF a < m THEN a ELSE a - m
<1>1. CASE a < m
  BY <1>1
<1>2. CASE ~(a < m)
  BY <1>2
<1> QED
  BY <1>1, <1>2

LEMMA RingShape ==
    ASSUME HistoryTypeOK
    PROVE  /\ MAX_HISTORY \in Nat \ {0} /\ head \in Nat /\ head < MAX_HISTORY
           /\ count \in Nat /\ count <= MAX_HISTORY
           /\ \A n \in 0..MAX_HISTORY : Back(n) \in Slots
<1>1. /\ MAX_HISTORY \in Nat \ {0} /\ head \in Nat /\ head < MAX_HISTORY
      /\ count \in Nat /\ count <= MAX_HISTORY
  BY HistoryAssumption DEF HistoryTypeOK, Slots
<1>2. \A n \in 0..MAX_HISTORY : Back(n) \in Slots
  BY <1>1 DEF Back, Slots
<1> QED
  BY <1>1, <1>2

\* The operators of history.c by cases.
LEMMA SlotsByCases ==
    ASSUME HistoryTypeOK
    PROVE  /\ oldest = Back(count) /\ latest = Back(1)
           /\ \A s \in Slots :
                 /\ Following(s) = IF s + 1 = MAX_HISTORY THEN 0 ELSE s + 1
                 /\ Preceding(s) = IF s = 0 THEN MAX_HISTORY - 1 ELSE s - 1
                 /\ Following(s) \in Slots /\ Preceding(s) \in Slots
<1>1. /\ MAX_HISTORY \in Nat \ {0} /\ head \in Nat /\ head < MAX_HISTORY
      /\ count \in Nat /\ count <= MAX_HISTORY
  BY RingShape
<1>2. ASSUME NEW s \in Slots
      PROVE  /\ Following(s) = IF s + 1 = MAX_HISTORY THEN 0 ELSE s + 1
             /\ Preceding(s) = IF s = 0 THEN MAX_HISTORY - 1 ELSE s - 1
             /\ Following(s) \in Slots /\ Preceding(s) \in Slots
  <2>1. s \in Nat /\ s < MAX_HISTORY
    BY <1>1 DEF Slots
  <2>2. Following(s) = IF s + 1 = MAX_HISTORY THEN 0 ELSE s + 1
    <3> DEFINE a == s + 1
    <3>1. a \in 0..2 * MAX_HISTORY - 1
      BY <1>1, <2>1
    <3> HIDE DEF a
    <3>2. a % MAX_HISTORY = IF a < MAX_HISTORY THEN a ELSE a - MAX_HISTORY
      BY <1>1, <3>1, Remainder
    <3> QED
      BY <1>1, <2>1, <3>2 DEF Following, a
  <2>3. Preceding(s) = IF s = 0 THEN MAX_HISTORY - 1 ELSE s - 1
    <3> DEFINE a == s + MAX_HISTORY - 1
    <3>1. a \in 0..2 * MAX_HISTORY - 1
      BY <1>1, <2>1
    <3> HIDE DEF a
    <3>2. a % MAX_HISTORY = IF a < MAX_HISTORY THEN a ELSE a - MAX_HISTORY
      BY <1>1, <3>1, Remainder
    <3> QED
      BY <1>1, <2>1, <3>2 DEF Preceding, a
  <2> QED
    BY <1>1, <2>1, <2>2, <2>3 DEF Slots
<1>3. oldest = Back(count)
  <2> DEFINE a == head + MAX_HISTORY - count
  <2>1. a \in 0..2 * MAX_HISTORY - 1
    BY <1>1
  <2> HIDE DEF a
  <2>2. a % MAX_HISTORY = IF a < MAX_HISTORY THEN a ELSE a - MAX_HISTORY
    BY <1>1, <2>1, Remainder
  <2> QED
    BY <1>1, <2>2 DEF oldest, Back, a
<1>4. latest = Back(1)
  <2>1. head \in Slots
    BY DEF HistoryTypeOK
  <2>2. latest = IF head = 0 THEN MAX_HISTORY - 1 ELSE head - 1
    BY <1>2, <2>1 DEF latest
  <2> QED
    BY <1>1, <2>2 DEF Back
<1> QED
  BY <1>2, <1>3, <1>4

\* The k-th line that print_history prints.
LEMMA EntrySlot ==
    ASSUME HistoryTypeOK, NEW k \in 1..count
    PROVE  (oldest + k - 1) % MAX_HISTORY = Back(count - k + 1)
<1>1. /\ MAX_HISTORY \in Nat \ {0} /\ head \in Nat /\ head < MAX_HISTORY
      /\ count \in Nat /\ count <= MAX_HISTORY /\ k \in Nat /\ 1 <= k /\ k <= count
  BY RingShape
<1>2. oldest = IF count <= head THEN head - count ELSE head + MAX_HISTORY - count
  BY SlotsByCases DEF Back
<1> DEFINE a == oldest + k - 1
<1>3. a \in 0..2 * MAX_HISTORY - 1
  BY <1>1, <1>2
<1> HIDE DEF a
<1>4. a % MAX_HISTORY = IF a < MAX_HISTORY THEN a ELSE a - MAX_HISTORY
  BY <1>1, <1>3, Remainder
<1>5. a = IF count <= head THEN head - count + k - 1
                           ELSE head + MAX_HISTORY - count + k - 1
  BY <1>1, <1>2 DEF a
<1>6. a % MAX_HISTORY = Back(count - k + 1)
  BY <1>1, <1>4, <1>5 DEF Back
<1> QED
  BY <1>6 DEF a

\* Going one place further back, and one place forward.
LEMMA OnePlace ==
    ASSUME HistoryTypeOK, NEW n \in 0..MAX_HISTORY
    PROVE  /\ n < MAX_HISTORY => Preceding(Back(n)) = Back(n + 1)
           /\ n > 0 => Following(Back(n)) = Back(n - 1)
           /\ \A m \in 0..MAX_HISTORY :
                 Back(m) = Back(n) => m = n \/ {m, n} = {0, MAX_HISTORY}
<1>1. /\ MAX_HISTORY \in Nat \ {0} /\ head \in Nat /\ head < MAX_HISTORY
      /\ Back(n) \in Slots
  BY RingShape
<1>2. n < MAX_HISTORY => Preceding(Back(n)) = Back(n + 1)
  BY <1>1, SlotsByCases DEF Back
<1>3. n > 0 => Following(Back(n)) = Back(n - 1)
  BY <1>1, SlotsByCases DEF Back
<1>4. ASSUME NEW m \in 0..MAX_HISTORY, Back(m) = Back(n)
      PROVE  m = n \/ {m, n} = {0, MAX_HISTORY}
  <2>1. m = n \/ (m = 0 /\ n = MAX_HISTORY) \/ (n = 0 /\ m = MAX_HISTORY)
    BY <1>1, <1>4 DEF Back
  <2> QED
    BY <2>1
<1> QED
  BY <1>2, <1>3, <1>4

-----------------------------------------------------------------------------
(* Types.                                                                    *)

LEMMA InitTyped == ASSUME init_history PROVE HistoryTypeOK
  BY HistoryAssumption DEF init_history, HistoryTypeOK, Slots

LEMMA NewTyped ==
    ASSUME HistoryTypeOK, NEW line \in Lines, new_history(line)
    PROVE  HistoryTypeOK'
<1>1. head \in Slots /\ Following(head) \in Slots
  BY SlotsByCases DEF HistoryTypeOK
<1> QED
  BY <1>1, RingShape DEF HistoryTypeOK, new_history

LEMMA MoveTyped ==
    ASSUME HistoryTypeOK, NEW slot \in Slots, MoveCursor(slot)
    PROVE  HistoryTypeOK'
  BY DEF HistoryTypeOK, MoveCursor

\* The arrow keys stay in the ring.
LEMMA ArrowsTyped ==
    ASSUME HistoryTypeOK, get_previous_history \/ get_next_history
    PROVE  HistoryTypeOK'
<1>1. cursor \in Slots
  BY DEF HistoryTypeOK
<1> QED
  BY <1>1, SlotsByCases, MoveTyped DEF get_previous_history, get_next_history

-----------------------------------------------------------------------------
(* The listing.                                                              *)

Entry(s) == [num |-> num[s], line |-> arr[s]]
Entries == [num : Nat, line : Lines \cup {NULL}]

Listing ==
    /\ print_history = [k \in 1..count |-> Entry(Back(count - k + 1))]
    /\ print_history \in Seq(Entries) /\ Len(print_history) = count

LEMMA ListingShape == HistoryTypeOK => Listing
<1> SUFFICES ASSUME HistoryTypeOK PROVE Listing
  OBVIOUS
<1> DEFINE place(k) == (oldest + k - 1) % MAX_HISTORY
<1>1. \A k \in 1..count : place(k) = Back(count - k + 1)
  BY EntrySlot
<1> HIDE DEF place
<1>2. print_history = [k \in 1..count |-> Entry(place(k))]
  BY DEF print_history, Entry, place
<1>3. \A k \in 1..count : place(k) \in Slots
  <2>1. \A k \in 1..count : count - k + 1 \in 0..MAX_HISTORY
    BY RingShape
  <2> QED
    BY <1>1, <2>1, RingShape
<1>4. \A s \in Slots : Entry(s) \in Entries
  BY DEF HistoryTypeOK, Entry, Entries
<1>5. count \in Nat
  BY RingShape
<1>6. print_history \in [1..count -> Entries]
  BY <1>2, <1>3, <1>4
<1>7. print_history \in Seq(Entries) /\ Len(print_history) = count
  BY <1>5, <1>6
<1> QED
  BY <1>1, <1>2, <1>7 DEF Listing

LEMMA ListingNext == HistoryTypeOK' => Listing'
  BY ListingShape, PTL

-----------------------------------------------------------------------------
(* The operations do what HistoryList promises.                              *)

LEMMA InitRefines == ASSUME init_history PROVE Promise!Init
<1>1. count = 0 /\ next_num = 1
  BY DEF init_history
<1>2. print_history = <<>>
  BY <1>1 DEF print_history
<1> QED
  BY <1>1, <1>2 DEF Promise!Init

\* The arrow keys do not change what is listed.
LEMMA MoveRefines ==
    ASSUME UNCHANGED <<arr, num, next_num, head, count>>
    PROVE  UNCHANGED <<print_history, next_num - 1>>
  BY DEF print_history, oldest

\* When a sequence ends with e and has the other elements of s before it, the first
\* one left out if there is no room, then it is the last part of Append(s, e).
LEMMA LastPart ==
    ASSUME NEW E, NEW s \in Seq(E), NEW e \in E, NEW t \in Seq(E), NEW m \in Nat \ {0},
           Len(s) <= m, Len(t) = IF Len(s) < m THEN Len(s) + 1 ELSE m,
           t[Len(t)] = e,
           \A k \in 1..Len(t) - 1 : t[k] = s[k + (Len(s) + 1 - Len(t))]
    PROVE  t = Promise!LastOnes(Append(s, e), m)
<1> DEFINE longer == Append(s, e)
           first == Len(s) + 2 - Len(t)
           last == SubSeq(longer, first, Len(longer))
<1>1. /\ longer \in Seq(E) /\ Len(longer) = Len(s) + 1 /\ Len(s) \in Nat
      /\ \A k \in 1..Len(s) : longer[k] = s[k]
      /\ longer[Len(s) + 1] = e
  BY AppendProperties
<1>2. first \in 1..2 /\ Len(t) = Len(s) + 2 - first /\ Len(t) \in Nat \ {0}
  BY <1>1
<1>3. Promise!LastOnes(longer, m) = last
  <2>1. 1 + (IF Len(longer) > m THEN Len(longer) - m ELSE 0) = first
    <3>1. CASE Len(s) < m
      <4>1. Len(t) = Len(s) + 1 /\ ~(Len(longer) > m) /\ Len(s) \in Nat
        BY <1>1, <3>1
      <4> QED
        BY <4>1
    <3>2. CASE Len(s) = m
      <4>1. Len(t) = m /\ Len(longer) = m + 1
        BY <1>1, <3>2
      <4>2. first = 2
        BY <3>2, <4>1
      <4> HIDE DEF longer, first
      <4> QED
        BY <4>1, <4>2
    <3>3. Len(s) < m \/ Len(s) = m
      BY <1>1
    <3> HIDE DEF longer, first
    <3> QED
      BY <3>1, <3>2, <3>3
  <2> HIDE DEF longer, first
  <2> QED
    BY <2>1 DEF Promise!LastOnes
<1>4. \A k \in 1..Len(t) - 1 : t[k] = s[first + k - 1]
  <2>1. \A k \in 1..Len(t) - 1 : k + (Len(s) + 1 - Len(t)) = first + k - 1
    BY <1>1, <1>2
  <2> QED
    BY <2>1
<1> HIDE DEF longer, first
<1>5. /\ last \in Seq(E) /\ Len(last) = Len(t)
      /\ \A k \in 1..Len(t) : last[k] = longer[first + k - 1]
  <2>1. first \in 1..Len(longer) + 1 /\ Len(longer) \in first - 1..Len(longer)
    BY <1>1, <1>2
  <2>2. first <= Len(longer) /\ Len(longer) - first + 1 = Len(t)
    BY <1>1, <1>2
  <2> QED
    BY <1>1, <1>2, <2>1, <2>2, SubSeqProperties
<1>6. ASSUME NEW k \in 1..Len(t)
      PROVE  t[k] = last[k]
  <2>1. CASE k = Len(t)
    BY <1>1, <1>2, <1>5, <2>1
  <2>2. CASE k # Len(t)
    <3>1. k \in 1..Len(t) - 1 /\ first + k - 1 \in 1..Len(s)
      BY <1>1, <1>2, <2>2
    <3> QED
      BY <1>1, <1>4, <1>5, <3>1
  <2> QED
    BY <2>1, <2>2
<1> HIDE DEF last
<1>7. t = last
  BY <1>5, <1>6, SeqEqual
<1> QED
  BY <1>3, <1>7 DEF longer

\* A line that does not repeat the latest one is appended, and drops the oldest
\* one when the ring is full.
LEMMA NewRefines ==
    ASSUME HistoryTypeOK, NEW line \in Lines, new_history(line), ~Repeats(line)
    PROVE  Promise!Enter(line)
<1> DEFINE old == print_history
           new == [num |-> next_num, line |-> line]
           Place(n) == Entry(Back(n))
<1>1. /\ MAX_HISTORY \in Nat \ {0} /\ head \in Nat /\ head < MAX_HISTORY
      /\ count \in Nat /\ count <= MAX_HISTORY /\ head \in Slots
      /\ arr \in [Slots -> Lines \cup {NULL}] /\ num \in [Slots -> Nat]
      /\ next_num \in Nat
  BY RingShape DEF HistoryTypeOK
<1>2. /\ arr' = [arr EXCEPT ![head] = line] /\ num' = [num EXCEPT ![head] = next_num]
      /\ next_num' = next_num + 1
      /\ head' = IF head + 1 = MAX_HISTORY THEN 0 ELSE head + 1
      /\ count' = IF count < MAX_HISTORY THEN count + 1 ELSE count
  BY <1>1, SlotsByCases DEF new_history
<1>3. Listing /\ Listing'
  BY NewTyped, ListingShape, ListingNext
<1>4. new \in Entries
  BY <1>1 DEF Entries
\* The slots of the lines listed before have not been written, unless the oldest
\* one had to go.
<1>5. ASSUME NEW n \in 1..MAX_HISTORY
      PROVE  Place(n)' = IF n = 1 THEN new ELSE Place(n - 1)
  <2>1. Back(n)' = IF n = 1 THEN head ELSE Back(n - 1)
    BY <1>1, <1>2 DEF Back
  <2>2. n > 1 => Back(n - 1) \in Slots /\ Back(n - 1) # head
    BY <1>1 DEF Back, Slots
  <2> QED
    BY <1>1, <1>2, <2>1, <2>2 DEF Entry
<1>6. /\ old \in Seq(Entries) /\ Len(old) = count
      /\ \A k \in 1..count : old[k] = Place(count - k + 1)
  BY <1>3 DEF Listing
<1>7. /\ old' \in Seq(Entries) /\ Len(old') = count'
      /\ \A k \in 1..count' : \A n : n = count' - k + 1 => old'[k] = Place(n)'
  <2>1. Entries' = Entries
    BY DEF Entries
  <2> QED
    BY <1>3, <2>1 DEF Listing
<1> HIDE DEF old, new, Place
<1>8. old = <<>> \/ old[Len(old)].line # line
  <2>1. CASE count = 0
    BY <1>6, <2>1
  <2>2. CASE count # 0
    <3>1. old[count] = Place(1)
      BY <1>1, <1>6, <2>2
    <3>2. arr[Back(1)] # line
      BY HistoryAssumption, SlotsByCases DEF Repeats
    <3> QED
      BY <1>6, <3>1, <3>2 DEF Entry, Place
  <2> QED
    BY <2>1, <2>2
<1>9. old' = Promise!LastOnes(Append(old, new), MAX_HISTORY)
  <2>1. old'[count'] = new
    <3>1. count' \in 1..count' /\ count' - count' + 1 = 1 /\ 1 \in 1..MAX_HISTORY
      BY <1>1, <1>2
    <3> QED
      BY <1>5, <1>7, <3>1
  <2>2. ASSUME NEW k \in 1..count' - 1
        PROVE  old'[k] = old[k + (count + 1 - count')]
    <3> DEFINE j == k + (count + 1 - count')
    <3>9. PICK n \in 1..MAX_HISTORY : n = count' - k + 1
      BY <1>1, <1>2
    <3>1. /\ n # 1 /\ k \in 1..count'
          /\ j \in 1..count /\ count - j + 1 = n - 1
      BY <1>1, <1>2, <3>9
    <3>2. old'[k] = Place(n)'
      BY <1>7, <3>9, <3>1
    <3>3. Place(n)' = Place(n - 1)
      BY <1>5, <3>1
    <3>4. old[j] = Place(n - 1)
      BY <1>6, <3>1
    <3> QED
      BY <3>2, <3>3, <3>4
  <2>3. Len(old') = IF Len(old) < MAX_HISTORY THEN Len(old) + 1 ELSE MAX_HISTORY
    BY <1>1, <1>2, <1>6, <1>7
  <2> QED
    BY <1>1, <1>4, <1>6, <1>7, <2>1, <2>2, <2>3, LastPart
<1>10. (next_num - 1)' = (next_num - 1) + 1 /\ (next_num - 1)' = next_num
  BY <1>1, <1>2
<1> QED
  BY <1>8, <1>9, <1>10 DEF Promise!Enter, old, new

-----------------------------------------------------------------------------
(* Strings.                                                                  *)

\* A buffer that holds a string of n characters.
Holds(buf, n) == \A i \in Cells : (buf[i] = NUL) <=> (i >= n)

LEMMA CharsDiffer == NUL \notin Chars /\ \A c : Glyph(c) \in Chars
  BY DEF NUL, Chars, Glyph

LEMMA LengthOf ==
    ASSUME NEW buf, NEW n \in Cells, Holds(buf, n)
    PROVE  my_strlen(buf) = n
<1> DEFINE ends == {i \in Cells : buf[i] = NUL}
<1>1. n \in ends /\ \A i \in ends : i >= n /\ i \in Nat
  BY ReadlineAssumption DEF Holds, Cells
<1>2. my_strlen(buf) = CHOOSE x \in ends : \A y \in ends : x <= y
  BY DEF my_strlen, Min
<1> HIDE DEF ends
<1>3. \A x \in ends : (\A y \in ends : x <= y) => x = n
  BY <1>1
<1>4. \A y \in ends : n <= y
  BY <1>1
<1> QED
  BY <1>1, <1>2, <1>3, <1>4

LEMMA RedrawAt ==
    ASSUME NEW buf, NEW n \in Cells, Holds(buf, n), NEW pos \in 0..n
    PROVE  redraw(buf, pos) = pos
<1>1. my_strlen(buf) = n
  BY LengthOf
<1>2. n \in Nat /\ pos \in Nat /\ PromptWidth \in Nat /\ n - (n - pos) = pos
  BY ReadlineAssumption DEF Cells
<1>3. Left(pos) = pos
  BY <1>2 DEF Left
<1> QED
  BY <1>1, <1>2, <1>3 DEF redraw

LEMMA LineShape ==
    ASSUME NEW line \in Lines
    PROVE  /\ line \in Seq(Chars)
           /\ Len(line) \in 1..LDISC_MAX_LINE - 1
           /\ line \in [1..Len(line) -> Chars]
<1>1. PICK n \in 1..LDISC_MAX_LINE - 1 : line \in [1..n -> Chars]
  BY LinesAssumption
<1>2. line \in Seq(Chars)
  BY <1>1, SeqDef
<1>3. Len(line) \in Nat /\ line \in [1..Len(line) -> Chars] /\ DOMAIN line = 1..Len(line)
  BY <1>2, LenProperties
<1>4. n \in Nat /\ 1..n = 1..Len(line)
  BY <1>1, <1>3
<1>5. n = Len(line)
  <2>1. PICK l \in Nat : l = Len(line)
    BY <1>3
  <2>2. 1..n = 1..l /\ n \in Nat /\ l \in Nat /\ n >= 1
    BY <1>4, <2>1
  <2>3. n \in 1..l
    BY <2>2
  <2>4. l \in 1..n
    BY <2>2, <2>3
  <2> QED
    BY <2>1, <2>2, <2>3, <2>4
<1> QED
  BY <1>1, <1>2, <1>3, <1>5

\* A recalled line is copied with its terminator and fills the rest with NUL.
LEMMA CopiedHolds ==
    ASSUME NEW line \in Lines
    PROVE  /\ Copied(line) \in [Cells -> Chars \cup {NUL}]
           /\ Len(line) \in Cells
           /\ Holds(Copied(line), Len(line))
<1>1. Len(line) \in 1..LDISC_MAX_LINE - 1 /\ line \in [1..Len(line) -> Chars]
  BY LineShape
<1>2. LDISC_MAX_LINE \in Nat \ 0..1
  BY ReadlineAssumption
<1>3. \A i \in Cells : i < Len(line) => i + 1 \in 1..Len(line)
  BY <1>1, <1>2 DEF Cells
<1>4. \A i \in Cells : i < Len(line) => line[i + 1] \in Chars
  BY <1>1, <1>3
<1>5. \A i \in Cells : i < Len(line) <=> ~(i >= Len(line))
  BY <1>1, <1>2 DEF Cells
<1>6. Copied(line) \in [Cells -> Chars \cup {NUL}]
  BY <1>4 DEF Copied
<1>7. Len(line) \in Cells
  BY <1>1, <1>2 DEF Cells
<1>8. Holds(Copied(line), Len(line))
  BY <1>4, <1>5, CharsDiffer DEF Copied, Holds
<1> QED
  BY <1>6, <1>7, <1>8

LEMMA EmptyHolds ==
    /\ Empty \in [Cells -> Chars \cup {NUL}]
    /\ 0 \in Cells
    /\ Holds(Empty, 0)
  BY ReadlineAssumption DEF Empty, Cells, Holds

\* What my_readline returns is a line that fits.
LEMMA LineReturned ==
    ASSUME ldisc_line \in [Cells -> Chars \cup {NUL}], len \in Cells, len > 0,
           Holds(ldisc_line, len)
    PROVE  Line \in Lines
<1>1. my_strlen(ldisc_line) = len
  BY LengthOf
<1>2. LDISC_MAX_LINE \in Nat \ 0..1
  BY ReadlineAssumption
<1>3. len \in 1..LDISC_MAX_LINE - 1
  BY <1>2 DEF Cells
<1>4. \A i \in 1..len : i - 1 \in Cells /\ ~(i - 1 >= len)
  BY <1>2, <1>3 DEF Cells
<1>5. \A i \in 1..len : ldisc_line[i - 1] \in Chars
  BY <1>4 DEF Holds
<1>6. Line \in [1..len -> Chars]
  BY <1>1, <1>5 DEF Line
<1> QED
  BY <1>3, <1>6, LinesAssumption

-----------------------------------------------------------------------------
(* The invariant.                                                            *)

\* The line that is edited.
LineInv ==
    /\ ldisc_line \in [Cells -> Chars \cup {NUL}]
    /\ len \in Cells
    /\ Holds(ldisc_line, len)

\* The cursors: in the line, and on the terminal, never to the right of it.
CursorInv ==
    /\ cursor_pos \in 0..len
    /\ ctrlchar \in 0..2
    /\ col \in -PromptWidth..cursor_pos

\* The cursor of history is at the place of the walk, and the slots that no entry
\* has been put in are empty: as long as there are any the ring has not wrapped.
WalkInv ==
    /\ recall \in 0..MAX_HISTORY
    /\ recall = 0 => count < MAX_HISTORY
    /\ recall = MAX_HISTORY => count = MAX_HISTORY
    /\ cursor = Back(recall)
    /\ count < MAX_HISTORY => head = count
    /\ \A s \in Slots : arr[s] = NULL <=> count < MAX_HISTORY /\ s >= count

RInv ==
    /\ HistoryTypeOK
    /\ LineInv
    /\ CursorInv
    /\ WalkInv
    /\ closed \in BOOLEAN

\* The conjuncts of the invariant that name the parts of the state.
LEMMA Bounds ==
    ASSUME LineInv
    PROVE  /\ LDISC_MAX_LINE \in Nat \ 0..1 /\ PromptWidth \in Nat
           /\ len \in Nat /\ len < LDISC_MAX_LINE
           /\ Cells = 0..LDISC_MAX_LINE - 1
  BY ReadlineAssumption DEF LineInv, Cells

LEMMA InvImplies ==
    ASSUME RInv
    PROVE  TypeOK /\ LineTerminated /\ ArrowsWalkListing
<1> USE DEF RInv
<1>1. TypeOK
  <2>1. col \in -PromptWidth..LDISC_MAX_LINE
    BY Bounds DEF CursorInv, LineInv
  <2> QED
    BY <2>1 DEF TypeOK, LineInv, CursorInv, WalkInv
<1>2. LineTerminated
  BY DEF LineInv, Holds, LineTerminated
<1>3. ASSUME recall \in 1..count
      PROVE  arr[cursor] = print_history[count - recall + 1].line
  <2> DEFINE k == count - recall + 1
  <2>1. recall \in 1..count /\ count \in Nat
    BY <1>3, RingShape
  <2>2. k \in 1..count /\ count - k + 1 = recall
    BY <2>1
  <2>3. cursor = Back(recall)
    BY DEF WalkInv
  <2> HIDE DEF k
  <2>4. (oldest + k - 1) % MAX_HISTORY = cursor
    BY <2>2, <2>3, EntrySlot
  <2>5. print_history[k].line = arr[cursor]
    BY <2>2, <2>4 DEF print_history
  <2> QED
    BY <2>5 DEF k
<1>4. ASSUME recall \notin 1..count
      PROVE  arr[cursor] = NULL
  <2>1. /\ head \in Nat /\ head < MAX_HISTORY /\ count \in Nat /\ count <= MAX_HISTORY
        /\ recall \in Nat /\ recall <= MAX_HISTORY /\ MAX_HISTORY \in Nat
        /\ cursor \in Slots
    BY RingShape DEF WalkInv, HistoryTypeOK
  <2>2. count < MAX_HISTORY /\ head = count /\ recall # MAX_HISTORY
    BY <1>4, <2>1 DEF WalkInv
  <2>3. cursor >= count
    BY <1>4, <2>1, <2>2 DEF WalkInv, Back
  <2> QED
    BY <2>1, <2>2, <2>3 DEF WalkInv
<1> QED
  BY <1>1, <1>2, <1>3, <1>4 DEF ArrowsWalkListing

-----------------------------------------------------------------------------
(* The steps.                                                                *)

LEMMA InitInv == Init => RInv
<1> SUFFICES ASSUME Init PROVE RInv
  OBVIOUS
<1>1. HistoryTypeOK
  BY InitTyped DEF Init
<1>2. LineInv
  BY EmptyHolds DEF Init, LineInv
<1>3. CursorInv
  BY ReadlineAssumption DEF Init, CursorInv
<1>4. WalkInv
  BY HistoryAssumption DEF Init, init_history, WalkInv, Back, Slots
<1> QED
  BY <1>1, <1>2, <1>3, <1>4 DEF Init, RInv

LEMMA NewLineInv == ASSUME NewLine PROVE LineInv' /\ CursorInv'
<1>1. LineInv'
  BY EmptyHolds DEF NewLine, LineInv, Holds
<1>2. CursorInv'
  BY ReadlineAssumption DEF NewLine, CursorInv
<1> QED
  BY <1>1, <1>2

LEMMA BackZero == HistoryTypeOK => Back(0) = head
  BY RingShape DEF Back

LEMMA BackZeroNext == HistoryTypeOK' => (Back(0) = head)'
  BY BackZero, PTL

\* When my_readline returns, history has the line, or is as it was.
LEMMA ReturnInv ==
    ASSUME RInv, NEW length \in {0, len}, Return(length)
    PROVE  HistoryTypeOK' /\ LineInv' /\ CursorInv' /\ WalkInv'
<1>1. LineInv' /\ CursorInv'
  BY NewLineInv DEF Return
<1>2. CASE UNCHANGED <<history, recall>>
  BY <1>1, <1>2 DEF RInv, history, HistoryTypeOK, WalkInv, Back
<1>3. CASE /\ length > 0
           /\ update_history(Line)
           /\ recall' = IF Repeats(Line) THEN recall
                        ELSE IF count' < MAX_HISTORY THEN 0 ELSE MAX_HISTORY
  <2>1. Line \in Lines
    BY <1>3, LineReturned DEF RInv, LineInv, Cells
  <2>2. CASE UNCHANGED <<history, recall>>
    BY <1>2, <2>2
  <2>3. CASE new_history(Line) /\ ~Repeats(Line)
    <3>1. HistoryTypeOK'
      BY <2>1, <2>3, NewTyped DEF RInv
    <3>2. recall' = IF count' < MAX_HISTORY THEN 0 ELSE MAX_HISTORY
      BY <1>3, <2>3
    <3>3. cursor' = head'
      BY <2>3 DEF new_history
    <3>4. /\ head \in Nat /\ head < MAX_HISTORY /\ head \in Slots
          /\ count \in Nat /\ count <= MAX_HISTORY /\ MAX_HISTORY \in Nat \ {0}
      BY RingShape DEF RInv, HistoryTypeOK
    <3>5. /\ head' = IF head + 1 = MAX_HISTORY THEN 0 ELSE head + 1
          /\ count' = IF count < MAX_HISTORY THEN count + 1 ELSE count
          /\ arr' = [arr EXCEPT ![head] = Line]
      BY <2>3, <3>4, SlotsByCases DEF new_history, RInv
    <3>6. recall' \in {0, MAX_HISTORY} /\ cursor' = (Back(recall))'
      BY <3>2, <3>3, <3>4, <3>5 DEF Back
    <3>7. count' < MAX_HISTORY => head' = count'
      BY <3>4, <3>5 DEF RInv, WalkInv
    <3>8. ASSUME NEW s \in Slots
          PROVE  arr'[s] = NULL <=> count' < MAX_HISTORY /\ s >= count'
      <4>1. arr'[s] = IF s = head THEN Line ELSE arr[s]
        BY <3>5 DEF RInv, HistoryTypeOK
      <4>2. Line # NULL
        BY <2>1, HistoryAssumption
      <4>3. arr[s] = NULL <=> count < MAX_HISTORY /\ s >= count
        BY DEF RInv, WalkInv
      <4>4. count < MAX_HISTORY => head = count
        BY DEF RInv, WalkInv
      <4>5. s \in Nat /\ s < MAX_HISTORY
        BY <3>4 DEF Slots
      <4> QED
        BY <3>4, <3>5, <4>1, <4>2, <4>3, <4>4, <4>5
    <3>9. WalkInv'
      BY <3>2, <3>4, <3>5, <3>6, <3>7, <3>8 DEF WalkInv
    <3> QED
      BY <1>1, <3>1, <3>9
  <2> QED
    BY <1>3, <2>2, <2>3 DEF update_history
<1> QED
  BY <1>2, <1>3 DEF Return

\* The steps that edit the line leave history where it is.
LEMMA HistoryStays ==
    ASSUME RInv, UNCHANGED <<history, recall>>
    PROVE  HistoryTypeOK' /\ WalkInv'
  BY DEF RInv, history, HistoryTypeOK, WalkInv, Back

LEMMA InsertInv ==
    ASSUME RInv, NEW c \in Bytes, Insert(c)
    PROVE  LineInv' /\ CursorInv' /\ col' = cursor_pos'
<1> DEFINE opened == IF cursor_pos # len
                     THEN Moved(cursor_pos + 1, cursor_pos, len - cursor_pos + 1)
                     ELSE ldisc_line
<1>1. /\ LDISC_MAX_LINE \in Nat /\ PromptWidth \in Nat /\ len \in Nat
      /\ cursor_pos \in 0..len /\ cursor_pos \in Cells /\ len + 1 \in Cells
      /\ Cells = 0..LDISC_MAX_LINE - 1
      /\ ldisc_line \in [Cells -> Chars \cup {NUL}]
  BY Bounds DEF RInv, LineInv, CursorInv, Insert, Reads, Room
<1>2. ldisc_line' = [opened EXCEPT ![cursor_pos] = Glyph(c)]
  BY DEF Insert
<1>3. ASSUME NEW i \in Cells
      PROVE  /\ i > cursor_pos => i - 1 \in Cells
             /\ opened[i] = IF cursor_pos # len /\ i \in cursor_pos + 1..len + 1
                            THEN ldisc_line[i - 1] ELSE ldisc_line[i]
  <2>1. i > cursor_pos => i - 1 \in Cells
    BY <1>1
  <2>2. CASE cursor_pos # len
    <3>1. cursor_pos + 1 + (len - cursor_pos + 1) - 1 = len + 1
      BY <1>1
    <3>2. cursor_pos + i - (cursor_pos + 1) = i - 1
      BY <1>1
    <3> QED
      BY <2>1, <2>2, <3>1, <3>2 DEF Moved
  <2> QED
    BY <2>1, <2>2
<1>4. DOMAIN opened = Cells /\ opened = [i \in Cells |-> opened[i]]
  BY <1>1 DEF Moved
<1>5. ASSUME NEW i \in Cells
      PROVE  /\ opened[i] \in Chars \cup {NUL}
             /\ i # cursor_pos => (opened[i] = NUL <=> i >= len + 1)
  <2>1. (ldisc_line[i] = NUL <=> i >= len)
        /\ (i > cursor_pos => (ldisc_line[i - 1] = NUL <=> i - 1 >= len))
    BY <1>3 DEF RInv, LineInv, Holds
  <2>2. opened[i] \in Chars \cup {NUL}
    BY <1>1, <1>3
  <2>3. ASSUME i # cursor_pos PROVE opened[i] = NUL <=> i >= len + 1
    <3>1. CASE cursor_pos # len /\ i \in cursor_pos + 1..len + 1
      <4>1. opened[i] = ldisc_line[i - 1] /\ i > cursor_pos
        BY <1>1, <1>3, <3>1
      <4>2. i - 1 >= len <=> i >= len + 1
        BY <1>1
      <4> HIDE DEF opened
      <4> QED
        BY <2>1, <4>1, <4>2
    <3>2. CASE ~(cursor_pos # len /\ i \in cursor_pos + 1..len + 1)
      <4>1. opened[i] = ldisc_line[i]
        BY <1>3, <3>2
      <4>2. i >= len <=> i >= len + 1
        BY <1>1, <2>3, <3>2
      <4> HIDE DEF opened
      <4> QED
        BY <2>1, <4>1, <4>2
    <3> QED
      BY <3>1, <3>2
  <2> QED
    BY <2>2, <2>3
<1> HIDE DEF opened
<1>6. \A i \in Cells : ldisc_line'[i] = IF i = cursor_pos THEN Glyph(c) ELSE opened[i]
  BY <1>2, <1>4
<1>7. ldisc_line' \in [Cells -> Chars \cup {NUL}]
  BY <1>2, <1>4, <1>5, CharsDiffer
<1>8. Holds(ldisc_line', len + 1)
  <2>1. ~(cursor_pos >= len + 1)
    BY <1>1
  <2> QED
    BY <1>5, <1>6, <2>1, CharsDiffer DEF Holds
<1>9. len' = len + 1 /\ cursor_pos' = cursor_pos + 1 /\ ctrlchar' = ctrlchar
      /\ col' = redraw(ldisc_line', cursor_pos')
  BY DEF Insert
<1>10. cursor_pos' \in 0..len + 1
  BY <1>1, <1>9
<1>11. col' = cursor_pos'
  BY <1>1, <1>8, <1>9, <1>10, RedrawAt
<1>12. LineInv'
  BY <1>1, <1>7, <1>8, <1>9 DEF LineInv, Holds
<1>13. CursorInv'
  BY <1>1, <1>9, <1>10, <1>11 DEF RInv, CursorInv
<1> QED
  BY <1>11, <1>12, <1>13

LEMMA BackspaceInv ==
    ASSUME RInv, Backspace
    PROVE  LineInv' /\ CursorInv'
<1>0. Room /\ cursor_pos > 0
  BY DEF Backspace, Reads
<1>1. /\ LDISC_MAX_LINE \in Nat /\ PromptWidth \in Nat /\ len \in Nat
      /\ cursor_pos \in 1..len /\ len < LDISC_MAX_LINE /\ len + 1 \in Cells
      /\ Cells = 0..LDISC_MAX_LINE - 1
      /\ ldisc_line \in [Cells -> Chars \cup {NUL}]
  <2>1. /\ LDISC_MAX_LINE \in Nat /\ PromptWidth \in Nat
        /\ Cells = 0..LDISC_MAX_LINE - 1
    BY Bounds DEF RInv
  <2>2. /\ len \in Nat /\ len < LDISC_MAX_LINE /\ cursor_pos \in 0..len
        /\ ldisc_line \in [Cells -> Chars \cup {NUL}]
    BY <2>1 DEF RInv, LineInv, CursorInv
  <2> QED
    BY <1>0, <2>1, <2>2 DEF Room
<1>2. /\ ldisc_line' = Moved(cursor_pos - 1, cursor_pos, len - cursor_pos + 1)
      /\ len' = len - 1 /\ cursor_pos' = cursor_pos - 1 /\ ctrlchar' = ctrlchar
      /\ col' = Left(redraw(ldisc_line', cursor_pos') - (len' - cursor_pos'))
  BY DEF Backspace
<1>3. ASSUME NEW i \in Cells
      PROVE  /\ i \in cursor_pos - 1..len - 1 => i + 1 \in Cells
             /\ ldisc_line'[i] = IF i \in cursor_pos - 1..len - 1
                                 THEN ldisc_line[i + 1] ELSE ldisc_line[i]
  <2>1. i \in cursor_pos - 1..len - 1 => i + 1 \in Cells
    BY <1>1
  <2>2. cursor_pos - 1 + (len - cursor_pos + 1) - 1 = len - 1
    BY <1>1
  <2>3. cursor_pos + i - (cursor_pos - 1) = i + 1
    BY <1>1
  <2> QED
    BY <1>2, <2>1, <2>2, <2>3 DEF Moved
<1>4. ldisc_line' \in [Cells -> Chars \cup {NUL}]
  <2>1. ldisc_line' = [i \in Cells |-> ldisc_line'[i]]
    BY <1>2 DEF Moved
  <2> QED
    BY <1>1, <1>3, <2>1
<1>5. ASSUME NEW i \in Cells
      PROVE  ldisc_line'[i] = NUL <=> i >= len - 1
  <2>1. CASE i \in cursor_pos - 1..len - 1
    <3>1. ldisc_line[i + 1] = NUL <=> i + 1 >= len
      BY <1>3, <2>1 DEF RInv, LineInv, Holds
    <3>2. i + 1 >= len <=> i >= len - 1
      BY <1>1
    <3> QED
      BY <1>3, <2>1, <3>1, <3>2
  <2>2. CASE ~(i \in cursor_pos - 1..len - 1)
    <3>1. ldisc_line[i] = NUL <=> i >= len
      BY DEF RInv, LineInv, Holds
    <3>2. i >= len <=> i >= len - 1
      BY <1>1, <2>2
    <3> QED
      BY <1>3, <2>2, <3>1, <3>2
  <2> QED
    BY <2>1, <2>2
<1>6. Holds(ldisc_line', len - 1) /\ len - 1 \in Cells /\ cursor_pos - 1 \in 0..len - 1
  BY <1>1, <1>5 DEF Holds
<1>7. LineInv'
  BY <1>2, <1>4, <1>6 DEF LineInv, Holds
<1>8. redraw(ldisc_line', cursor_pos') = cursor_pos - 1
  BY <1>2, <1>6, RedrawAt
<1>9. len' - cursor_pos' \in Nat
  BY <1>1, <1>2
<1>10. col' \in -PromptWidth..cursor_pos - 1
  BY <1>1, <1>2, <1>8, <1>9 DEF Left
<1>11. CursorInv'
  BY <1>1, <1>2, <1>10 DEF RInv, CursorInv
<1> QED
  BY <1>7, <1>11

\* The left and right arrows move both cursors by one, not beyond the line.
LEMMA SidewaysInv ==
    ASSUME RInv, LeftArrow \/ RightArrow
    PROVE  /\ LineInv' /\ CursorInv'
           /\ col = cursor_pos => col' = cursor_pos'
<1>1. /\ PromptWidth \in Nat /\ len \in Nat /\ cursor_pos \in 0..len
      /\ col \in -PromptWidth..cursor_pos
  BY Bounds DEF RInv, LineInv, CursorInv
<1>2. ctrlchar' = 0 /\ ldisc_line' = ldisc_line /\ len' = len
  BY DEF LeftArrow, RightArrow
<1>3. LineInv'
  BY <1>2 DEF RInv, LineInv, Holds
<1>4. CASE LeftArrow
  <2>1. cursor_pos > 0 /\ cursor_pos' = cursor_pos - 1 /\ col' = Left(col - 1)
    BY <1>4 DEF LeftArrow
  <2>2. /\ cursor_pos' \in 0..len /\ col' \in -PromptWidth..cursor_pos'
        /\ col = cursor_pos => col' = cursor_pos'
    BY <1>1, <2>1 DEF Left
  <2> QED
    BY <1>2, <1>3, <2>2 DEF CursorInv
<1>5. CASE RightArrow
  <2>1. cursor_pos < len /\ cursor_pos' = cursor_pos + 1 /\ col' = col + 1
    BY <1>5 DEF RightArrow
  <2>2. /\ cursor_pos' \in 0..len /\ col' \in -PromptWidth..cursor_pos'
        /\ col = cursor_pos => col' = cursor_pos'
    BY <1>1, <2>1
  <2> QED
    BY <1>2, <1>3, <2>2 DEF CursorInv
<1> QED
  BY <1>4, <1>5

\* A recalled line replaces the whole line, whichever of the two is longer.
LEMMA ShowInv ==
    ASSUME RInv, cursor' \in Slots, Show
    PROVE  /\ LineInv' /\ CursorInv'
           /\ col = cursor_pos \/ ldisc_line' # ldisc_line => col' = cursor_pos'
<1>1. CASE ctrlchar' = 0 /\ UNCHANGED <<ldisc_line, len, cursor_pos, col>>
  BY <1>1 DEF RInv, LineInv, CursorInv, Holds
<1>2. CASE /\ ctrlchar' = 0
           /\ arr[cursor'] # NULL
           /\ ldisc_line' = Copied(arr[cursor'])
           /\ len' = my_strlen(ldisc_line')
           /\ cursor_pos' = len'
           /\ col' = redraw(ldisc_line', cursor_pos')
  <2>1. PICK line \in Lines : line = arr[cursor']
    BY <1>2 DEF RInv, HistoryTypeOK
  <2>2. /\ ldisc_line' \in [Cells -> Chars \cup {NUL}]
        /\ Len(line) \in Cells
        /\ Holds(ldisc_line', Len(line))
    BY <1>2, <2>1, CopiedHolds
  <2>3. len' = Len(line)
    BY <1>2, <2>2, LengthOf
  <2>4. Len(line) \in Nat /\ PromptWidth \in Nat
    BY <2>2, ReadlineAssumption DEF Cells
  <2>5. LineInv'
    BY <2>2, <2>3 DEF LineInv, Holds
  <2>6. Len(line) \in 0..Len(line)
    BY <2>4
  <2>7. redraw(ldisc_line', Len(line)) = Len(line)
    BY <2>2, <2>6, RedrawAt
  <2>8. cursor_pos' = Len(line) /\ col' = Len(line) /\ ctrlchar' = 0
    BY <1>2, <2>3, <2>7
  <2>9. CursorInv'
    BY <2>3, <2>4, <2>8 DEF CursorInv
  <2> QED
    BY <2>5, <2>8, <2>9
<1> QED
  BY <1>1, <1>2 DEF Show

\* The cursor of history goes where the walk goes.
LEMMA WalkStep ==
    ASSUME RInv,
           \/ get_previous_history /\ recall' = Older
           \/ get_next_history /\ recall' = Newer
    PROVE  HistoryTypeOK' /\ WalkInv' /\ cursor' \in Slots
<1>1. HistoryTypeOK'
  BY ArrowsTyped DEF RInv
<1>2. cursor' \in Slots
  BY <1>1 DEF HistoryTypeOK
<1>3. UNCHANGED <<arr, num, next_num, head, count>>
  BY DEF get_previous_history, get_next_history, MoveCursor
<1>4. /\ MAX_HISTORY \in Nat \ {0} /\ count \in Nat /\ count <= MAX_HISTORY
      /\ recall \in 0..MAX_HISTORY
      /\ recall = 0 => count < MAX_HISTORY
      /\ recall = MAX_HISTORY => count = MAX_HISTORY
      /\ cursor = Back(recall)
      /\ HistoryTypeOK
  BY RingShape DEF RInv, WalkInv
<1>5. oldest = Back(count) /\ latest = Back(1)
  BY <1>4, SlotsByCases
<1>6. Back(0) = Back(MAX_HISTORY)
  BY <1>4, RingShape DEF Back
<1>7. SUFFICES /\ recall' \in 0..MAX_HISTORY
               /\ recall' = 0 => count < MAX_HISTORY
               /\ recall' = MAX_HISTORY => count = MAX_HISTORY
               /\ cursor' = Back(recall')
  BY <1>1, <1>2, <1>3 DEF RInv, WalkInv, Back
<1>8. CASE get_previous_history /\ recall' = Older
  <2>1. cursor' = IF cursor # oldest THEN Preceding(cursor) ELSE cursor
    BY <1>8 DEF get_previous_history, MoveCursor
  <2>2. CASE recall = count
    BY <1>4, <1>5, <1>8, <2>1, <2>2 DEF Older
  <2>3. CASE recall # count
    <3>1. recall < MAX_HISTORY /\ recall + 1 \in 0..MAX_HISTORY
      BY <1>4, <2>3
    <3>2. cursor # oldest
      <4>1. count \in 0..MAX_HISTORY
        BY <1>4
      <4>2. {recall, count} # {0, MAX_HISTORY}
        BY <1>4, <2>3
      <4> QED
        BY <1>4, <1>5, <2>3, <4>1, <4>2, OnePlace
    <3>3. cursor' = Back(recall + 1)
      BY <1>4, <2>1, <3>1, <3>2, OnePlace
    <3>4. CASE recall + 1 = MAX_HISTORY /\ count < MAX_HISTORY
      <4>1. recall' = 0
        BY <1>8, <2>3, <3>4 DEF Older
      <4> QED
        BY <1>4, <1>6, <3>3, <3>4, <4>1
    <3>5. CASE ~(recall + 1 = MAX_HISTORY /\ count < MAX_HISTORY)
      <4>1. recall' = recall + 1
        BY <1>8, <2>3, <3>5 DEF Older
      <4> QED
        BY <1>4, <3>1, <3>3, <3>5, <4>1
    <3> QED
      BY <3>4, <3>5
  <2> QED
    BY <2>2, <2>3
<1>9. CASE get_next_history /\ recall' = Newer
  <2>1. cursor' = IF cursor # latest THEN Following(cursor) ELSE cursor
    BY <1>9 DEF get_next_history, MoveCursor
  <2>2. CASE recall = 1
    BY <1>4, <1>5, <1>9, <2>1, <2>2 DEF Newer
  <2>3. CASE recall = 0 /\ MAX_HISTORY = 1
    <3>1. recall' = 0
      BY <1>9, <2>3 DEF Newer
    <3>2. cursor = latest
      BY <1>4, <1>5, <1>6, <2>3
    <3> QED
      BY <1>4, <2>1, <2>3, <3>1, <3>2
  <2>4. CASE recall = 0 /\ MAX_HISTORY # 1
    <3>1. recall' = MAX_HISTORY - 1 /\ MAX_HISTORY \in 0..MAX_HISTORY
          /\ MAX_HISTORY > 0 /\ MAX_HISTORY - 1 > 0
      BY <1>4, <1>9, <2>4 DEF Newer
    <3>2. cursor = Back(MAX_HISTORY)
      BY <1>4, <1>6, <2>4
    <3>3. cursor # latest
      <4>1. 1 \in 0..MAX_HISTORY /\ 1 # MAX_HISTORY
        BY <1>4, <2>4
      <4>2. {1, MAX_HISTORY} # {0, MAX_HISTORY}
        BY <4>1
      <4> QED
        BY <1>4, <1>5, <3>1, <3>2, <4>1, <4>2, OnePlace
    <3>4. cursor' = Back(MAX_HISTORY - 1)
      BY <1>4, <2>1, <3>1, <3>2, <3>3, OnePlace
    <3> QED
      BY <1>4, <3>1, <3>4
  <2>5. CASE recall # 0 /\ recall # 1
    <3>1. /\ recall' = recall - 1 /\ recall > 0 /\ recall - 1 \in 0..MAX_HISTORY
          /\ recall - 1 # 0 /\ recall - 1 # MAX_HISTORY
      BY <1>4, <1>9, <2>5 DEF Newer
    <3>2. cursor # latest
      <4>1. 1 \in 0..MAX_HISTORY
        BY <1>4
      <4>2. {recall, 1} # {0, MAX_HISTORY}
        BY <2>5
      <4> QED
        BY <1>4, <1>5, <2>5, <4>1, <4>2, OnePlace
    <3>3. cursor' = Back(recall - 1)
      BY <1>4, <2>1, <3>1, <3>2, OnePlace
    <3> QED
      BY <3>1, <3>3
  <2> QED
    BY <2>2, <2>3, <2>4, <2>5
<1> QED
  BY <1>8, <1>9

\* One step of the line discipline.  The second part is what CursorFollowsEdit
\* says of it, the third that history moves as HistoryList promises.
Step ==
    /\ RInv'
    /\ ~Backspace /\ (col = cursor_pos \/ ldisc_line' # ldisc_line)
         => col' = cursor_pos'
    /\ \/ UNCHANGED <<print_history, next_num - 1>>
       \/ Promise!Next

LEMMA ReturnStep ==
    ASSUME RInv, NEW length \in {0, len}, Return(length), closed' \in BOOLEAN
    PROVE  Step
<1>1. RInv'
  BY ReturnInv DEF RInv
<1>2. col' = cursor_pos'
  BY DEF Return, NewLine
<1>3. UNCHANGED <<print_history, next_num - 1>> \/ Promise!Next
  <2>1. CASE UNCHANGED history
    BY <2>1, MoveRefines DEF history
  <2>2. CASE length > 0 /\ new_history(Line) /\ ~Repeats(Line)
    <3>1. Line \in Lines
      BY <2>2, LineReturned DEF RInv, LineInv, Cells
    <3> QED
      BY <2>2, <3>1, NewRefines DEF RInv, Promise!Next
  <2> QED
    BY <2>1, <2>2 DEF Return, update_history, history
<1> QED
  BY <1>1, <1>2, <1>3 DEF Step

LEMMA NextStep ==
    ASSUME RInv, [Next]_vars
    PROVE  Step
<1>1. ASSUME UNCHANGED <<history, recall, closed>>
      PROVE  /\ HistoryTypeOK' /\ WalkInv' /\ closed' \in BOOLEAN
             /\ UNCHANGED <<print_history, next_num - 1>>
  BY <1>1, HistoryStays, MoveRefines DEF RInv, history
<1>2. ASSUME NEW c \in Bytes, Insert(c) PROVE Step
  BY <1>1, <1>2, InsertInv DEF Insert, RInv, Step
<1>3. ASSUME NEW c \in Bytes, Ignored(c) PROVE Step
  <2>1. UNCHANGED <<ldisc_line, len, cursor_pos, col>> /\ ctrlchar' = 0
    BY <1>3 DEF Ignored
  <2>2. LineInv' /\ CursorInv'
    BY <2>1 DEF RInv, LineInv, CursorInv, Holds
  <2> QED
    BY <1>1, <1>3, <2>1, <2>2 DEF Ignored, RInv, Step
<1>4. CASE Backspace
  BY <1>1, <1>4, BackspaceInv DEF Backspace, RInv, Step
<1>5. CASE Escape
  <2>1. UNCHANGED <<ldisc_line, len, cursor_pos, col>> /\ ctrlchar' \in 0..2
    BY <1>5 DEF Escape
  <2>2. LineInv' /\ CursorInv'
    BY <2>1 DEF RInv, LineInv, CursorInv, Holds
  <2> QED
    BY <1>1, <1>5, <2>1, <2>2 DEF Escape, RInv, Step
<1>6. CASE LeftArrow \/ RightArrow
  BY <1>1, <1>6, SidewaysInv DEF LeftArrow, RightArrow, RInv, Step
<1>7. CASE UpArrow \/ DownArrow
  <2>1. HistoryTypeOK' /\ WalkInv' /\ cursor' \in Slots
    BY <1>7, WalkStep DEF UpArrow, DownArrow
  <2>2. /\ LineInv' /\ CursorInv'
        /\ col = cursor_pos \/ ldisc_line' # ldisc_line => col' = cursor_pos'
    BY <1>7, <2>1, ShowInv DEF UpArrow, DownArrow
  <2>3. UNCHANGED <<print_history, next_num - 1>>
    BY <1>7, MoveRefines
    DEF UpArrow, DownArrow, get_previous_history, get_next_history, MoveCursor
  <2> QED
    BY <1>7, <2>1, <2>2, <2>3 DEF UpArrow, DownArrow, RInv, Step
<1>8. CASE LineFull \/ Enter \/ CtrlC \/ EndOfInput
  <2>1. PICK length \in {0, len} : Return(length)
    BY <1>8 DEF LineFull, Enter, CtrlC, EndOfInput
  <2>2. closed' \in BOOLEAN
    BY <1>8 DEF LineFull, Enter, CtrlC, EndOfInput, RInv
  <2> QED
    BY <2>1, <2>2, ReturnStep
<1>9. CASE UNCHANGED vars
  <2>1. UNCHANGED <<ldisc_line, len, cursor_pos, col, ctrlchar>>
    BY <1>9 DEF vars, editing
  <2>2. LineInv' /\ CursorInv'
    BY <2>1 DEF RInv, LineInv, CursorInv, Holds
  <2> QED
    BY <1>1, <1>9, <2>1, <2>2 DEF vars, RInv, Step
<1> QED
  BY <1>2, <1>3, <1>4, <1>5, <1>6, <1>7, <1>8, <1>9 DEF Next, ReadNothing

-----------------------------------------------------------------------------
(* The theorems.                                                             *)

THEOREM Invariance == Spec => []RInv
<1>1. RInv /\ [Next]_vars => RInv'
  BY NextStep DEF Step
<1> QED
  BY InitInv, <1>1, PTL DEF Spec

\* The bytes and cursors of ldisc.c stay in their ranges: cursor_pos in the
\* line, the line with its terminator in ldisc_line, the ring's indices in it.
THEOREM ReadlineTypeCorrect == Spec => []TypeOK
<1>1. RInv => TypeOK
  BY InvImplies
<1> QED
  BY Invariance, <1>1, PTL

\* No edit, in the middle of the line or by recalling another one, loses the
\* terminator or leaves a byte behind it.
THEOREM LineIsTerminated == Spec => []LineTerminated
<1>1. RInv => LineTerminated
  BY InvImplies
<1> QED
  BY Invariance, <1>1, PTL

\* The arrow keys find the entries that print_history prints, and nothing at the
\* empty places, in a ring of any size, before it wraps and after.
THEOREM ArrowsFollowListing == Spec => []ArrowsWalkListing
<1>1. RInv => ArrowsWalkListing
  BY InvImplies
<1> QED
  BY Invariance, <1>1, PTL

\* Every key but Backspace keeps the terminal's cursor where the edit is.
THEOREM CursorKept == Spec => CursorFollowsEdit
<1>1. RInv /\ [Next]_vars
        => [~Backspace /\ (col = cursor_pos \/ ldisc_line' # ldisc_line)
              => col' = cursor_pos']_vars
  BY NextStep DEF Step
<1> QED
  BY Invariance, <1>1, PTL DEF Spec, CursorFollowsEdit

\* The ring of history.c implements the list of the last lines entered.
THEOREM HistoryIsKept == Spec => HistoryKept
<1>1. Init => Promise!Init
  BY InitRefines DEF Init
<1>2. RInv /\ [Next]_vars => [Promise!Next]_<<print_history, next_num - 1>>
  BY NextStep DEF Step
<1> QED
  BY Invariance, <1>1, <1>2, PTL DEF Spec, HistoryKept, Promise!Spec

=============================================================================
