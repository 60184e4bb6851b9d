----------------------------- MODULE LibcProofs -----------------------------
(* Proofs about Memory, for every memory and every set of calls that its     *)
(* assumption allows, and about the conversions, for every width of an int,  *)
(* every string, every format and every size of the buffer.                  *)
EXTENDS Libc, CommonProofs

-----------------------------------------------------------------------------
(* The inductive invariant of the routines that run by bytes and words.      *)

\* The byte that belongs at address a of the target.
Source(c, a) == IF c.op = "memset" THEN NUL ELSE c.src + (a - c.dest)

\* How far the pointers of a copy have come.
PointersMoved ==
    IF MovesDown(call) THEN d = call.dest + n /\ s = call.src + n
    ELSE d = call.dest + (call.n - n) /\ s = call.src + (call.n - n)

\* The part of the target that has been written.
Written(a) == IF MovesDown(call) THEN d <= a /\ a < call.dest + call.n
                                 ELSE call.dest <= a /\ a < d

\* Below, or above, the pointers the target holds what it has to, and every other
\* byte is untouched.
CopiedSoFar ==
    \A a \in Memory : mem[a] = IF Written(a) THEN Source(call, a) ELSE a

\* The bytes before the words are part of the region.
HeadInRegion ==
    (pc = "head" /\ ~(call.op = "memmove" /\ ~Disjoint(call))) => head <= n

Copied ==
    /\ pc \in {"head", "words", "bytes", "done"}
    /\ n <= call.n
    /\ ~Nothing(call) => PointersMoved /\ CopiedSoFar
    /\ Nothing(call) => pc = "done" /\ \A a \in Memory : mem[a] = a
    /\ HeadInRegion
    /\ pc = "done" /\ ~Nothing(call) => n = 0

Scanned ==
    /\ pc \in {"scan", "scanwords", "scanlast", "done"}
    /\ \A a \in Memory : mem[a] = IF a = call.src + call.n THEN NUL ELSE a
    /\ n = call.n
    /\ call.src <= s /\ s <= call.src + call.n
    /\ pc = "done" => s = call.src + call.n

MemInv ==
    /\ MemTypeOK
    /\ pc = "idle" => \A a \in Memory : mem[a] = a
    /\ pc # "idle" =>
          /\ call \in Calls
          /\ call.op # "strlen" => Copied
          /\ call.op = "strlen" => Scanned

\* What the assumption gives for one call.
LEMMA CallShape ==
    ASSUME NEW c \in Calls
    PROVE  /\ c.op \in {"memset", "memcpy", "memmove", "strlen"}
           /\ c.dest \in Nat /\ c.src \in Nat /\ c.n \in Nat
           /\ c.dest + c.n < Size /\ c.src + c.n < Size
           /\ c.op = "memcpy" => Disjoint(c)
  BY MemoryAssumption DEF Region

LEMMA MemorySizes ==
    /\ MACHINE_ALIGNMENT \in Nat \ {0} /\ Size \in Nat
    /\ \A a \in Nat : Offset(a) \in Nat
<1>1. MACHINE_ALIGNMENT \in Nat \ {0} /\ Size \in Nat
  BY MemoryAssumption
<1>2. CASE MACHINE_ALIGNMENT = 4
  BY <1>1, <1>2 DEF Offset
<1>3. CASE MACHINE_ALIGNMENT = 8
  BY <1>1, <1>3 DEF Offset
<1> QED
  BY <1>1, <1>2, <1>3, MemoryAssumption

-----------------------------------------------------------------------------
(* Copying.                                                                  *)

\* A state between two loops of a copy.
Moving == /\ MemInv
          /\ call.op # "strlen" /\ ~Nothing(call)
          /\ pc \in {"head", "words", "bytes"}

\* What such a state gives.
LEMMA MovingShape ==
    ASSUME Moving
    PROVE  /\ mem \in [Memory -> Memory \cup {NUL}]
           /\ n \in Nat /\ d \in Nat /\ s \in Nat /\ n <= call.n
           /\ call.op \in {"memset", "memcpy", "memmove"}
           /\ call.dest \in Nat /\ call.src \in Nat /\ call.n \in Nat
           /\ call.dest + call.n < Size /\ call.src + call.n < Size
           /\ PointersMoved /\ CopiedSoFar
  BY CallShape DEF Moving, MemInv, MemTypeOK, Copied

\* The byte that belongs at a lies in the memory, above d or below it.
LEMMA SourceAddress ==
    ASSUME NEW dest \in Nat, NEW src \in Nat, NEW size \in Nat, NEW end \in Nat,
           NEW a \in Nat, NEW low \in Nat,
           dest <= a, a < dest + size, src + size < end
    PROVE  /\ src + (a - dest) \in Int
           /\ 0 <= src + (a - dest) /\ src + (a - dest) < end
           /\ src < dest /\ a < low => src + (a - dest) < low
           /\ dest < src /\ low <= a => low <= src + (a - dest)
           /\ src + size <= dest => src + (a - dest) < dest
           /\ dest + size <= src /\ low <= dest + size => low <= src + (a - dest)
  OBVIOUS

\* k bytes that are left can be copied downwards: the target is the higher of the
\* two regions, and what has been written is above every byte that is read.
LEMMA CopyDown ==
    ASSUME Moving, NEW k \in Nat, k <= n, Copy(k), call' = call, MovesDown(call)
    PROVE  /\ mem' \in [Memory -> Memory \cup {NUL}]
           /\ n' = n - k /\ n' \in Nat /\ d' \in Nat /\ s' \in Nat
           /\ PointersMoved' /\ CopiedSoFar'
<1>1. /\ d = call.dest + n /\ s = call.src + n
      /\ call.src < call.dest /\ call.op = "memmove"
  BY MovingShape DEF PointersMoved, MovesDown
<1>2. /\ n' = n - k /\ d' = d - k /\ s' = s - k
      /\ mem' = [a \in Memory |-> IF a \in d - k..d - k + k - 1
                                  THEN mem[s - k + (a - (d - k))] ELSE mem[a]]
  BY <1>1 DEF Copy
<1>3. n' \in Nat /\ d' \in Nat /\ s' \in Nat /\ PointersMoved'
  BY <1>1, <1>2, MovingShape DEF PointersMoved
<1>4. ASSUME NEW a \in Memory
      PROVE  /\ mem'[a] = IF Written(a)' THEN Source(call, a) ELSE a
             /\ mem'[a] \in Memory \cup {NUL}
  <2>1. a \in Nat /\ a < Size /\ Size \in Nat
    BY MemorySizes DEF Memory
  <2>2. /\ Written(a)' <=> d - k <= a /\ a < call.dest + call.n
        /\ Written(a) <=> d <= a /\ a < call.dest + call.n
    BY <1>2 DEF Written
  <2>3. CASE d - k <= a /\ a < d
    <3>1. mem'[a] = mem[s - k + (a - (d - k))]
      BY <1>2, <2>1, <2>3, MovingShape
    <3>2. s - k + (a - (d - k)) = call.src + (a - call.dest)
      BY <1>1, <2>1, MovingShape
    <3>3. /\ call.src + (a - call.dest) \in Memory
          /\ ~Written(call.src + (a - call.dest))
      <4>1. call.dest <= a /\ a < call.dest + call.n
        BY <1>1, <2>1, <2>3, MovingShape
      <4>2. /\ call.src + (a - call.dest) \in Int
            /\ 0 <= call.src + (a - call.dest) /\ call.src + (a - call.dest) < Size
            /\ call.src + (a - call.dest) < d
        BY <1>1, <2>1, <2>3, <4>1, SourceAddress, MovingShape
      <4>3. ~Written(call.src + (a - call.dest))
        BY <4>2, MovingShape DEF Written
      <4> QED
        BY <2>1, <4>2, <4>3 DEF Memory
    <3>4. mem'[a] = call.src + (a - call.dest)
      BY <3>1, <3>2, <3>3, MovingShape DEF CopiedSoFar
    <3>5. Written(a)'
      BY <1>1, <2>1, <2>2, <2>3, MovingShape
    <3> QED
      BY <1>1, <3>3, <3>4, <3>5 DEF Source
  <2>4. CASE ~(d - k <= a /\ a < d)
    <3>1. mem'[a] = mem[a]
      BY <1>2, <2>1, <2>4, MovingShape
    <3>2. Written(a)' <=> Written(a)
      BY <1>1, <2>1, <2>2, <2>4, MovingShape
    <3> QED
      BY <3>1, <3>2, MovingShape DEF CopiedSoFar
  <2> QED
    BY <2>3, <2>4
<1>5. mem' \in [Memory -> Memory \cup {NUL}]
  BY <1>2, <1>4
<1> QED
  BY <1>2, <1>3, <1>4, <1>5 DEF CopiedSoFar, Source

\* And upwards: the regions are disjoint, or the target is the lower one, and
\* what has been written is below every byte that is read.
LEMMA CopyUp ==
    ASSUME Moving, NEW k \in Nat, k <= n, Copy(k), call' = call, ~MovesDown(call)
    PROVE  /\ mem' \in [Memory -> Memory \cup {NUL}]
           /\ n' = n - k /\ n' \in Nat /\ d' \in Nat /\ s' \in Nat
           /\ PointersMoved' /\ CopiedSoFar'
<1>1. d = call.dest + (call.n - n) /\ s = call.src + (call.n - n)
  BY MovingShape DEF PointersMoved
<1>2. /\ n' = n - k /\ d' = d + k /\ s' = s + k
      /\ mem' = [a \in Memory |->
                    IF a \in d..d + k - 1
                    THEN IF call.op = "memset" THEN NUL ELSE mem[s + (a - d)]
                    ELSE mem[a]]
  BY DEF Copy
<1>3. n' \in Nat /\ d' \in Nat /\ s' \in Nat /\ PointersMoved'
  BY <1>1, <1>2, MovingShape DEF PointersMoved
<1>4. ASSUME NEW a \in Memory
      PROVE  /\ mem'[a] = IF Written(a)' THEN Source(call, a) ELSE a
             /\ mem'[a] \in Memory \cup {NUL}
  <2>1. a \in Nat /\ a < Size /\ Size \in Nat
    BY MemorySizes DEF Memory
  <2>2. /\ Written(a)' <=> call.dest <= a /\ a < d + k
        /\ Written(a) <=> call.dest <= a /\ a < d
    BY <1>2 DEF Written
  <2>3. CASE d <= a /\ a < d + k
    <3>1. Written(a)'
      BY <1>1, <2>1, <2>2, <2>3, MovingShape
    <3>2. CASE call.op = "memset"
      <4>1. mem'[a] = NUL
        BY <1>2, <2>1, <2>3, <3>2, MovingShape
      <4> QED
        BY <3>1, <3>2, <4>1 DEF Source
    <3>3. CASE call.op # "memset"
      <4>1. mem'[a] = mem[s + (a - d)]
        BY <1>2, <2>1, <2>3, <3>3, MovingShape
      <4>2. s + (a - d) = call.src + (a - call.dest)
        BY <1>1, <2>1, MovingShape
      <4>3. \/ call.dest + call.n <= call.src \/ call.src + call.n <= call.dest
            \/ call.dest < call.src
        BY <3>3, MovingShape, CallShape DEF MovesDown, Nothing, Disjoint, Moving, MemInv
      <4>4. /\ call.src + (a - call.dest) \in Memory
            /\ ~Written(call.src + (a - call.dest))
        <5>1. /\ call.dest <= a /\ a < call.dest + call.n
              /\ d <= call.dest + call.n
          BY <1>1, <2>1, <2>3, MovingShape
        <5>2. /\ call.src + (a - call.dest) \in Int
              /\ 0 <= call.src + (a - call.dest)
              /\ call.src + (a - call.dest) < Size
              /\ \/ call.src + (a - call.dest) < call.dest
                 \/ d <= call.src + (a - call.dest)
          BY <2>1, <2>3, <4>3, <5>1, SourceAddress, MovingShape
        <5>3. ~Written(call.src + (a - call.dest))
          BY <5>2, MovingShape DEF Written
        <5> QED
          BY <2>1, <5>2, <5>3 DEF Memory
      <4>5. mem'[a] = call.src + (a - call.dest)
        BY <4>1, <4>2, <4>4, MovingShape DEF CopiedSoFar
      <4> QED
        BY <3>1, <3>3, <4>4, <4>5 DEF Source
    <3> QED
      BY <3>2, <3>3
  <2>4. CASE ~(d <= a /\ a < d + k)
    <3>1. mem'[a] = mem[a]
      BY <1>2, <2>1, <2>4, MovingShape
    <3>2. Written(a)' <=> Written(a)
      BY <1>1, <2>1, <2>2, <2>4, MovingShape
    <3> QED
      BY <3>1, <3>2, MovingShape DEF CopiedSoFar
  <2> QED
    BY <2>3, <2>4
<1>5. mem' \in [Memory -> Memory \cup {NUL}]
  BY <1>2, <1>4
<1> QED
  BY <1>2, <1>3, <1>4, <1>5 DEF CopiedSoFar, Source

\* A loop body copies k bytes that are left.
LEMMA CopyKeepsInvariant ==
    ASSUME Moving, NEW k \in Nat, k <= n, Copy(k), UNCHANGED <<call, pc>>,
           head' \in Nat, HeadInRegion'
    PROVE  MemInv'
<1>1. /\ mem' \in [Memory -> Memory \cup {NUL}]
      /\ n' = n - k /\ n' \in Nat /\ d' \in Nat /\ s' \in Nat
      /\ PointersMoved' /\ CopiedSoFar'
  BY CopyDown, CopyUp
<1>2. n' <= call'.n
  BY <1>1, MovingShape
<1>3. MemTypeOK'
  BY <1>1 DEF MemTypeOK, MemInv, Moving
<1>4. Copied'
  BY <1>1, <1>2 DEF Copied, Moving, Nothing
<1> QED
  BY <1>3, <1>4 DEF MemInv, Moving

\* A loop ends and the next one starts.
LEMMA LoopEnds ==
    ASSUME Moving, UNCHANGED <<mem, call, d, s, n, head>>,
           pc' \in {"words", "bytes", "done"}, pc' = "done" => n = 0
    PROVE  MemInv'
<1>1. MemTypeOK'
  BY DEF MemTypeOK, MemInv, Moving
<1>2. PointersMoved' /\ CopiedSoFar'
  BY MovingShape DEF PointersMoved, CopiedSoFar, Written, Source, MovesDown, Disjoint
<1>3. Copied'
  BY <1>2 DEF Copied, Moving, MemInv, Nothing, HeadInRegion
<1> QED
  BY <1>1, <1>3 DEF MemInv, Moving

\* The loops of the copying routines are only entered to copy.
LEMMA InALoop ==
    ASSUME MemInv, pc \in {"head", "words", "bytes"}
    PROVE  Moving
  BY DEF MemInv, Moving, Copied, Scanned

LEMMA MovingStep ==
    ASSUME MemInv,
           HeadByte \/ HeadDone \/ Word \/ WordsDone \/ Byte \/ BytesDone
    PROVE  MemInv'
<1>1. Moving
  BY InALoop DEF HeadByte, HeadDone, Word, WordsDone, Byte, BytesDone
<1>2. CASE HeadByte
  <2>1. head \in Nat /\ n \in Nat /\ HeadInRegion /\ pc = "head"
    BY <1>1, <1>2 DEF Moving, MemInv, MemTypeOK, Copied, HeadByte
  <2>2. 1 <= n
    BY <1>2, <2>1 DEF HeadByte, BeforeWords, HeadInRegion
  <2>3. n' = n - 1 /\ call' = call /\ head' \in Nat
    BY <1>2, <2>1 DEF HeadByte, Copy
  <2>4. HeadInRegion'
    <3>1. CASE call.op = "memmove" /\ ~Disjoint(call)
      BY <2>3, <3>1 DEF HeadInRegion, Disjoint
    <3>2. CASE ~(call.op = "memmove" /\ ~Disjoint(call))
      <4>1. head > 0 /\ head <= n /\ head' = head - 1
        BY <1>2, <2>1, <3>2 DEF HeadByte, BeforeWords, HeadInRegion
      <4> QED
        BY <2>1, <2>3, <4>1 DEF HeadInRegion
    <3> QED
      BY <3>1, <3>2
  <2> QED
    BY <1>1, <1>2, <2>2, <2>3, <2>4, CopyKeepsInvariant DEF HeadByte
<1>3. CASE HeadDone
  BY <1>1, <1>3, LoopEnds DEF HeadDone
<1>4. CASE Word
  <2>1. MACHINE_ALIGNMENT \in Nat /\ MACHINE_ALIGNMENT <= n
    BY <1>1, <1>4, MemorySizes, MovingShape DEF Word
  <2>2. head' \in Nat /\ HeadInRegion'
    BY <1>1, <1>4 DEF Moving, MemInv, MemTypeOK, Word, HeadInRegion
  <2> QED
    BY <1>1, <1>4, <2>1, <2>2, CopyKeepsInvariant DEF Word
<1>5. CASE WordsDone
  BY <1>1, <1>5, LoopEnds DEF WordsDone
<1>6. CASE Byte
  <2>1. 1 <= n
    BY <1>1, <1>6, MovingShape DEF Byte
  <2>2. head' \in Nat /\ HeadInRegion'
    BY <1>1, <1>6 DEF Moving, MemInv, MemTypeOK, Byte, HeadInRegion
  <2> QED
    BY <1>1, <1>6, <2>1, <2>2, CopyKeepsInvariant DEF Byte
<1>7. CASE BytesDone
  BY <1>1, <1>7, LoopEnds DEF BytesDone
<1> QED
  BY <1>2, <1>3, <1>4, <1>5, <1>6, <1>7

-----------------------------------------------------------------------------
(* Measuring.                                                                *)

\* The terminator is met and never passed, byte by byte or by words.
LEMMA ScanningStep ==
    ASSUME MemInv, ScanToWord \/ ScanAligned \/ ScanWord \/ ScanLast
    PROVE  MemInv'
<1>1. call \in Calls /\ call.op = "strlen" /\ Scanned /\ MemTypeOK
  BY DEF MemInv, Copied, ScanToWord, ScanAligned, ScanWord, ScanLast
<1>2. /\ s \in Nat /\ call.src \in Nat /\ call.n \in Nat
      /\ call.src + call.n < Size
      /\ call.src <= s /\ s <= call.src + call.n
  BY <1>1, CallShape DEF Scanned, MemTypeOK
<1>3. s \in Memory /\ call.src + call.n \in Memory
  BY <1>2, MemorySizes DEF Memory
<1>4. /\ mem[s] = NUL <=> s = call.src + call.n
      /\ mem[call.src + call.n] = NUL
  BY <1>1, <1>2, <1>3 DEF Scanned, NUL
<1>5. ASSUME NEW k \in Nat, NEW next \in {"scan", "scanwords", "scanlast", "done"},
             Advance(k, next), s + k <= call.src + call.n,
             next = "done" => s + k = call.src + call.n
      PROVE  MemInv'
  <2>1. s' \in Nat /\ call.src <= s' /\ s' = s + k
    BY <1>2, <1>5 DEF Advance
  <2>2. MemTypeOK'
    BY <1>1, <1>5, <2>1 DEF MemTypeOK, Advance
  <2>3. Scanned'
    BY <1>1, <1>5, <2>1 DEF Scanned, Advance
  <2> QED
    BY <1>1, <1>5, <2>2, <2>3 DEF MemInv, Advance
<1>6. s + 0 = s /\ (s # call.src + call.n => s + 1 <= call.src + call.n)
  BY <1>2
<1>7. CASE ScanToWord
  BY <1>2, <1>4, <1>5, <1>6, <1>7 DEF ScanToWord
<1>8. CASE ScanAligned
  BY <1>2, <1>5, <1>6, <1>8 DEF ScanAligned
<1>9. CASE ScanWord
  <2>1. CASE NONZEROES(s)
    <3>1. s + MACHINE_ALIGNMENT <= call.src + call.n
      BY <1>2, <1>4, <2>1, MemorySizes DEF NONZEROES
    <3> QED
      BY <1>5, <1>9, <2>1, <3>1, MemorySizes DEF ScanWord
  <2>2. CASE ~NONZEROES(s)
    BY <1>2, <1>5, <1>6, <1>9, <2>2 DEF ScanWord
  <2> QED
    BY <2>1, <2>2
<1>10. CASE ScanLast
  BY <1>2, <1>4, <1>5, <1>6, <1>10 DEF ScanLast
<1> QED
  BY <1>7, <1>8, <1>9, <1>10

-----------------------------------------------------------------------------
(* The call, and the theorems.                                               *)

LEMMA CallStep == ASSUME MemInv, Call PROVE MemInv'
<1>1. PICK c \in Calls : call' = c /\ n' = c.n /\ (Copying(c) \/ Scanning(c))
  BY DEF Call
<1>2. /\ \A a \in Memory : mem[a] = a
      /\ mem \in [Memory -> Memory \cup {NUL}] /\ pc = "idle"
  BY DEF MemInv, MemTypeOK, Call
<1>3. /\ c.op \in {"memset", "memcpy", "memmove", "strlen"}
      /\ c.dest \in Nat /\ c.src \in Nat /\ c.n \in Nat
      /\ c.src + c.n < Size
  BY CallShape
<1>4. CASE Copying(c)
  <2>1. /\ mem' = mem /\ c.op # "strlen"
        /\ pc' = (IF Nothing(c) THEN "done" ELSE IF NoWords(c) THEN "bytes" ELSE "head")
        /\ d' = (IF MovesDown(c) THEN c.dest + c.n ELSE c.dest)
        /\ s' = (IF MovesDown(c) THEN c.src + c.n ELSE c.src)
        /\ head' = min(Offset(c.dest), c.n)
    BY <1>4 DEF Copying
  <2>2. d' \in Nat /\ s' \in Nat
    BY <1>3, <2>1
  <2>3. head' \in Nat /\ head' <= c.n
    BY <1>3, <2>1, MemorySizes DEF min
  <2>4. MemTypeOK'
    BY <1>1, <1>2, <1>3, <2>1, <2>2, <2>3 DEF MemTypeOK
  <2>5. PointersMoved'
    BY <1>1, <1>3, <2>1 DEF PointersMoved
  <2>6. ASSUME NEW a \in Memory PROVE ~Written(a)'
    BY <1>1, <1>3, <2>1, MemorySizes DEF Written, Memory
  <2>7. CopiedSoFar'
    BY <1>2, <2>1, <2>6 DEF CopiedSoFar
  <2>8. HeadInRegion'
    BY <1>1, <2>3 DEF HeadInRegion
  <2>9. Copied'
    BY <1>1, <1>2, <1>3, <2>1, <2>5, <2>7, <2>8 DEF Copied
  <2> QED
    BY <1>1, <2>1, <2>4, <2>9 DEF MemInv
<1>5. CASE Scanning(c)
  <2>1. /\ c.op = "strlen" /\ pc' = "scan"
        /\ mem' = [mem EXCEPT ![c.src + c.n] = NUL]
        /\ d' = c.dest /\ s' = c.src /\ head' = 0
    BY <1>5 DEF Scanning
  <2>2. c.src + c.n \in Memory /\ c.src <= c.src + c.n
    BY <1>3, MemorySizes DEF Memory
  <2>3. MemTypeOK'
    BY <1>1, <1>2, <1>3, <2>1 DEF MemTypeOK
  <2>4. Scanned'
    BY <1>1, <1>2, <1>3, <2>1, <2>2 DEF Scanned
  <2> QED
    BY <1>1, <2>1, <2>3, <2>4 DEF MemInv
<1> QED
  BY <1>1, <1>4, <1>5

\* The invariant holds in every state: pointers, counter and memory agree at
\* every point of every routine.
LEMMA MemInvariant == MemSpec => []MemInv
<1>1. MemInit => MemInv
  BY DEF MemInit, MemInv, MemTypeOK
<1>2. MemInv /\ [MemNext]_memVars => MemInv'
  <2> SUFFICES ASSUME MemInv, [MemNext]_memVars PROVE MemInv'
    OBVIOUS
  <2>1. CASE Call
    BY <2>1, CallStep
  <2>2. CASE MemStep
    BY <2>2, MovingStep, ScanningStep DEF MemStep
  <2>3. CASE UNCHANGED memVars
    BY <2>3 DEF memVars, MemInv, MemTypeOK, Copied, Scanned, PointersMoved,
                CopiedSoFar, Written, HeadInRegion
  <2> QED
    BY <2>1, <2>2, <2>3 DEF MemNext
<1> QED
  BY <1>1, <1>2, PTL DEF MemSpec

\* No routine's pointers or counter run below zero, and it writes bytes of the
\* memory only: my_memset, my_memcpy, my_memmove and my_strlen, whatever the
\* alignment.
THEOREM MemTypeCorrect == MemSpec => []MemTypeOK
<1>1. MemInv => MemTypeOK
  BY DEF MemInv
<1> QED
  BY <1>1, MemInvariant, PTL

\* my_memset, my_memcpy, my_memmove and my_strlen do what their definitions by
\* bytes say when they return, for every memory, alignment, size and overlap.
THEOREM RoutinesCorrect == MemSpec => []RoutinesRight
<1>1. MemInv => RoutinesRight
  <2> SUFFICES ASSUME MemInv, pc = "done"
               PROVE  /\ mem = Result(call)
                      /\ call.op = "strlen" => s - call.src = call.n
    BY DEF RoutinesRight
  <2>1. /\ call \in Calls /\ mem \in [Memory -> Memory \cup {NUL}]
        /\ call.dest \in Nat /\ call.src \in Nat /\ call.n \in Nat
        /\ call.dest + call.n < Size
    BY CallShape DEF MemInv, MemTypeOK
  <2>2. CASE call.op = "strlen"
    <3>1. /\ \A a \in Memory : mem[a] = IF a = call.src + call.n THEN NUL ELSE a
          /\ s = call.src + call.n
      BY <2>2 DEF MemInv, Scanned
    <3>2. mem = Result(call)
      BY <2>1, <2>2, <3>1 DEF Result
    <3> QED
      BY <2>1, <3>1, <3>2
  <2>3. CASE call.op # "strlen" /\ Nothing(call)
    <3>1. \A a \in Memory : mem[a] = a /\ a \in Int
      BY <2>3, MemorySizes DEF MemInv, Copied, Memory
    <3>2. \A a \in Memory : call.src + (a - call.dest) = a
      BY <2>1, <2>3, <3>1 DEF Nothing
    <3>3. call.op = "memmove"
      BY <2>3 DEF Nothing
    <3> QED
      BY <2>1, <2>3, <3>1, <3>2, <3>3 DEF Result
  <2>4. CASE call.op # "strlen" /\ ~Nothing(call)
    <3>1. PointersMoved /\ CopiedSoFar /\ n = 0
      BY <2>4 DEF MemInv, Copied
    <3>2. ASSUME NEW a \in Memory PROVE Written(a) <=> a \in Target(call)
      <4>1. a \in Int
        BY MemorySizes DEF Memory
      <4>2. IF MovesDown(call) THEN d = call.dest ELSE d = call.dest + call.n
        BY <2>1, <3>1 DEF PointersMoved
      <4> QED
        BY <2>1, <4>1, <4>2 DEF Written, Target
    <3>3. ASSUME NEW a \in Memory
          PROVE  mem[a] = IF a \notin Target(call) THEN a
                          ELSE IF call.op = "memset" THEN NUL
                          ELSE call.src + (a - call.dest)
      BY <3>1, <3>2 DEF CopiedSoFar, Source
    <3> QED
      BY <2>1, <2>4, <3>3 DEF Result
  <2> QED
    BY <2>2, <2>3, <2>4
<1> QED
  BY <1>1, MemInvariant, PTL

\* The routines are the same when conversions may be called too.
THEOREM LibcIsMemory == Spec => MemSpec
<1>1. Init => MemInit
  BY DEF Init
<1>2. [Next]_vars => [MemNext]_memVars
  BY DEF Next, Routine, my_atoi, my_vsnprintf, vars
<1> QED
  BY <1>1, <1>2, PTL DEF Spec, MemSpec

-----------------------------------------------------------------------------
(* my_strtol_generic's loop.                                                 *)

\* What the loop keeps, and what it starts with.
Acc == [val: Nat, overflow: BOOLEAN]
Zero == [val |-> 0, overflow |-> FALSE]

LEMMA SameAcc ==
    ASSUME NEW a \in Acc, NEW b \in Acc, a.val = b.val, a.overflow = b.overflow
    PROVE  a = b
BY DEF Acc

LEMMA AccumulateTyped ==
    ASSUME NEW a \in Acc, NEW x \in Conv!Digit
    PROVE  Conv!Accumulate(a, x) \in Acc
<1>1. x \in Nat /\ a.val \in Nat
  BY DEF Acc, Conv!Digit
<1>2. a.val * 10 + x \in Nat
  BY <1>1
<1>3. [a EXCEPT !.val = a.val * 10 + x] \in Acc /\ [a EXCEPT !.overflow = TRUE] \in Acc
  BY <1>2 DEF Acc
<1> QED
  BY <1>3 DEF Conv!Accumulate

LEMMA GreatestIsMax ==
    ASSUME NEW m \in Nat, NEW T \in SUBSET (1..m), T # {}
    PROVE  /\ Conv!Max(T) \in T /\ \A y \in T : y <= Conv!Max(T)
           /\ Max(T) = Conv!Max(T)
           /\ \A x \in T : (\A y \in T : y <= x) => x = Conv!Max(T)
<1>1. T \in SUBSET Nat /\ \A x \in T : x <= m
  OBVIOUS
<1>2. \E x \in T : \A y \in T : x >= y
  <2>1. PICK x \in T : \A y \in T : y <= x
    BY <1>1, GreatestNumber
  <2> QED
    BY <1>1, <2>1
<1>3. Conv!Max(T) \in T /\ \A y \in T : Conv!Max(T) >= y
  BY <1>2 DEF Conv!Max
<1>4. Max(T) = Conv!Max(T)
  BY DEF Max, Conv!Max
<1>5. ASSUME NEW x \in T, \A y \in T : y <= x PROVE x = Conv!Max(T)
  <2>1. x <= Conv!Max(T) /\ Conv!Max(T) <= x /\ x \in Nat /\ Conv!Max(T) \in Nat
    BY <1>1, <1>3, <1>5
  <2> QED
    BY <2>1
<1> QED
  BY <1>1, <1>3, <1>4, <1>5

\* The loop's rounds, one after the other.
LEMMA Accumulated ==
    ASSUME NEW digits \in Seq(Conv!Digit)
    PROVE  \E f : /\ f[0] = Zero
                  /\ \A k \in 1..Len(digits) :
                        f[k] = Conv!Accumulate(f[k - 1], digits[k]) /\ f[k - 1] \in Acc
                  /\ Conv!FoldLeft(Conv!Accumulate, Zero, digits) = f[Len(digits)]
<1> DEFINE m == Len(digits)
           Body(g) == [T \in SUBSET (DOMAIN digits) |->
                          IF T = {} THEN Zero
                          ELSE Conv!Accumulate(g[T \ {Conv!Max(T)}], digits[Conv!Max(T)])]
           iter == CHOOSE g : g = Body(g)
<1>1. Conv!FoldLeft(Conv!Accumulate, Zero, digits) = iter[DOMAIN digits]
  BY DEF Conv!FoldLeft, Conv!MapThenFoldSet
<1>2. m \in Nat /\ DOMAIN digits = 1..m /\ \A k \in 1..m : digits[k] \in Conv!Digit
  BY LenProperties, ElementOfSeq
<1> DEFINE step == [k \in 1..m |-> [a \in Acc |-> Conv!Accumulate(a, digits[k])]]
<1>3. step \in [1..m -> [Acc -> Acc]]
  BY <1>2, AccumulateTyped
<1>4. \A k \in 1..m : \A a \in Acc : step[k][a] = Conv!Accumulate(a, digits[k])
  OBVIOUS
<1>5. Zero \in Acc
  BY DEF Zero, Acc
<1> HIDE DEF step, m
<1>6. PICK w : FoldsSets(w, m, Acc, Zero, step)
  BY <1>2, <1>3, <1>5, FoldsSetsExist
<1>7. w = Body(w)
  <2>1. ASSUME NEW T \in SUBSET (1..m)
        PROVE  w[T] = IF T = {} THEN Zero
                      ELSE Conv!Accumulate(w[T \ {Conv!Max(T)}], digits[Conv!Max(T)])
    <3>1. CASE T = {}
      BY <1>6, <3>1 DEF FoldsSets
    <3>2. CASE T # {}
      <4> DEFINE x == Conv!Max(T)
      <4>1. x \in T /\ \A y \in T : y <= x
        BY <1>2, <3>2, GreatestIsMax
      <4> HIDE DEF x
      <4>2. w[T] = step[x][w[T \ {x}]] /\ w[T \ {x}] \in Acc
        BY <1>6, <4>1 DEF FoldsSets
      <4>3. w[T] = Conv!Accumulate(w[T \ {x}], digits[x])
        BY <1>4, <4>1, <4>2
      <4> QED
        BY <3>2, <4>3 DEF x
    <3> QED
      BY <3>1, <3>2
  <2>2. w = [T \in SUBSET (1..m) |-> w[T]]
    BY <1>6 DEF FoldsSets
  <2> QED
    BY <1>2, <2>1, <2>2
<1>8. iter = Body(iter)
  <2> HIDE DEF Body
  <2> QED
    BY <1>7
<1> HIDE DEF iter
<1>9. TakesSteps(iter, m, Acc, Zero, step)
  <2>1. iter[{}] = Zero
    BY <1>8
  <2>2. ASSUME NEW T \in SUBSET (1..m), NEW x \in T, \A y \in T : y <= x,
               iter[T \ {x}] \in Acc
        PROVE  iter[T] = step[x][iter[T \ {x}]]
    <3>2. Conv!Max(T) = x
      BY <1>2, <2>2, GreatestIsMax
    <3>3. iter[T] = Conv!Accumulate(iter[T \ {x}], digits[x])
      BY <1>2, <1>8, <3>2
    <3> QED
      BY <1>4, <2>2, <3>3
  <2> QED
    BY <2>1, <2>2 DEF TakesSteps
<1>10. PICK f : FoldsTo(f, m, Acc, Zero, step, iter[1..m])
  <2>1. m \in Nat
    BY <1>2
  <2> QED
    BY ONLY <1>3, <1>5, <1>9, <2>1, FoldPrefixes
<1>11. \A k \in 1..m : f[k] = Conv!Accumulate(f[k - 1], digits[k]) /\ f[k - 1] \in Acc
  BY <1>4, <1>10 DEF FoldsTo
<1>12. /\ f[0] = Zero
       /\ \A k \in 1..m : f[k] = Conv!Accumulate(f[k - 1], digits[k]) /\ f[k - 1] \in Acc
       /\ Conv!FoldLeft(Conv!Accumulate, Zero, digits) = f[m]
  BY <1>1, <1>2, <1>10, <1>11 DEF FoldsTo
<1> QED
  BY <1>12, Zenon DEF m

-----------------------------------------------------------------------------
(* The value of the digits.                                                  *)

LEMMA PowerShape ==
    /\ Power[0] = 1
    /\ \A k \in Nat : Power[k] \in Nat /\ Power[k] >= 1 /\ Power[k + 1] = 10 * Power[k]
<1> DEFINE Body(f) == [k \in Nat |-> IF k = 0 THEN 1 ELSE 10 * f[k - 1]]
           step == [k \in Nat |-> [x \in Nat |-> 10 * x]]
<1>1. PICK f : Recursive(f, Nat, 1, step)
  <2>1. step \in Steps(Nat) /\ 1 \in Nat
    BY DEF Steps
  <2> HIDE DEF step
  <2> QED
    BY <2>1, Recursion
<1>2. f = Body(f)
  <2>1. ASSUME NEW k \in Nat PROVE f[k] = IF k = 0 THEN 1 ELSE 10 * f[k - 1]
    <3>1. k # 0 => f[k - 1] \in Nat
      BY <1>1 DEF Recursive
    <3> QED
      BY <1>1, <3>1 DEF Recursive
  <2> HIDE DEF step
  <2> QED
    BY <1>1, <2>1 DEF Recursive
<1>3. Power = CHOOSE g : g = Body(g)
  BY DEF Power
<1>4. Power = Body(Power)
  <2> HIDE DEF Body
  <2> QED
    BY <1>2, <1>3
<1>5. Power[0] = 1
  BY <1>4
<1>6. ASSUME NEW k \in Nat PROVE Power[k + 1] = 10 * Power[k]
  <2>1. k + 1 \in Nat /\ k + 1 # 0 /\ (k + 1) - 1 = k
    OBVIOUS
  <2> QED
    BY <1>4, <2>1
<1> DEFINE S == {k \in Nat : Power[k] \in Nat /\ Power[k] >= 1}
<1>7. \A k \in Nat : k \in S
  <2>1. 0 \in S /\ S \in SUBSET Nat
    BY <1>5
  <2>2. ASSUME NEW k \in S PROVE k + 1 \in S
    <3>1. k \in Nat /\ k + 1 \in Nat /\ Power[k] \in Nat /\ Power[k] >= 1
      OBVIOUS
    <3>2. Power[k + 1] = 10 * Power[k]
      BY <1>6, <3>1
    <3> QED
      BY <3>1, <3>2
  <2> HIDE DEF S
  <2> QED
    BY <2>1, <2>2, Induction
<1> QED
  BY <1>5, <1>6, <1>7

LEMMA ValueShape ==
    ASSUME NEW digits \in Seq(Conv!Digit)
    PROVE  \E sum : /\ sum[0] = 0
                    /\ \A k \in 1..Len(digits) :
                          sum[k] = sum[k - 1] + digits[k] * Power[Len(digits) - k]
                    /\ Value(digits) = sum[Len(digits)]
<1> DEFINE m == Len(digits)
           Body(f) == [k \in 0..m |-> IF k = 0 THEN 0
                                      ELSE f[k - 1] + digits[k] * Power[m - k]]
           sums == CHOOSE g : g = Body(g)
           part == [k \in Nat |-> IF k \in 1..m THEN digits[k] * Power[m - k] ELSE 0]
           step == [k \in Nat |-> [x \in Nat |-> x + part[k]]]
<1>1. m \in Nat /\ \A k \in 1..m : digits[k] \in Nat
  BY LenProperties, ElementOfSeq DEF Conv!Digit
<1>2. \A k \in Nat : part[k] \in Nat
  <2>1. ASSUME NEW k \in 1..m PROVE digits[k] * Power[m - k] \in Nat
    <3>1. m - k \in Nat /\ digits[k] \in Nat
      BY <1>1
    <3>2. Power[m - k] \in Nat
      BY <3>1, PowerShape
    <3> QED
      BY <3>1, <3>2
  <2> QED
    BY <2>1
<1>3. \A k \in 1..m : part[k] = digits[k] * Power[m - k]
  BY <1>1
<1>4. Value(digits) = sums[m]
  BY DEF Value
<1> HIDE DEF m, part
<1>5. PICK f : Recursive(f, Nat, 0, step)
  <2>1. step \in Steps(Nat) /\ 0 \in Nat
    BY <1>2 DEF Steps
  <2> HIDE DEF step
  <2> QED
    BY <2>1, Recursion
<1>6. f[0] = 0 /\ \A k \in Nat : f[k] \in Nat
  BY <1>5 DEF Recursive
<1>7. ASSUME NEW k \in 1..m PROVE f[k] = f[k - 1] + digits[k] * Power[m - k]
  <2>1. k \in Nat \ {0} /\ k \in Nat /\ k - 1 \in Nat
    BY <1>1
  <2>2. f[k] = step[k][f[k - 1]]
    BY <1>5, <2>1 DEF Recursive
  <2>3. f[k - 1] \in Nat
    BY <1>6, <2>1
  <2>4. step[k][f[k - 1]] = f[k - 1] + part[k]
    BY <2>1, <2>3
  <2> QED
    BY <1>3, <2>2, <2>4
<1> DEFINE g == [k \in 0..m |-> f[k]]
<1>8. g = Body(g)
  <2>1. ASSUME NEW k \in 0..m
        PROVE  g[k] = IF k = 0 THEN 0 ELSE g[k - 1] + digits[k] * Power[m - k]
    <3>1. CASE k = 0
      BY <1>6, <3>1
    <3>2. CASE k # 0
      <4>1. k \in 1..m /\ k - 1 \in 0..m
        BY <1>1, <3>2
      <4>2. g[k] = f[k] /\ g[k - 1] = f[k - 1]
        BY <4>1
      <4> HIDE DEF g
      <4> QED
        BY <1>7, <3>2, <4>1, <4>2
    <3> QED
      BY <3>1, <3>2
  <2> QED
    BY <2>1
<1>9. sums = Body(sums)
  <2> HIDE DEF Body, g
  <2> QED
    BY <1>8
<1> HIDE DEF sums
<1>10. sums[0] = 0
  BY <1>1, <1>9
<1>11. ASSUME NEW k \in 1..m PROVE sums[k] = sums[k - 1] + digits[k] * Power[m - k]
  <2>1. k \in 0..m /\ k # 0
    BY <1>1
  <2> QED
    BY <1>9, <2>1
<1>12. /\ sums[0] = 0
       /\ \A k \in 1..m : sums[k] = sums[k - 1] + digits[k] * Power[m - k]
       /\ Value(digits) = sums[m]
  BY <1>4, <1>10, <1>11
<1> QED
  BY <1>12, Zenon DEF m

\* cutoff and cutlim tell exactly whether the next value is an int.
LEMMA FitsExactly ==
    ASSUME NEW v \in Nat, NEW x \in Conv!Digit
    PROVE  Conv!Fits(v, x) <=> v * 10 + x <= IntMax
BY ConversionsAssumption DEF Conv!Fits, Conv!Digit

LEMMA AccumulateFits ==
    ASSUME NEW v \in Nat, NEW x \in Conv!Digit
    PROVE  Conv!Accumulate([val |-> v, overflow |-> FALSE], x) =
               IF v * 10 + x <= IntMax THEN [val |-> v * 10 + x, overflow |-> FALSE]
                                       ELSE [val |-> v, overflow |-> TRUE]
<1> DEFINE a == [val |-> v, overflow |-> FALSE]
           b == [val |-> v * 10 + x, overflow |-> FALSE]
           c == [val |-> v, overflow |-> TRUE]
<1>1. v * 10 + x \in Nat
  BY DEF Conv!Digit
<1>2. a \in Acc /\ b \in Acc /\ c \in Acc
  BY <1>1 DEF Acc
<1>3. /\ a.val = v /\ a.overflow = FALSE
      /\ b.val = v * 10 + x /\ b.overflow = FALSE
      /\ c.val = v /\ c.overflow = TRUE
  OBVIOUS
<1> HIDE DEF a, b, c
<1> DEFINE e == [a EXCEPT !.val = v * 10 + x]
           o == [a EXCEPT !.overflow = TRUE]
<1>4. /\ e \in Acc /\ e.val = v * 10 + x /\ e.overflow = a.overflow
      /\ o \in Acc /\ o.val = a.val /\ o.overflow = TRUE
  BY <1>1, <1>2 DEF Acc
<1> HIDE DEF e, o
<1>5. e = b /\ o = c
  BY <1>2, <1>3, <1>4, SameAcc
<1>6. Conv!Accumulate(a, x) = IF Conv!Fits(v, x) THEN e ELSE o
  BY <1>3 DEF Conv!Accumulate, e, o
<1> QED
  BY <1>5, <1>6, FitsExactly DEF a, b, c

\* The loop computes the value while that is an int, and knows when it is none.
LEMMA LoopValue ==
    ASSUME NEW digits \in Seq(Conv!Digit), NEW acc,
           acc = Conv!FoldLeft(Conv!Accumulate, Zero, digits)
    PROVE  /\ Value(digits) \in Nat
           /\ Value(digits) <= IntMax => acc = [val |-> Value(digits), overflow |-> FALSE]
           /\ Value(digits) > IntMax => acc.overflow = TRUE
<1> DEFINE m == Len(digits)
<1>1. PICK f : /\ f[0] = Zero
               /\ \A k \in 1..m :
                     f[k] = Conv!Accumulate(f[k - 1], digits[k]) /\ f[k - 1] \in Acc
               /\ acc = f[m]
  BY Accumulated, Zenon
<1>2. PICK sum : /\ sum[0] = 0
                 /\ \A k \in 1..m : sum[k] = sum[k - 1] + digits[k] * Power[m - k]
                 /\ Value(digits) = sum[m]
  BY ValueShape, Zenon
<1>3. m \in Nat /\ \A k \in 1..m : digits[k] \in Conv!Digit
  BY LenProperties, ElementOfSeq
<1> HIDE DEF m
<1>0. IntMax \in Nat
  BY ConversionsAssumption
<1> DEFINE Shows(a, v) == /\ v <= IntMax => a = [val |-> v, overflow |-> FALSE]
                          /\ v > IntMax => a.overflow = TRUE
           Right(k, v) == sum[k] = v * Power[m - k] /\ Shows(f[k], v)
           S == {k \in Nat : k <= m => \E v \in Nat : Right(k, v)}
<1>4. 0 \in S
  <2>1. 0 <= IntMax /\ m - 0 \in Nat
    BY <1>3, ConversionsAssumption
  <2>2. Power[m - 0] \in Nat
    BY <2>1, PowerShape
  <2>3. Right(0, 0)
    BY <1>1, <1>2, <2>1, <2>2, ConversionsAssumption DEF Zero
  <2> QED
    BY <2>3
<1>5. ASSUME NEW k \in S PROVE k + 1 \in S
  <2>1. k \in Nat /\ k + 1 \in Nat /\ (k + 1) - 1 = k
    OBVIOUS
  <2>2. ASSUME k + 1 <= m PROVE \E v \in Nat : Right(k + 1, v)
    <3>1. k <= m /\ k + 1 \in 1..m /\ m - (k + 1) \in Nat /\ (m - (k + 1)) + 1 = m - k
      BY <1>3, <2>1, <2>2
    <3>2. PICK v \in Nat : Right(k, v)
      BY <3>1
    <3> DEFINE x == digits[k + 1]
               p == Power[m - (k + 1)]
    <3>3. x \in Conv!Digit /\ x \in Nat
      BY <1>3, <3>1 DEF Conv!Digit
    <3>4. p \in Nat /\ Power[m - k] = 10 * p
      BY <3>1, PowerShape
    <3>5. sum[k + 1] = v * (10 * p) + x * p
      BY <1>2, <2>1, <3>1, <3>2, <3>4
    <3>6. v * 10 + x \in Nat
      BY <3>3
    <3>7. sum[k + 1] = (v * 10 + x) * p
      <4> HIDE DEF x, p
      <4> QED
        BY <3>3, <3>4, <3>5
    <3>8. f[k + 1] = Conv!Accumulate(f[k], x) /\ f[k] \in Acc
      BY <1>1, <2>1, <3>1
    <3> HIDE DEF x
    <3>9. Shows(f[k + 1], v * 10 + x)
      <4>1. CASE v > IntMax
        <5>1. v * 10 + x > IntMax /\ ~(v * 10 + x <= IntMax)
          BY <3>3, <4>1, ConversionsAssumption
        <5>2. f[k].overflow = TRUE
          BY <3>2, <4>1
        <5>3. f[k + 1].overflow = TRUE
          BY <3>8, <5>2 DEF Conv!Accumulate, Acc
        <5> QED
          BY <5>1, <5>3
      <4>2. CASE v <= IntMax
        <5>1. f[k] = [val |-> v, overflow |-> FALSE]
          BY <3>2, <4>2
        <5>2. f[k + 1] = IF v * 10 + x <= IntMax
                         THEN [val |-> v * 10 + x, overflow |-> FALSE]
                         ELSE [val |-> v, overflow |-> TRUE]
          BY <3>3, <3>8, <5>1, AccumulateFits
        <5>3. v * 10 + x > IntMax <=> ~(v * 10 + x <= IntMax)
          BY <1>0, <3>6
        <5> QED
          BY <5>2, <5>3
      <4>3. v > IntMax \/ v <= IntMax
        BY <1>0
      <4> QED
        BY <4>1, <4>2, <4>3
    <3>10. Right(k + 1, v * 10 + x)
      BY <3>7, <3>9
    <3> QED
      BY <3>6, <3>10
  <2> HIDE DEF Right
  <2> QED
    BY <2>1, <2>2
<1>6. m \in S
  <2>1. S \in SUBSET Nat
    OBVIOUS
  <2> HIDE DEF S
  <2> QED
    BY <1>3, <1>4, <1>5, <2>1, Induction
<1>7. PICK v \in Nat : Right(m, v)
  <2>1. m \in Nat /\ m <= m
    BY <1>3
  <2> HIDE DEF Right
  <2> QED
    BY <1>6, <2>1
<1>8. m - m = 0
  BY <1>3
<1>9. Value(digits) = v
  <2>1. Value(digits) = v * Power[0] /\ Power[0] = 1
    BY <1>2, <1>7, <1>8, PowerShape
  <2> QED
    BY <2>1
<1> QED
  BY <1>1, <1>7, <1>9

-----------------------------------------------------------------------------
(* Where the number is in the string.                                        *)

LEMMA SkipsAll ==
    ASSUME NEW str \in Seq(Int), NEW i \in 1..Len(str) + 1, NEW set, NEW j,
           j = Conv!SkipWhile(str, i, set)
    PROVE  /\ j \in i..Len(str) + 1
           /\ \A k \in i..j - 1 : str[k] \in set
           /\ j <= Len(str) => str[j] \notin set
<1> DEFINE L == Len(str)
           stops == {k \in i..L + 1 : k > L \/ str[k] \notin set}
<1>1. L \in Nat /\ i \in Nat /\ L + 1 \in stops
  <2>1. L \in Nat
    BY LenProperties
  <2> HIDE DEF L
  <2> QED
    BY <2>1 DEF L
<1>2. j = CHOOSE k \in stops : \A m \in stops : k <= m
  BY DEF Conv!SkipWhile
<1>3. \E k \in stops : \A m \in stops : k <= m
  <2>1. stops \in SUBSET Nat /\ stops # {}
    BY <1>1
  <2> HIDE DEF stops
  <2> QED
    BY <2>1, LeastNumber
<1>4. j \in stops /\ \A m \in stops : j <= m
  <2> HIDE DEF stops
  <2> QED
    BY <1>2, <1>3
<1> HIDE DEF L
<1>5. j \in i..L + 1 /\ (j > L \/ str[j] \notin set)
  BY <1>4
<1>6. ASSUME NEW k \in i..j - 1 PROVE str[k] \in set
  <2>1. k \in i..L + 1 /\ ~(j <= k)
    BY <1>1, <1>5
  <2>2. k \notin stops
    BY <1>4, <2>1
  <2> QED
    BY <2>1, <2>2
<1> QED
  BY <1>1, <1>5, <1>6 DEF L

LEMMA LongestPrefix ==
    ASSUME NEW seq \in Seq(Int), NEW set, NEW j \in 0..Len(seq),
           \A k \in 1..j : seq[k] \in set, j < Len(seq) => seq[j + 1] \notin set
    PROVE  Max({k \in 0..Len(seq) : \A m \in 1..k : seq[m] \in set}) = j
<1> DEFINE T == {k \in 0..Len(seq) : \A m \in 1..k : seq[m] \in set}
<1>1. Len(seq) \in Nat /\ j \in Nat
  BY LenProperties
<1>2. j \in T
  OBVIOUS
<1>3. ASSUME NEW k \in T PROVE k \in Nat /\ k <= j
  <2>1. k \in 0..Len(seq) /\ \A m \in 1..k : seq[m] \in set
    OBVIOUS
  <2>2. ASSUME j < k PROVE FALSE
    <3>1. j + 1 \in 1..k /\ j < Len(seq)
      BY <1>1, <2>1, <2>2
    <3> QED
      BY <2>1, <3>1
  <2> QED
    BY <1>1, <2>1, <2>2
<1> HIDE DEF T
<1>4. \E k \in T : \A y \in T : k >= y
  BY <1>1, <1>2, <1>3
<1>5. Max(T) \in T /\ \A y \in T : Max(T) >= y
  BY <1>4 DEF Max
<1>6. Max(T) = j
  <2>1. Max(T) >= j /\ Max(T) <= j /\ Max(T) \in Nat
    BY <1>2, <1>3, <1>5
  <2> QED
    BY <1>1, <2>1
<1> QED
  BY <1>6 DEF T

LEMMA AtoiRight ==
    ASSUME NEW str \in Seq(Int)
    PROVE  Conv!my_atoi(str) = IF Number(str) > IntMax THEN IntMax
                               ELSE IF Number(str) < -IntMax - 1 THEN -IntMax - 1
                               ELSE Number(str)
<1> DEFINE L == Len(str)
           start == Conv!SkipWhile(str, 1, {Conv!Blank})
           sgn == start <= L /\ str[start] \in {Conv!Plus, Conv!Minus}
           first == IF sgn THEN start + 1 ELSE start
           stop == Conv!SkipWhile(str, first, Conv!Digit)
           digits == SubSeq(str, first, stop - 1)
           acc == Conv!FoldLeft(Conv!Accumulate, Zero, digits)
           negative == sgn /\ str[start] = Conv!Minus
           blanks == {k \in 0..L : \A m \in 1..k : str[m] = Conv!Blank}
           body == SubSeq(str, Max(blanks) + 1, L)
           bsgn == body # <<>> /\ Head(body) \in {Conv!Plus, Conv!Minus}
           rest == IF bsgn THEN Tail(body) ELSE body
           lengths == {k \in 0..Len(rest) : \A m \in 1..k : rest[m] \in Conv!Digit}
           value == Value(SubSeq(rest, 1, Max(lengths)))
<1>1. Conv!my_atoi(str) = IF acc.overflow THEN (IF negative THEN Conv!IntMin ELSE IntMax)
                          ELSE IF negative THEN -acc.val ELSE acc.val
  BY DEF Conv!my_atoi, Zero
<1>2. Number(str) = IF bsgn /\ Head(body) = Conv!Minus THEN -value ELSE value
  BY DEF Number
<1>3. L \in Nat /\ 1 \in 1..L + 1 /\ \A k \in 1..L : str[k] \in Int
  <2>1. L \in Nat /\ \A k \in 1..L : str[k] \in Int
    BY LenProperties, ElementOfSeq
  <2> HIDE DEF L
  <2> QED
    BY <2>1
<1> HIDE DEF value, lengths, acc, digits
<1>4. /\ start \in 1..L + 1
      /\ \A k \in 1..start - 1 : str[k] \in {Conv!Blank}
      /\ start <= L => str[start] \notin {Conv!Blank}
  BY <1>3, SkipsAll
<1> HIDE DEF start
<1>5. Max(blanks) = start - 1
  <2> DEFINE j == start - 1
  <2>1. j \in 0..L /\ (\A k \in 1..j : str[k] \in {Conv!Blank})
        /\ (j < L => str[j + 1] \notin {Conv!Blank})
    BY <1>3, <1>4
  <2>2. blanks = {k \in 0..Len(str) : \A m \in 1..k : str[m] \in {Conv!Blank}}
    OBVIOUS
  <2> HIDE DEF j, blanks
  <2>3. Max(blanks) = j
    BY <2>1, <2>2, LongestPrefix DEF L
  <2> QED
    BY <2>3 DEF j
<1> HIDE DEF blanks
<1>6. body = SubSeq(str, start, L)
  BY <1>3, <1>4, <1>5
<1> HIDE DEF body
<1>7. /\ body # <<>> <=> start <= L
      /\ start <= L => Head(body) = str[start] /\ Tail(body) = SubSeq(str, start + 1, L)
  <2>1. CASE start <= L
    <3>1. start \in 1..L /\ L \in start..L
      BY <1>3, <1>4, <2>1
    <3>2. Head(body) = str[start] /\ Tail(body) = SubSeq(str, start + 1, L)
      BY <1>6, <3>1, HeadTailOfSubSeq DEF L
    <3>3. Len(body) = L - start + 1
      <4>1. \A k \in start..L : str[k] \in Int
        BY <1>3, <1>4
      <4>2. start \in Int /\ L \in Int
        BY <1>3, <1>4
      <4> HIDE DEF L
      <4> QED
        BY <1>6, <2>1, <4>1, <4>2, SubSeqProperties
    <3>4. Len(body) # 0
      BY <1>3, <3>1, <3>3
    <3>5. body # <<>>
      BY <3>4, EmptySeq
    <3> QED
      BY <2>1, <3>2, <3>5
  <2>2. CASE ~(start <= L)
    <3>1. body = <<>>
      BY <1>3, <1>4, <1>6, <2>2, SubSeqEmpty
    <3> QED
      BY <2>2, <3>1
  <2> QED
    BY <2>1, <2>2
<1>8. bsgn <=> sgn
  BY <1>7
<1>9. rest = SubSeq(str, first, L)
  BY <1>6, <1>7, <1>8
<1>10. first \in 1..L + 1 /\ first \in Int
  BY <1>3, <1>4
<1>11. (bsgn /\ Head(body) = Conv!Minus) <=> negative
  BY <1>7, <1>8
<1> HIDE DEF first, rest, sgn, bsgn, negative
<1>12. /\ stop \in first..L + 1
       /\ \A k \in first..stop - 1 : str[k] \in Conv!Digit
       /\ stop <= L => str[stop] \notin Conv!Digit
  BY <1>10, SkipsAll
<1> HIDE DEF stop
<1>13. /\ rest \in Seq(Int) /\ Len(rest) = L - first + 1
       /\ \A i \in 1..L - first + 1 : rest[i] = str[first + i - 1]
  <2>1. \A k \in first..L : str[k] \in Int
    BY <1>3, <1>10
  <2>2. L \in Int
    BY <1>3
  <2>3. /\ rest \in Seq(Int) /\ Len(rest) = IF first <= L THEN L - first + 1 ELSE 0
        /\ \A i \in 1..L - first + 1 : rest[i] = str[first + i - 1]
    <3> HIDE DEF L
    <3> QED
      BY <1>9, <1>10, <2>1, <2>2, SubSeqProperties
  <2> QED
    BY <1>3, <1>10, <2>3
<1> DEFINE len == stop - first
<1>14. Max(lengths) = len
  <2>1. len \in 0..Len(rest)
    BY <1>3, <1>10, <1>12, <1>13
  <2>2. \A k \in 1..len : rest[k] \in Conv!Digit
    <3>1. ASSUME NEW k \in 1..len PROVE rest[k] \in Conv!Digit
      <4>1. k \in 1..L - first + 1 /\ first + k - 1 \in first..stop - 1
        BY <1>3, <1>10, <1>12
      <4>2. rest[k] = str[first + k - 1]
        BY <1>13, <4>1
      <4> QED
        BY <1>12, <4>1, <4>2
    <3> QED
      BY <3>1
  <2>3. len < Len(rest) => rest[len + 1] \notin Conv!Digit
    <3>1. ASSUME len < Len(rest) PROVE rest[len + 1] \notin Conv!Digit
      <4>1. len + 1 \in 1..L - first + 1 /\ first + (len + 1) - 1 = stop /\ stop <= L
        BY <1>3, <1>10, <1>12, <1>13, <3>1
      <4>2. rest[len + 1] = str[first + (len + 1) - 1]
        BY <1>13, <4>1
      <4> QED
        BY <1>12, <4>1, <4>2
    <3> QED
      BY <3>1
  <2> HIDE DEF len
  <2> QED
    BY <1>13, <2>1, <2>2, <2>3, LongestPrefix DEF lengths
<1>15. /\ digits \in Seq(Conv!Digit) /\ Len(digits) = len
       /\ \A i \in 1..len : digits[i] = str[first + i - 1]
  <2>1. first \in Int /\ stop - 1 \in Int /\ (stop - 1) - first + 1 = len
    BY <1>3, <1>10, <1>12
  <2>2. /\ digits \in Seq(Conv!Digit)
        /\ Len(digits) = IF first <= stop - 1 THEN (stop - 1) - first + 1 ELSE 0
        /\ \A i \in 1..(stop - 1) - first + 1 : digits[i] = str[first + i - 1]
    BY <1>12, <2>1, SubSeqProperties DEF digits
  <2>3. len = 0 \/ first <= stop - 1
    BY <1>3, <1>10, <1>12
  <2> QED
    BY <2>1, <2>2, <2>3
<1>16. SubSeq(rest, 1, Max(lengths)) = digits
  <2> DEFINE sub == SubSeq(rest, 1, len)
  <2>1. len \in 0..Len(rest) /\ len \in Int
    BY <1>3, <1>10, <1>12, <1>13
  <2>2. \A k \in 1..len : rest[k] \in Int
    BY <1>13, <2>1, ElementOfSeq
  <2>3. /\ sub \in Seq(Int) /\ Len(sub) = IF 1 <= len THEN len - 1 + 1 ELSE 0
        /\ \A i \in 1..len - 1 + 1 : sub[i] = rest[1 + i - 1]
    <3> HIDE DEF len
    <3>1. 1 \in Int
      OBVIOUS
    <3> QED
      BY <2>1, <2>2, <3>1, SubSeqProperties
  <2> HIDE DEF sub
  <2>4. Len(sub) = len
    BY <2>1, <2>3
  <2>5. ASSUME NEW i \in 1..len PROVE sub[i] = digits[i]
    <3>1. i \in 1..len - 1 + 1 /\ 1 + i - 1 = i /\ i \in 1..L - first + 1
      BY <1>3, <1>10, <1>12, <2>1
    <3>2. sub[i] = rest[i] /\ rest[i] = str[first + i - 1]
      BY <1>13, <2>3, <3>1
    <3> QED
      BY <1>15, <3>2
  <2>6. digits \in Seq(Int)
    <3>1. Conv!Digit \subseteq Int
      BY DEF Conv!Digit
    <3> QED
      BY <1>15, <3>1, SeqMonotonic
  <2>7. sub = digits
    <3> HIDE DEF len
    <3> QED
      BY <1>15, <2>3, <2>4, <2>5, <2>6, SeqEqual
  <2> QED
    BY <1>14, <2>7 DEF sub
<1>17. value = Value(digits)
  BY <1>16 DEF value
<1>18. /\ value \in Nat
       /\ value <= IntMax => acc = [val |-> value, overflow |-> FALSE]
       /\ value > IntMax => acc.overflow = TRUE
  BY <1>15, <1>17, LoopValue DEF acc
<1>19. IntMax \in Nat /\ Conv!IntMin = -IntMax - 1
  BY ConversionsAssumption DEF Conv!IntMin
<1>20. CASE value <= IntMax
  <2>1. acc.overflow = FALSE /\ acc.val = value
    BY <1>18, <1>20
  <2> QED
    BY <1>1, <1>2, <1>11, <1>18, <1>19, <1>20, <2>1
<1>21. CASE value > IntMax
  <2>1. Conv!my_atoi(str) = IF negative THEN -IntMax - 1 ELSE IntMax
    BY <1>1, <1>18, <1>19, <1>21
  <2>2. Number(str) = IF negative THEN -value ELSE value
    BY <1>2, <1>11
  <2> QED
    BY <1>18, <1>19, <1>21, <2>1, <2>2
<1> QED
  BY <1>18, <1>19, <1>20, <1>21

-----------------------------------------------------------------------------
(* What has been put out.                                                    *)

Buffers == UNION {[D -> Int] : D \in SUBSET Nat}
Outs == [str: Buffers, i: Nat, total: Nat]

\* The length is that of the text t, and the buffer has the text if it fits.
Exact(out, size, t) ==
    /\ out.total = Len(t)
    /\ out.i \in 0..Len(t)
    /\ Len(t) < size => /\ out.i = Len(t)
                        /\ DOMAIN out.str = 0..Len(t) - 1
                        /\ \A k \in 0..Len(t) - 1 : out.str[k] = t[k + 1]

LEMMA WriteTyped ==
    ASSUME NEW b \in Buffers, NEW i \in Nat, NEW ch \in Int
    PROVE  Conv!Write(b, i, ch) \in Buffers
<1>1. PICK D \in SUBSET Nat : b \in [D -> Int]
  BY DEF Buffers
<1>2. Conv!Write(b, i, ch) \in [D \cup {i} -> Int]
  BY <1>1 DEF Conv!Write
<1>3. D \cup {i} \in SUBSET Nat
  BY <1>1
<1> QED
  BY <1>2, <1>3 DEF Buffers

LEMMA PutsTyped ==
    ASSUME NEW size \in Nat, NEW out \in Outs, NEW ch \in Int
    PROVE  /\ Conv!PutChar(size, out, ch) \in Outs
           /\ Conv!PutFitting(size, out, ch) \in Outs
           /\ Conv!PutFirst(out, ch) \in Outs
<1>1. out.str \in Buffers /\ out.i \in Nat /\ out.total \in Nat
  BY DEF Outs
<1>2. Conv!Write(out.str, out.i, ch) \in Buffers
  BY <1>1, WriteTyped
<1>3. out.i + 1 \in Nat /\ out.total + 1 \in Nat
  BY <1>1
<1>4. \A b \in Buffers : [str |-> b, i |-> out.i + 1, total |-> out.total + 1] \in Outs
  BY <1>3 DEF Outs
<1>5. [out EXCEPT !.total = @ + 1] \in Outs
  BY <1>3 DEF Outs
<1> QED
  BY <1>1, <1>2, <1>4, <1>5 DEF Conv!PutChar, Conv!PutFitting, Conv!PutFirst

\* One character more, whether it fits or not.
LEMMA PutsExact ==
    ASSUME NEW size \in Nat, NEW out \in Outs, NEW ch \in Int, NEW t \in Seq(Int),
           Exact(out, size, t)
    PROVE  /\ Exact(Conv!PutChar(size, out, ch), size, Append(t, ch))
           /\ Exact(Conv!PutFitting(size, out, ch), size, Append(t, ch))
           /\ Exact(Conv!PutFirst(out, ch), size, Append(t, ch))
<1> DEFINE u == Append(t, ch)
           l == Len(t)
           wr == Conv!Write(out.str, out.i, ch)
           put == [str |-> wr, i |-> out.i + 1, total |-> out.total + 1]
           skip == [str |-> out.str, i |-> out.i + 1, total |-> out.total + 1]
           drop == [out EXCEPT !.total = @ + 1]
<1>1. u \in Seq(Int) /\ Len(u) = l + 1 /\ l \in Nat
      /\ (\A k \in 1..l : u[k] = t[k]) /\ u[l + 1] = ch
  BY LenProperties, AppendProperties
<1>2. out.total = l /\ out.i \in 0..l /\ out.i \in Nat
  BY DEF Exact, Outs
<1>3. /\ put.str = wr /\ put.i = out.i + 1 /\ put.total = out.total + 1
      /\ skip.i = out.i + 1 /\ skip.total = out.total + 1
  OBVIOUS
<1>4. drop.i = out.i /\ drop.total = out.total + 1
  BY DEF Outs
<1> HIDE DEF put, skip, drop, u, l
<1>5. CASE l + 1 < size
  <2>1. out.i = l /\ DOMAIN out.str = 0..l - 1 /\ \A k \in 0..l - 1 : out.str[k] = t[k + 1]
    BY <1>1, <1>5 DEF Exact, l
  <2>2. Conv!Room(size, out)
    BY <1>1, <1>5, <2>1 DEF Conv!Room
  <2>3. DOMAIN wr = 0..(l + 1) - 1
    <3>1. DOMAIN wr = DOMAIN out.str \cup {out.i}
      BY DEF Conv!Write
    <3>2. 0..(l + 1) - 1 = (0..l - 1) \cup {l}
      BY <1>1
    <3> QED
      BY <2>1, <3>1, <3>2
  <2>4. ASSUME NEW k \in 0..(l + 1) - 1 PROVE wr[k] = u[k + 1]
    <3>1. k \in DOMAIN out.str \cup {out.i}
      <4>1. k \in 0..l - 1 \/ k = l
        BY <1>1
      <4> QED
        BY <2>1, <4>1
    <3>2. wr[k] = IF k = out.i THEN ch ELSE out.str[k]
      BY <3>1 DEF Conv!Write
    <3>3. CASE k = l
      BY <1>1, <2>1, <3>2, <3>3
    <3>4. CASE k # l
      <4>1. k \in 0..l - 1 /\ k + 1 \in 1..l
        BY <1>1, <3>4
      <4> QED
        BY <1>1, <2>1, <3>2, <3>4, <4>1
    <3> QED
      BY <3>3, <3>4
  <2>5. Exact(put, size, u)
    <3>1. put.total = Len(u) /\ put.i = Len(u) /\ put.i \in 0..Len(u)
      BY <1>1, <1>2, <1>3, <2>1
    <3> QED
      BY <1>1, <1>3, <2>3, <2>4, <3>1 DEF Exact
  <2>6. /\ Conv!PutChar(size, out, ch) = put
        /\ Conv!PutFitting(size, out, ch) = put
        /\ Conv!PutFirst(out, ch) = put
    BY <2>2 DEF Conv!PutChar, Conv!PutFitting, Conv!PutFirst, put
  <2> QED
    BY <2>5, <2>6 DEF u
<1>6. CASE ~(l + 1 < size)
  <2>1. ~(Len(u) < size)
    BY <1>1, <1>6
  <2>2. Exact(put, size, u) /\ Exact(skip, size, u) /\ Exact(drop, size, u)
    <3>1. /\ put.total = Len(u) /\ put.i \in 0..Len(u)
          /\ skip.total = Len(u) /\ skip.i \in 0..Len(u)
          /\ drop.total = Len(u) /\ drop.i \in 0..Len(u)
      BY <1>1, <1>2, <1>3, <1>4
    <3> QED
      BY <2>1, <3>1 DEF Exact
  <2>3. /\ Conv!PutChar(size, out, ch) \in {put, skip}
        /\ Conv!PutFitting(size, out, ch) \in {put, drop}
        /\ Conv!PutFirst(out, ch) = put
    BY DEF Conv!PutChar, Conv!PutFitting, Conv!PutFirst, put, skip, drop
  <2> QED
    BY <2>2, <2>3 DEF u
<1> QED
  BY <1>5, <1>6

-----------------------------------------------------------------------------
(* The digits of a number.                                                   *)

Ints == 0..IntMax + 1

\* itostr writes the number without its last digit first.
LEMMA Itostr ==
    ASSUME NEW size \in Nat, NEW out \in Outs
    PROVE  \E f : /\ \A v \in Ints : f[v] \in Outs /\ Conv!itostr(size, out, v) = f[v]
                  /\ \A v \in Ints :
                        f[v] = IF v < 10 THEN Conv!PutFirst(out, v)
                               ELSE Conv!PutFitting(size, f[v \div 10], v % 10)
<1> DEFINE Body(g) == [v \in 0..IntMax + 1 |->
                          IF v < 10 THEN Conv!PutFirst(out, v)
                          ELSE Conv!PutFitting(size, g[v \div 10], v % 10)]
           print == CHOOSE g : g = Body(g)
           m == IntMax + 1
           T == {v \in 0..m : v >= 10}
           base == [v \in 0..m |-> Conv!PutFirst(out, v)]
           step == [v \in 0..m |-> [o \in Outs |-> Conv!PutFitting(size, o, v % 10)]]
           down == [v \in 0..m |-> v \div 10]
<1>1. \A v : Conv!itostr(size, out, v) = print[v]
  BY DEF Conv!itostr
<1>2. m \in Nat
  BY ConversionsAssumption
<1>3. \A v \in 0..m : v \in Nat /\ v \in Int /\ v % 10 \in Int
  BY <1>2
<1>4. base \in [0..m -> Outs]
  BY <1>3, PutsTyped
<1>5. step \in [0..m -> [Outs -> Outs]]
  BY <1>3, PutsTyped
<1>6. \A v \in T : down[v] \in 0..v - 1
  <2>1. ASSUME NEW v \in T PROVE v \div 10 \in 0..v - 1
    BY <1>3
  <2> QED
    BY <2>1
<1>7. T \in SUBSET (0..m)
  OBVIOUS
<1>8. \A v \in 0..m : /\ base[v] = Conv!PutFirst(out, v)
                      /\ down[v] = v \div 10
                      /\ \A o \in Outs : step[v][o] = Conv!PutFitting(size, o, v % 10)
                      /\ v \in T <=> ~(v < 10)
  BY <1>3
<1>9. T \subseteq 0..m /\ \A v \in T : down[v] \in 0..m
  <2>1. ASSUME NEW v \in T PROVE down[v] \in 0..m
    <3>1. down[v] \in 0..v - 1 /\ v \in 0..m
      BY <1>6
    <3> QED
      BY <1>2, <3>1
  <2> QED
    BY <2>1
<1> HIDE DEF T, base, step, down, m
<1>10. PICK f \in [0..m -> Outs] : Descends(f, m, T, down, step, base)
  BY <1>2, <1>4, <1>5, <1>6, <1>7, Descent
<1>11. ASSUME NEW v \in 0..m
       PROVE  f[v] = IF v < 10 THEN Conv!PutFirst(out, v)
                     ELSE Conv!PutFitting(size, f[v \div 10], v % 10)
  <2>1. f[v] = IF v \in T THEN step[v][f[down[v]]] ELSE base[v]
    BY <1>10 DEF Descends
  <2>2. v \in T => f[down[v]] \in Outs
    BY <1>9, <1>10
  <2> QED
    BY <1>8, <2>1, <2>2
<1>12. f = Body(f)
  <2>1. f = [v \in 0..m |-> f[v]]
    BY <1>10
  <2> QED
    BY <1>11, <2>1 DEF m
<1>13. print = Body(print)
  <2> HIDE DEF Body
  <2> QED
    BY <1>12
<1> HIDE DEF print
<1>14. ASSUME NEW v \in Ints
       PROVE  print[v] = IF v < 10 THEN Conv!PutFirst(out, v)
                         ELSE Conv!PutFitting(size, print[v \div 10], v % 10)
  BY <1>13 DEF Ints
<1> HIDE DEF Body
<1> DEFINE S == {k \in Nat : \A v \in Ints : v <= k => print[v] \in Outs}
<1>15. \A k \in Nat : k \in S
  <2>0. \A v \in Ints : v \in Nat /\ v \in Int /\ v % 10 \in Int
    BY <1>3 DEF Ints, m
  <2>1. 0 \in S /\ S \in SUBSET Nat
    <3>1. ASSUME NEW v \in Ints, v <= 0 PROVE print[v] \in Outs
      <4>1. v < 10
        BY <2>0, <3>1
      <4> QED
        BY <1>14, <2>0, <4>1, PutsTyped
    <3> QED
      BY <3>1
  <2>2. ASSUME NEW k \in S PROVE k + 1 \in S
    <3>1. k \in Nat
      OBVIOUS
    <3>2. ASSUME NEW v \in Ints, v <= k + 1 PROVE print[v] \in Outs
      <4>1. CASE v < 10
        BY <1>14, <2>0, <4>1, PutsTyped
      <4>2. CASE ~(v < 10)
        <5>1. v \div 10 \in Ints /\ v \div 10 <= k
          BY <1>2, <2>0, <3>1, <3>2, <4>2 DEF Ints, m
        <5>2. print[v \div 10] \in Outs
          BY <5>1
        <5>3. print[v] = Conv!PutFitting(size, print[v \div 10], v % 10)
          BY <1>14, <4>2
        <5> QED
          BY <2>0, <5>2, <5>3, PutsTyped
      <4> QED
        BY <4>1, <4>2
    <3> QED
      BY <3>1, <3>2
  <2> HIDE DEF S
  <2> QED
    BY <2>1, <2>2, Induction
<1>16. \A v \in Ints : print[v] \in Outs
  <2>1. ASSUME NEW v \in Ints PROVE print[v] \in Outs
    <3>1. v \in Nat /\ v <= v
      BY <1>3 DEF Ints, m
    <3> QED
      BY <1>15, <3>1
  <2> QED
    BY <2>1
<1> QED
  BY <1>1, <1>14, <1>16

-----------------------------------------------------------------------------
(* How many digits a number has.                                             *)

\* N is the number of digits of v.
Counts(v, N) == N \in Nat \ {0} /\ v < Power[N] /\ (N = 1 \/ Power[N - 1] <= v)

LEMMA PowerGrows ==
    /\ \A k \in Nat : k < Power[k]
    /\ \A j \in Nat : \A k \in Nat : Power[j] <= Power[j + k]
<1> DEFINE S == {k \in Nat : k < Power[k]}
<1>1. \A k \in Nat : k \in S
  <2>1. 0 \in S /\ S \in SUBSET Nat
    BY PowerShape
  <2>2. ASSUME NEW k \in S PROVE k + 1 \in S
    <3>1. k \in Nat /\ k + 1 \in Nat /\ k < Power[k]
      OBVIOUS
    <3>2. Power[k] \in Nat /\ Power[k] >= 1 /\ Power[k + 1] = 10 * Power[k]
      BY <3>1, PowerShape
    <3> QED
      BY <3>1, <3>2
  <2> HIDE DEF S
  <2> QED
    BY <2>1, <2>2, Induction
<1>2. ASSUME NEW j \in Nat PROVE \A k \in Nat : Power[j] <= Power[j + k]
  <2> DEFINE T == {k \in Nat : Power[j] <= Power[j + k]}
  <2>0. Power[j] \in Nat
    BY PowerShape
  <2>1. 0 \in T /\ T \in SUBSET Nat
    <3>1. j + 0 = j
      OBVIOUS
    <3> QED
      BY <2>0, <3>1
  <2>2. ASSUME NEW k \in T PROVE k + 1 \in T
    <3>1. k \in Nat /\ k + 1 \in Nat /\ j + k \in Nat /\ Power[j] <= Power[j + k]
          /\ j + (k + 1) = (j + k) + 1
      OBVIOUS
    <3>2. Power[j + k] \in Nat /\ Power[(j + k) + 1] = 10 * Power[j + k]
      BY <3>1, PowerShape
    <3> QED
      BY <2>0, <3>1, <3>2
  <2> HIDE DEF T
  <2>3. \A k \in Nat : k \in T
    BY <2>1, <2>2, Induction
  <2> QED
    BY <2>3 DEF T
<1> QED
  BY <1>1, <1>2

LEMMA CountsOnce ==
    ASSUME NEW v \in Nat, NEW j, Counts(v, j), NEW k, Counts(v, k)
    PROVE  ~(j < k)
<1>1. ASSUME j < k PROVE FALSE
  <2>1. /\ j \in Nat \ {0} /\ k \in Nat \ {0} /\ k # 1
        /\ v < Power[j] /\ Power[k - 1] <= v
    BY <1>1 DEF Counts
  <2>2. (k - 1) - j \in Nat /\ j + ((k - 1) - j) = k - 1 /\ k - 1 \in Nat
    BY <1>1, <2>1
  <2>3. Power[j] <= Power[k - 1] /\ Power[j] \in Nat /\ Power[k - 1] \in Nat
    BY <2>1, <2>2, PowerGrows, PowerShape
  <2> QED
    BY <2>1, <2>3
<1> QED
  BY <1>1

LEMMA DigitsCounted ==
    ASSUME NEW v \in Nat, NEW N, Counts(v, N)
    PROVE  Digits(v) = [k \in 1..N |-> (v \div Power[N - k]) % 10]
<1> DEFINE P(k) == v < Power[k] /\ (k = 1 \/ Power[k - 1] <= v)
           M == CHOOSE k \in 1..v + 1 : P(k)
<1>1. Digits(v) = [k \in 1..M |-> (v \div Power[M - k]) % 10]
  BY DEF Digits
<1>2. N \in 1..v + 1 /\ P(N)
  <2>1. N \in Nat \ {0} /\ P(N)
    BY DEF Counts
  <2>2. CASE N = 1
    BY <2>1, <2>2
  <2>3. CASE N # 1
    <3>1. N - 1 \in Nat /\ Power[N - 1] <= v
      BY <2>1, <2>3
    <3>2. N - 1 < Power[N - 1] /\ Power[N - 1] \in Nat
      BY <3>1, PowerGrows, PowerShape
    <3>3. N <= v + 1
      BY <2>1, <3>1, <3>2
    <3> QED
      BY <2>1, <3>3
  <2> QED
    BY <2>2, <2>3
<1>3. M \in 1..v + 1 /\ P(M)
  BY <1>2
<1> HIDE DEF M
<1>4. Counts(v, M)
  BY <1>3 DEF Counts
<1>5. M = N
  <2>1. ~(M < N) /\ ~(N < M)
    BY <1>4, CountsOnce
  <2> QED
    BY <1>2, <1>3, <2>1
<1> QED
  BY <1>1, <1>5

LEMMA Counted ==
    ASSUME NEW v \in Nat
    PROVE  \E N \in Nat : Counts(v, N)
<1> DEFINE T == {k \in 1..v + 1 : v < Power[k]}
<1>1. v + 1 \in T
  <2>1. v + 1 \in Nat /\ v + 1 \in 1..v + 1 /\ v < v + 1
    OBVIOUS
  <2>2. v + 1 < Power[v + 1] /\ Power[v + 1] \in Nat
    BY <2>1, PowerGrows, PowerShape
  <2> QED
    BY <2>1, <2>2
<1>2. T \in SUBSET Nat /\ T # {}
  BY <1>1
<1>3. PICK N \in T : \A y \in T : N <= y
  <2> HIDE DEF T
  <2> QED
    BY <1>2, LeastNumber
<1>4. N \in Nat \ {0} /\ N \in 1..v + 1 /\ v < Power[N]
  OBVIOUS
<1>5. ASSUME N # 1 PROVE Power[N - 1] <= v
  <2>1. N - 1 \in 1..v + 1 /\ N - 1 \in Nat /\ ~(N <= N - 1)
    BY <1>4, <1>5
  <2>2. N - 1 \notin T
    BY <1>3, <2>1
  <2>3. ~(v < Power[N - 1]) /\ Power[N - 1] \in Nat
    BY <2>1, <2>2, PowerShape
  <2> QED
    BY <2>3
<1> QED
  BY <1>4, <1>5 DEF Counts

\* A number without its last digit: the tenth of the number, rounded down.
LEMMA Tenth ==
    ASSUME NEW v \in Nat, NEW p \in Nat \ {0}
    PROVE  v \div (10 * p) = (v \div 10) \div p
<1> DEFINE q == v \div 10
           r == v % 10
           c == q \div p
           e == q % p
           b == 10 * p
<1>1. v = 10 * q + r /\ q \in Nat /\ r \in 0..9
  OBVIOUS
<1>2. b \in Nat \ {0} /\ b = 10 * p
  OBVIOUS
<1>3. v = b * (v \div b) + (v % b) /\ v \div b \in Nat /\ v % b \in 0..b - 1
  <2> HIDE DEF b
  <2> QED
    BY <1>2
<1> HIDE DEF q, r
<1>4. q = p * c + e /\ c \in Nat /\ e \in 0..p - 1
  BY <1>1
<1> HIDE DEF c, e, b
<1>5. 10 * e + r \in 0..b - 1
  BY <1>1, <1>2, <1>4
<1>6. v = b * c + (10 * e + r)
  BY <1>1, <1>2, <1>4
<1>7. v \div b = c
  <2> DEFINE x == v \div b
             y == v % b
             z == 10 * e + r
  <2>1. b * x + y = b * c + z /\ x \in Int /\ c \in Int /\ y \in 0..b - 1 /\ z \in 0..b - 1
    BY <1>3, <1>4, <1>5, <1>6
  <2> HIDE DEF x, y, z
  <2>2. x = c
    BY <1>2, <2>1, OneRemainder
  <2> QED
    BY <2>2 DEF x
<1> QED
  BY <1>7 DEF c, q, b

LEMMA DigitsSmall ==
    ASSUME NEW v \in 0..9
    PROVE  Digits(v) = <<v>>
<1>1. Power[0] = 1 /\ Power[1] = 10
  <2>1. Power[0 + 1] = 10 * Power[0] /\ Power[0] = 1
    BY PowerShape
  <2> QED
    BY <2>1
<1>2. v \in Nat /\ Counts(v, 1)
  BY <1>1 DEF Counts
<1>3. Digits(v) = [k \in 1..1 |-> (v \div Power[1 - k]) % 10]
  BY <1>2, DigitsCounted
<1>4. (v \div Power[1 - 1]) % 10 = v
  <2>1. v \div 1 = v /\ v % 10 = v /\ 1 - 1 = 0
    OBVIOUS
  <2> QED
    BY <1>1, <2>1
<1>5. \A k \in 1..1 : (v \div Power[1 - k]) % 10 = v
  <2>1. \A k \in 1..1 : k = 1
    OBVIOUS
  <2> QED
    BY <1>4, <2>1
<1>6. Digits(v) = [k \in 1..1 |-> v]
  BY <1>3, <1>5
<1> QED
  BY <1>6

LEMMA DigitsMore ==
    ASSUME NEW v \in Nat, v >= 10
    PROVE  /\ Digits(v \div 10) \in Seq(Int) => Digits(v) \in Seq(Int)
           /\ Digits(v \div 10) \in Seq(Int)
                => Digits(v) = Append(Digits(v \div 10), v % 10)
<1> DEFINE q == v \div 10
           r == v % 10
<1>1. v = 10 * q + r /\ q \in Nat /\ r \in 0..9 /\ q >= 1
  OBVIOUS
<1> HIDE DEF q, r
<1>2. PICK N \in Nat : Counts(q, N)
  BY <1>1, Counted
<1>3. /\ N \in Nat \ {0} /\ q < Power[N] /\ (N = 1 \/ Power[N - 1] <= q)
      /\ Power[N] \in Nat /\ Power[N + 1] = 10 * Power[N]
  BY <1>2, PowerShape DEF Counts
<1>4. Counts(v, N + 1)
  <2>1. N + 1 \in Nat \ {0} /\ N + 1 # 1 /\ (N + 1) - 1 = N
    BY <1>3
  <2>2. v < Power[N + 1]
    BY <1>1, <1>3
  <2>3. Power[N] <= v
    <3>1. CASE N = 1
      <4>1. Power[0 + 1] = 10 * Power[0] /\ Power[0] = 1 /\ 0 + 1 = 1
        BY PowerShape
      <4> QED
        BY <3>1, <4>1
    <3>2. CASE N # 1
      <4>1. N - 1 \in Nat /\ (N - 1) + 1 = N /\ Power[N - 1] <= q
        BY <1>3, <3>2
      <4>2. Power[N - 1] \in Nat /\ Power[(N - 1) + 1] = 10 * Power[N - 1]
        BY <4>1, PowerShape
      <4> QED
        BY <1>1, <4>1, <4>2
    <3> QED
      BY <3>1, <3>2
  <2> QED
    BY <2>1, <2>2, <2>3 DEF Counts
<1>5. Digits(v) = [k \in 1..N + 1 |-> (v \div Power[(N + 1) - k]) % 10]
  BY <1>4, DigitsCounted
<1>6. Digits(q) = [k \in 1..N |-> (q \div Power[N - k]) % 10]
  BY <1>1, <1>2, DigitsCounted
<1>7. ASSUME NEW k \in 1..N
      PROVE  (v \div Power[(N + 1) - k]) % 10 = (q \div Power[N - k]) % 10
  <2>1. N - k \in Nat /\ (N + 1) - k = (N - k) + 1
    OBVIOUS
  <2>2. Power[(N - k) + 1] = 10 * Power[N - k] /\ Power[N - k] \in Nat \ {0}
    BY <2>1, PowerShape
  <2>3. v \div (10 * Power[N - k]) = (v \div 10) \div Power[N - k]
    BY <2>2, Tenth
  <2> QED
    BY <2>1, <2>2, <2>3 DEF q
<1>8. (v \div Power[(N + 1) - (N + 1)]) % 10 = r
  <2>1. (N + 1) - (N + 1) = 0 /\ v \div 1 = v
    OBVIOUS
  <2>2. Power[0] = 1
    BY PowerShape
  <2> QED
    BY <2>1, <2>2 DEF r
<1> DEFINE g(k) == (v \div Power[(N + 1) - k]) % 10
           h(k) == (q \div Power[N - k]) % 10
<1>9. \A k \in 1..N + 1 : g(k) \in Int
  <2>1. ASSUME NEW k \in 1..N + 1 PROVE g(k) \in Int
    <3>1. (N + 1) - k \in Nat
      OBVIOUS
    <3>2. Power[(N + 1) - k] \in Nat \ {0}
      BY <3>1, PowerShape
    <3>3. \A p \in Nat \ {0} : (v \div p) % 10 \in Int
      OBVIOUS
    <3> QED
      BY <3>2, <3>3
  <2> QED
    BY <2>1
<1>10. /\ \A k \in 1..N : g(k) = h(k)
       /\ g(N + 1) = r
  BY <1>7, <1>8
<1> HIDE DEF g, h
<1>11. Digits(v) = [k \in 1..N + 1 |-> g(k)] /\ Digits(q) = [k \in 1..N |-> h(k)]
  BY <1>5, <1>6 DEF g, h
<1>12. Digits(v) \in Seq(Int) /\ Len(Digits(v)) = N + 1
  <2>1. Digits(v) \in [1..N + 1 -> Int] /\ N + 1 \in Nat
    BY <1>9, <1>11
  <2> QED
    BY <2>1, FunctionIsSeq
<1>13. Digits(q) \in Seq(Int) /\ Len(Digits(q)) = N
  <2>1. \A k \in 1..N : h(k) \in Int
    <3>1. \A k \in 1..N : k \in 1..N + 1
      OBVIOUS
    <3> QED
      BY <1>9, <1>10, <3>1
  <2>2. Digits(q) \in [1..N -> Int]
    BY <1>11, <2>1
  <2> QED
    BY <2>2, FunctionIsSeq
<1> DEFINE u == Append(Digits(q), r)
<1>14. /\ u \in Seq(Int) /\ Len(u) = N + 1
       /\ \A k \in 1..N : u[k] = Digits(q)[k]
       /\ u[N + 1] = r
  <2>1. r \in Int
    BY <1>1
  <2> QED
    BY <1>13, <2>1, AppendProperties
<1> HIDE DEF u
<1>15. ASSUME NEW k \in 1..N + 1 PROVE Digits(v)[k] = u[k]
  <2>1. Digits(v)[k] = g(k)
    BY <1>11
  <2>2. CASE k = N + 1
    BY <1>10, <1>14, <2>1, <2>2
  <2>3. CASE k # N + 1
    <3>1. k \in 1..N
      BY <2>3
    <3>2. Digits(q)[k] = h(k)
      BY <1>11, <3>1
    <3> QED
      BY <1>10, <1>14, <2>1, <3>1, <3>2
  <2> QED
    BY <2>2, <2>3
<1>16. Digits(v) = u
  BY <1>12, <1>14, <1>15, SeqEqual
<1> QED
  BY <1>12, <1>16 DEF u, q, r

LEMMA AppendAfter ==
    ASSUME NEW t \in Seq(Int), NEW ds \in Seq(Int), NEW x \in Int
    PROVE  /\ t \o Append(ds, x) = Append(t \o ds, x)
           /\ t \o ds \in Seq(Int)
<1> DEFINE a == Append(ds, x)
           l == t \o a
           c == t \o ds
           r == Append(c, x)
           m == Len(t)
           b == Len(ds)
<1>1. /\ a \in Seq(Int) /\ Len(a) = b + 1
      /\ (\A k \in 1..b : a[k] = ds[k]) /\ a[b + 1] = x
  BY AppendProperties
<1>2. m \in Nat /\ b \in Nat
  BY LenProperties
<1> HIDE DEF a
<1>3. /\ l \in Seq(Int) /\ Len(l) = m + (b + 1)
      /\ \A k \in 1..m + (b + 1) : l[k] = IF k <= m THEN t[k] ELSE a[k - m]
  <2>1. /\ l \in Seq(Int) /\ Len(l) = Len(t) + Len(a)
        /\ \A k \in 1..Len(t) + Len(a) : l[k] = IF k <= Len(t) THEN t[k] ELSE a[k - Len(t)]
    BY <1>1, ConcatProperties
  <2> HIDE DEF l
  <2> QED
    BY <1>1, <2>1
<1>4. /\ c \in Seq(Int) /\ Len(c) = m + b
      /\ \A k \in 1..m + b : c[k] = IF k <= m THEN t[k] ELSE ds[k - m]
  BY ConcatProperties
<1> HIDE DEF l, c, m, b
<1>5. /\ r \in Seq(Int) /\ Len(r) = (m + b) + 1
      /\ (\A k \in 1..m + b : r[k] = c[k]) /\ r[(m + b) + 1] = x
  BY <1>4, AppendProperties
<1> HIDE DEF r
<1>6. Len(l) = Len(r)
  BY <1>2, <1>3, <1>5
<1>7. ASSUME NEW k \in 1..Len(l) PROVE l[k] = r[k]
  <2>1. k \in 1..m + (b + 1) /\ l[k] = IF k <= m THEN t[k] ELSE a[k - m]
    BY <1>3, <1>7
  <2>2. CASE k = (m + b) + 1
    <3>1. ~(k <= m) /\ k - m = b + 1
      BY <1>2, <2>2
    <3> QED
      BY <1>1, <1>5, <2>1, <2>2, <3>1
  <2>3. CASE k # (m + b) + 1
    <3>1. k \in 1..m + b
      BY <1>2, <2>1, <2>3
    <3>2. r[k] = IF k <= m THEN t[k] ELSE ds[k - m]
      BY <1>4, <1>5, <3>1
    <3>3. ~(k <= m) => k - m \in 1..b
      BY <1>2, <3>1
    <3>4. ~(k <= m) => a[k - m] = ds[k - m]
      BY <1>1, <3>3
    <3> QED
      BY <2>1, <3>2, <3>4
  <2> QED
    BY <2>2, <2>3
<1>8. l = r
  BY <1>3, <1>5, <1>6, <1>7, SeqEqual
<1> QED
  BY <1>4, <1>8 DEF l, r, c, a

LEMMA ItostrExact ==
    ASSUME NEW size \in Nat, NEW out \in Outs, NEW t \in Seq(Int),
           Exact(out, size, t), NEW v \in Ints
    PROVE  /\ Digits(v) \in Seq(Int)
           /\ Conv!itostr(size, out, v) \in Outs
           /\ Exact(Conv!itostr(size, out, v), size, t \o Digits(v))
<1>1. PICK f : /\ \A w \in Ints : f[w] \in Outs /\ Conv!itostr(size, out, w) = f[w]
               /\ \A w \in Ints :
                     f[w] = IF w < 10 THEN Conv!PutFirst(out, w)
                            ELSE Conv!PutFitting(size, f[w \div 10], w % 10)
  BY Itostr
<1>2. \A w \in Ints : w \in Nat /\ w \in Int /\ w % 10 \in Int
  <2>1. IntMax + 1 \in Nat
    BY ConversionsAssumption
  <2> QED
    BY <2>1 DEF Ints
<1> DEFINE Right(w) == /\ Digits(w) \in Seq(Int)
                       /\ Exact(f[w], size, t \o Digits(w))
           S == {k \in Nat : \A w \in Ints : w <= k => Right(w)}
<1>3. ASSUME NEW w \in Ints, w < 10 PROVE Right(w)
  <2>1. w \in 0..9 /\ w \in Int
    <3>1. w \in Nat
      BY <1>2
    <3> QED
      BY <1>3, <3>1
  <2>2. Digits(w) = <<w>>
    BY <2>1, DigitsSmall
  <2>3. Exact(Conv!PutFirst(out, w), size, Append(t, w))
    BY <2>1, PutsExact
  <2>4. Append(t, w) = t \o <<w>> /\ <<w>> \in Seq(Int)
    BY <2>1, AppendIsConcat
  <2>5. f[w] = Conv!PutFirst(out, w)
    BY <1>1, <1>3
  <2> QED
    BY <2>2, <2>3, <2>4, <2>5
<1>4. ASSUME NEW w \in Ints, ~(w < 10), Right(w \div 10), w \div 10 \in Ints
      PROVE  Right(w)
  <2> DEFINE ds == Digits(w \div 10)
             o == f[w \div 10]
             x == w % 10
  <2>1. ds \in Seq(Int) /\ o \in Outs /\ x \in Int /\ Exact(o, size, t \o ds)
    BY <1>1, <1>2, <1>4
  <2>2. w \in Nat /\ w >= 10
    BY <1>2, <1>4
  <2>3. Digits(w) \in Seq(Int) /\ Digits(w) = Append(ds, x)
    BY <2>1, <2>2, DigitsMore
  <2>4. f[w] = Conv!PutFitting(size, o, x)
    BY <1>1, <1>4
  <2> HIDE DEF ds, o, x
  <2>5. t \o Append(ds, x) = Append(t \o ds, x) /\ t \o ds \in Seq(Int)
    BY <2>1, AppendAfter
  <2>6. Exact(Conv!PutFitting(size, o, x), size, Append(t \o ds, x))
    BY <2>1, <2>5, PutsExact
  <2> QED
    BY <2>3, <2>4, <2>5, <2>6
<1> HIDE DEF Right
<1>5. \A k \in Nat : k \in S
  <2>1. 0 \in S /\ S \in SUBSET Nat
    <3>1. ASSUME NEW w \in Ints, w <= 0 PROVE Right(w)
      <4>1. w < 10
        BY <1>2, <3>1
      <4> QED
        BY <1>3, <4>1
    <3> QED
      BY <3>1
  <2>2. ASSUME NEW k \in S PROVE k + 1 \in S
    <3>1. k \in Nat
      OBVIOUS
    <3>2. ASSUME NEW w \in Ints, w <= k + 1 PROVE Right(w)
      <4>1. CASE w < 10
        BY <1>3, <4>1
      <4>2. CASE ~(w < 10)
        <5>1. w \div 10 \in Ints /\ w \div 10 <= k
          <6>1. IntMax + 1 \in Nat
            BY ConversionsAssumption
          <6> QED
            BY <1>2, <3>1, <3>2, <4>2, <6>1 DEF Ints
        <5> QED
          BY <1>4, <4>2, <5>1
      <4> QED
        BY <4>1, <4>2
    <3> QED
      BY <3>1, <3>2
  <2> HIDE DEF S
  <2> QED
    BY <2>1, <2>2, Induction
<1>6. Right(v)
  <2>1. v \in Nat /\ v <= v
    BY <1>2
  <2> QED
    BY <1>5, <2>1
<1> QED
  BY <1>1, <1>6 DEF Right

\* A number's text.
IntText(v) == IF v < 0 THEN <<Conv!Minus>> \o Digits(-v) ELSE Digits(v)

LEMMA PutIntExact ==
    ASSUME NEW size \in Nat, NEW out \in Outs, NEW t \in Seq(Int),
           Exact(out, size, t), NEW v \in Conv!IntMin..IntMax
    PROVE  /\ IntText(v) \in Seq(Int)
           /\ Conv!PutInt(size, out, v) \in Outs
           /\ Exact(Conv!PutInt(size, out, v), size, t \o IntText(v))
<1>1. IntMax \in Nat /\ v \in Int /\ -IntMax - 1 <= v /\ v <= IntMax
  BY ConversionsAssumption DEF Conv!IntMin
<1>2. CASE v < 0
  <2> DEFINE u == Append(t, Conv!Minus)
             o == Conv!PutFitting(size, out, Conv!Minus)
             ds == Digits(-v)
             sign == <<Conv!Minus>>
  <2>1. -v \in Ints /\ Conv!Minus \in Int
    BY <1>1, <1>2 DEF Ints, Conv!Minus
  <2>2. u \in Seq(Int) /\ o \in Outs /\ Exact(o, size, u)
    BY <2>1, AppendProperties, PutsTyped, PutsExact
  <2>3. u = t \o sign /\ sign \in Seq(Int)
    BY <2>1, AppendIsConcat
  <2>4. Conv!PutInt(size, out, v) = Conv!itostr(size, o, -v) /\ IntText(v) = sign \o ds
    BY <1>2 DEF Conv!PutInt, IntText
  <2> HIDE DEF o, u, sign
  <2>5. /\ ds \in Seq(Int) /\ Conv!itostr(size, o, -v) \in Outs
        /\ Exact(Conv!itostr(size, o, -v), size, u \o ds)
    BY <2>1, <2>2, ItostrExact
  <2> HIDE DEF ds
  <2>6. u \o ds = t \o (sign \o ds)
    BY <2>3, <2>5, ConcatAssociative
  <2>7. sign \o ds \in Seq(Int)
    BY <2>3, <2>5, ConcatProperties
  <2> QED
    BY <2>4, <2>5, <2>6, <2>7
<1>3. CASE ~(v < 0)
  <2>1. v \in Ints
    BY <1>1, <1>3 DEF Ints
  <2>2. Conv!PutInt(size, out, v) = Conv!itostr(size, out, v) /\ IntText(v) = Digits(v)
    BY <1>3 DEF Conv!PutInt, IntText
  <2> QED
    BY <2>1, <2>2, ItostrExact
<1> QED
  BY <1>2, <1>3

-----------------------------------------------------------------------------
(* Characters, one after the other.                                          *)

LEMMA PutCharsSteps ==
    ASSUME NEW size \in Nat, NEW out \in Outs, NEW chars \in Seq(Int)
    PROVE  \E f : /\ f[0] = out
                  /\ \A k \in 0..Len(chars) : f[k] \in Outs
                  /\ \A k \in 1..Len(chars) :
                        f[k] = Conv!PutChar(size, f[k - 1], chars[k])
                  /\ Conv!PutChars(size, out, chars) = f[Len(chars)]
<1> DEFINE m == Len(chars)
           Body(g) == [T \in SUBSET (DOMAIN chars) |->
                          IF T = {} THEN out
                          ELSE Conv!PutChar(size, g[T \ {Conv!Max(T)}], chars[Conv!Max(T)])]
           iter == CHOOSE g : g = Body(g)
           step == [k \in 1..m |-> [o \in Outs |-> Conv!PutChar(size, o, chars[k])]]
<1>1. Conv!PutChars(size, out, chars) = iter[DOMAIN chars]
  BY DEF Conv!PutChars, Conv!FoldLeft, Conv!MapThenFoldSet
<1>2. m \in Nat /\ DOMAIN chars = 1..m /\ \A k \in 1..m : chars[k] \in Int
  BY LenProperties, ElementOfSeq
<1>3. step \in [1..m -> [Outs -> Outs]]
  BY <1>2, PutsTyped
<1>4. \A k \in 1..m : \A o \in Outs : step[k][o] = Conv!PutChar(size, o, chars[k])
  OBVIOUS
<1> HIDE DEF step, m
<1>5. PICK w : FoldsSets(w, m, Outs, out, step)
  BY <1>2, <1>3, FoldsSetsExist
<1>6. w = Body(w)
  <2>1. ASSUME NEW T \in SUBSET (1..m)
        PROVE  w[T] = IF T = {} THEN out
                      ELSE Conv!PutChar(size, w[T \ {Conv!Max(T)}], chars[Conv!Max(T)])
    <3>1. CASE T = {}
      BY <1>5, <3>1 DEF FoldsSets
    <3>2. CASE T # {}
      <4> DEFINE x == Conv!Max(T)
      <4>1. x \in T /\ \A y \in T : y <= x
        BY <1>2, <3>2, GreatestIsMax
      <4> HIDE DEF x
      <4>2. w[T] = step[x][w[T \ {x}]] /\ w[T \ {x}] \in Outs
        BY <1>5, <4>1 DEF FoldsSets
      <4>3. w[T] = Conv!PutChar(size, w[T \ {x}], chars[x])
        BY <1>4, <4>1, <4>2
      <4> QED
        BY <3>2, <4>3 DEF x
    <3> QED
      BY <3>1, <3>2
  <2>2. w = [T \in SUBSET (1..m) |-> w[T]]
    BY <1>5 DEF FoldsSets
  <2> QED
    BY <1>2, <2>1, <2>2
<1>7. iter = Body(iter)
  <2> HIDE DEF Body
  <2> QED
    BY <1>6
<1> HIDE DEF iter
<1>8. TakesSteps(iter, m, Outs, out, step)
  <2>1. iter[{}] = out
    BY <1>7
  <2>2. ASSUME NEW T \in SUBSET (1..m), NEW x \in T, \A y \in T : y <= x,
               iter[T \ {x}] \in Outs
        PROVE  iter[T] = step[x][iter[T \ {x}]]
    <3>1. Conv!Max(T) = x
      BY <1>2, <2>2, GreatestIsMax
    <3>2. iter[T] = Conv!PutChar(size, iter[T \ {x}], chars[x])
      BY <1>2, <1>7, <3>1
    <3> QED
      BY <1>4, <2>2, <3>2
  <2> QED
    BY <2>1, <2>2 DEF TakesSteps
<1>9. PICK f : FoldsTo(f, m, Outs, out, step, iter[1..m])
  <2>1. m \in Nat
    BY <1>2
  <2> QED
    BY ONLY <1>3, <1>8, <2>1, out \in Outs, FoldPrefixes
<1>10. \A k \in 1..m : f[k] = Conv!PutChar(size, f[k - 1], chars[k])
  BY <1>4, <1>9 DEF FoldsTo
<1>11. /\ f[0] = out
       /\ \A k \in 0..m : f[k] \in Outs
       /\ \A k \in 1..m : f[k] = Conv!PutChar(size, f[k - 1], chars[k])
       /\ Conv!PutChars(size, out, chars) = f[m]
  BY <1>1, <1>2, <1>9, <1>10 DEF FoldsTo
<1> QED
  BY <1>11, Zenon DEF m

LEMMA PutCharsExact ==
    ASSUME NEW size \in Nat, NEW out \in Outs, NEW t \in Seq(Int),
           Exact(out, size, t), NEW chars \in Seq(Int)
    PROVE  /\ Conv!PutChars(size, out, chars) \in Outs
           /\ Exact(Conv!PutChars(size, out, chars), size, t \o chars)
<1> DEFINE m == Len(chars)
<1>1. PICK f : /\ f[0] = out
               /\ \A k \in 0..m : f[k] \in Outs
               /\ \A k \in 1..m : f[k] = Conv!PutChar(size, f[k - 1], chars[k])
               /\ Conv!PutChars(size, out, chars) = f[m]
  BY PutCharsSteps, Zenon
<1>2. m \in Nat /\ \A k \in 1..m : chars[k] \in Int
  BY LenProperties, ElementOfSeq
<1> DEFINE First(k) == SubSeq(chars, 1, k)
           S == {k \in Nat : k <= m => First(k) \in Seq(Int) /\ Exact(f[k], size, t \o First(k))}
<1>3. First(0) = <<>> /\ First(m) = chars
  BY SubSeqEmpty, SubSeqFull
<1>4. ASSUME NEW k \in Nat, k + 1 <= m PROVE First(k + 1) = Append(First(k), chars[k + 1])
  <2>1. /\ 1 \in 1..m /\ k + 1 \in 1..m /\ (k + 1) - 1 = k
        /\ 1 \in Int /\ k \in Int
        /\ \A i \in 1..k : i \in 1..m
    BY <1>2, <1>4
  <2> DEFINE x == chars[k + 1]
             c == SubSeq(chars, 1, k)
  <2>2. SubSeq(chars, 1, k + 1) = c \o <<x>>
    BY <2>1, SubSeqRecursiveSecond
  <2>3. x \in Int
    BY <1>2, <2>1
  <2>4. c \in Seq(Int)
    <3>1. \A i \in 1..k : chars[i] \in Int
      BY <1>2, <2>1
    <3> QED
      BY <2>1, <3>1, SubSeqProperties
  <2> HIDE DEF c, x
  <2>5. Append(c, x) = c \o <<x>>
    BY <2>3, <2>4, AppendIsConcat
  <2> QED
    BY <2>2, <2>5 DEF c, x
<1> HIDE DEF First, m
<1>5. 0 \in S
  <2>1. t \o <<>> = t /\ <<>> \in Seq(Int)
    BY ConcatEmptySeq
  <2> QED
    BY <1>1, <1>3, <2>1
<1>6. ASSUME NEW k \in S PROVE k + 1 \in S
  <2>1. k \in Nat /\ k + 1 \in Nat /\ (k + 1) - 1 = k
    OBVIOUS
  <2>2. ASSUME k + 1 <= m
        PROVE  First(k + 1) \in Seq(Int) /\ Exact(f[k + 1], size, t \o First(k + 1))
    <3> DEFINE c == First(k)
               x == chars[k + 1]
               o == f[k]
    <3>1. k <= m /\ k \in 0..m /\ k + 1 \in 1..m
      BY <1>2, <2>1, <2>2
    <3>2. c \in Seq(Int) /\ x \in Int /\ o \in Outs /\ Exact(o, size, t \o c)
      BY <1>1, <1>2, <3>1
    <3>3. f[k + 1] = Conv!PutChar(size, o, x)
      BY <1>1, <2>1, <3>1
    <3>4. First(k + 1) = Append(c, x)
      BY <1>4, <2>1, <2>2
    <3> HIDE DEF c, x, o
    <3>5. t \o Append(c, x) = Append(t \o c, x) /\ t \o c \in Seq(Int)
      BY <3>2, AppendAfter
    <3>6. Append(c, x) \in Seq(Int)
      BY <3>2, AppendProperties
    <3>7. Exact(Conv!PutChar(size, o, x), size, Append(t \o c, x))
      BY <3>2, <3>5, PutsExact
    <3> QED
      BY <3>3, <3>4, <3>5, <3>6, <3>7
  <2> QED
    BY <2>1, <2>2
<1>7. m \in S
  <2>1. S \in SUBSET Nat
    OBVIOUS
  <2> HIDE DEF S
  <2> QED
    BY <1>2, <1>5, <1>6, <2>1, Induction
<1>8. Exact(f[m], size, t \o First(m)) /\ f[m] \in Outs
  BY <1>1, <1>2, <1>7
<1> QED
  BY <1>1, <1>3, <1>8

\* A piece's text.
PieceText(piece) == IF piece.kind = "chars" THEN piece.chars ELSE IntText(piece.int)

LEMMA StartedExact ==
    /\ Conv!Started \in Outs
    /\ \A size \in Nat : Exact(Conv!Started, size, <<>>)
<1> DEFINE o == Conv!Started
<1>1. o.str = << >> /\ o.i = 0 /\ o.total = 0
  BY DEF Conv!Started
<1>2. << >> \in [{} -> Int] /\ DOMAIN << >> = {}
  <2>1. << >> = [k \in {} |-> 0]
    BY EmptySeq
  <2> QED
    BY <2>1
<1>3. << >> \in Buffers
  BY <1>2 DEF Buffers
<1>4. o \in Outs
  BY <1>3 DEF Conv!Started, Outs
<1>5. Len(<<>>) = 0 /\ 0..0 - 1 = {}
  OBVIOUS
<1> HIDE DEF o
<1>6. ASSUME NEW size \in Nat PROVE Exact(o, size, <<>>)
  BY <1>1, <1>2, <1>5 DEF Exact
<1> QED
  BY <1>4, <1>6 DEF o

LEMMA PieceTextTyped ==
    ASSUME NEW piece \in Piece
    PROVE  PieceText(piece) \in Seq(Int)
<1>1. piece.int \in Conv!IntMin..IntMax /\ piece.chars \in Seq(Int)
  BY DEF Piece
<1>2. IntText(piece.int) \in Seq(Int)
  <2>1. <<>> \in Seq(Int) /\ 0 \in Nat
    OBVIOUS
  <2>2. Conv!Started \in Outs /\ Exact(Conv!Started, 0, <<>>)
    BY <2>1, StartedExact
  <2> QED
    BY <1>1, <2>1, <2>2, PutIntExact
<1> QED
  BY <1>1, <1>2 DEF PieceText

LEMMA PutPieceExact ==
    ASSUME NEW size \in Nat, NEW out \in Outs, NEW t \in Seq(Int),
           Exact(out, size, t), NEW piece \in Piece
    PROVE  /\ Conv!PutPiece(size, out, piece) \in Outs
           /\ Exact(Conv!PutPiece(size, out, piece), size, t \o PieceText(piece))
<1>1. /\ piece.kind \in {"int", "chars"} /\ piece.int \in Conv!IntMin..IntMax
      /\ piece.chars \in Seq(Int)
  BY DEF Piece
<1>2. CASE piece.kind = "int"
  <2>1. /\ PieceText(piece) = IntText(piece.int)
        /\ Conv!PutPiece(size, out, piece) = Conv!PutInt(size, out, piece.int)
    BY <1>2 DEF PieceText, Conv!PutPiece
  <2> QED
    BY <1>1, <2>1, PutIntExact
<1>3. CASE piece.kind # "int"
  <2>1. /\ PieceText(piece) = piece.chars
        /\ Conv!PutPiece(size, out, piece) = Conv!PutChars(size, out, piece.chars)
    BY <1>1, <1>3 DEF PieceText, Conv!PutPiece
  <2> QED
    BY <1>1, <2>1, PutCharsExact
<1> QED
  BY <1>2, <1>3

LEMMA PutPieceTyped ==
    ASSUME NEW size \in Nat, NEW out \in Outs, NEW piece \in Piece
    PROVE  Conv!PutPiece(size, out, piece) \in Outs
<1>1. /\ piece.int \in Conv!IntMin..IntMax /\ piece.chars \in Seq(Int)
      /\ Conv!Minus \in Int
  BY DEF Piece, Conv!Minus
<1>2. IntMax \in Nat
  BY ConversionsAssumption
<1>3. \A v \in Ints, o \in Outs : Conv!itostr(size, o, v) \in Outs
  <2>1. ASSUME NEW v \in Ints, NEW o \in Outs PROVE Conv!itostr(size, o, v) \in Outs
    BY Itostr
  <2> QED
    BY <2>1
<1>4. Conv!PutInt(size, out, piece.int) \in Outs
  <2>1. Conv!PutFitting(size, out, Conv!Minus) \in Outs
    BY <1>1, PutsTyped
  <2>2. IF piece.int < 0 THEN -piece.int \in Ints ELSE piece.int \in Ints
    BY <1>1, <1>2 DEF Ints, Conv!IntMin
  <2> QED
    BY <1>3, <2>1, <2>2 DEF Conv!PutInt
<1>5. Conv!PutChars(size, out, piece.chars) \in Outs
  <2> DEFINE m == Len(piece.chars)
  <2>1. PICK f : /\ f[0] = out
                 /\ \A k \in 0..m : f[k] \in Outs
                 /\ \A k \in 1..m : f[k] = Conv!PutChar(size, f[k - 1], piece.chars[k])
                 /\ Conv!PutChars(size, out, piece.chars) = f[m]
    BY <1>1, PutCharsSteps, Zenon
  <2>2. m \in 0..m
    BY <1>1, LenProperties
  <2> QED
    BY <2>1, <2>2
<1> QED
  BY <1>4, <1>5 DEF Conv!PutPiece

\* What has been put out after the pieces of a format.
PutOut(size, format) ==
    Conv!FoldLeft(LAMBDA o, p : Conv!PutPiece(size, o, p), Conv!Started, format)

LEMMA FormatSteps ==
    ASSUME NEW size \in Nat, NEW format \in Seq(Piece)
    PROVE  \E f : /\ f[0] = Conv!Started
                  /\ \A k \in 0..Len(format) : f[k] \in Outs
                  /\ \A k \in 1..Len(format) :
                        f[k] = Conv!PutPiece(size, f[k - 1], format[k])
                  /\ PutOut(size, format) = f[Len(format)]
<1> DEFINE m == Len(format)
           out == Conv!Started
           Body(g) == [T \in SUBSET (DOMAIN format) |->
                          IF T = {} THEN out
                          ELSE Conv!PutPiece(size, g[T \ {Conv!Max(T)}], format[Conv!Max(T)])]
           iter == CHOOSE g : g = Body(g)
           step == [k \in 1..m |-> [o \in Outs |-> Conv!PutPiece(size, o, format[k])]]
<1>1. PutOut(size, format) = iter[DOMAIN format]
  BY DEF PutOut, Conv!FoldLeft, Conv!MapThenFoldSet
<1>2. m \in Nat /\ DOMAIN format = 1..m /\ \A k \in 1..m : format[k] \in Piece
  BY LenProperties, ElementOfSeq
<1>0. out \in Outs
  BY StartedExact
<1>3. step \in [1..m -> [Outs -> Outs]]
  BY <1>2, PutPieceTyped
<1>4. \A k \in 1..m : \A o \in Outs : step[k][o] = Conv!PutPiece(size, o, format[k])
  OBVIOUS
<1> HIDE DEF step, m, out
<1>5. PICK w : FoldsSets(w, m, Outs, out, step)
  BY <1>0, <1>2, <1>3, FoldsSetsExist
<1>6. w = Body(w)
  <2>1. ASSUME NEW T \in SUBSET (1..m)
        PROVE  w[T] = IF T = {} THEN out
                      ELSE Conv!PutPiece(size, w[T \ {Conv!Max(T)}], format[Conv!Max(T)])
    <3>1. CASE T = {}
      BY <1>5, <3>1 DEF FoldsSets
    <3>2. CASE T # {}
      <4> DEFINE x == Conv!Max(T)
      <4>1. x \in T /\ \A y \in T : y <= x
        BY <1>2, <3>2, GreatestIsMax
      <4> HIDE DEF x
      <4>2. w[T] = step[x][w[T \ {x}]] /\ w[T \ {x}] \in Outs
        BY <1>5, <4>1 DEF FoldsSets
      <4>3. w[T] = Conv!PutPiece(size, w[T \ {x}], format[x])
        BY <1>4, <4>1, <4>2
      <4> QED
        BY <3>2, <4>3 DEF x
    <3> QED
      BY <3>1, <3>2
  <2>2. w = [T \in SUBSET (1..m) |-> w[T]]
    BY <1>5 DEF FoldsSets
  <2> QED
    BY <1>2, <2>1, <2>2
<1>7. iter = Body(iter)
  <2> HIDE DEF Body
  <2> QED
    BY <1>6
<1> HIDE DEF iter
<1>8. TakesSteps(iter, m, Outs, out, step)
  <2>1. iter[{}] = out
    BY <1>7
  <2>2. ASSUME NEW T \in SUBSET (1..m), NEW x \in T, \A y \in T : y <= x,
               iter[T \ {x}] \in Outs
        PROVE  iter[T] = step[x][iter[T \ {x}]]
    <3>1. Conv!Max(T) = x
      BY <1>2, <2>2, GreatestIsMax
    <3>2. iter[T] = Conv!PutPiece(size, iter[T \ {x}], format[x])
      BY <1>2, <1>7, <3>1
    <3> QED
      BY <1>4, <2>2, <3>2
  <2> QED
    BY <2>1, <2>2 DEF TakesSteps
<1>9. PICK f : FoldsTo(f, m, Outs, out, step, iter[1..m])
  <2>1. m \in Nat
    BY <1>2
  <2> QED
    BY ONLY <1>0, <1>3, <1>8, <2>1, FoldPrefixes
<1>10. \A k \in 1..m : f[k] = Conv!PutPiece(size, f[k - 1], format[k])
  BY <1>4, <1>9 DEF FoldsTo
<1>11. /\ f[0] = out
       /\ \A k \in 0..m : f[k] \in Outs
       /\ \A k \in 1..m : f[k] = Conv!PutPiece(size, f[k - 1], format[k])
       /\ PutOut(size, format) = f[m]
  BY <1>1, <1>2, <1>9, <1>10 DEF FoldsTo
<1> QED
  BY <1>11, Zenon DEF m, out

\* The texts of the first pieces of a format.
Texts(format, k) == [i \in 1..k |-> PieceText(format[i])]

LEMMA TextOf ==
    ASSUME NEW format \in Seq(Piece)
    PROVE  Text(format) = FlattenSeq(Texts(format, Len(format)))
<1>1. DOMAIN format = 1..Len(format)
  BY LenProperties
<1>2. \A k \in DOMAIN format :
         PieceText(format[k]) =
            IF format[k].kind = "chars" THEN format[k].chars
            ELSE IF format[k].int < 0 THEN <<Conv!Minus>> \o Digits(-format[k].int)
            ELSE Digits(format[k].int)
  BY DEF PieceText, IntText
<1> QED
  BY <1>1, <1>2 DEF Text, Texts

LEMMA TextsJoined ==
    ASSUME NEW l \in Nat, NEW u \in Pieces(Int, l), NEW v \in Pieces(Int, l + 1),
           \A i \in 1..l : v[i] = u[i]
    PROVE  /\ FlattenSeq(v) = FlattenSeq(u) \o v[l + 1]
           /\ FlattenSeq(v) \in Seq(Int)
<1> DEFINE Chars == Int
<1>1. u \in Pieces(Chars, l) /\ v \in Pieces(Chars, l + 1)
  OBVIOUS
<1> HIDE DEF Chars
<1>2. FlattenSeq(v) = FlattenSeq(u) \o v[l + 1] /\ FlattenSeq(v) \in Seq(Chars)
  BY <1>1, JoinedGrows
<1> QED
  BY <1>2 DEF Chars

LEMMA PutOutExact ==
    ASSUME NEW size \in Nat, NEW format \in Seq(Piece)
    PROVE  /\ Text(format) \in Seq(Int)
           /\ PutOut(size, format) \in Outs
           /\ Exact(PutOut(size, format), size, Text(format))
<1> DEFINE m == Len(format)
<1>1. PICK f : /\ f[0] = Conv!Started
               /\ \A k \in 0..m : f[k] \in Outs
               /\ \A k \in 1..m : f[k] = Conv!PutPiece(size, f[k - 1], format[k])
               /\ PutOut(size, format) = f[m]
  BY FormatSteps, Zenon
<1>2. m \in Nat /\ \A k \in 1..m : format[k] \in Piece
  BY LenProperties, ElementOfSeq
<1>0. Text(format) = FlattenSeq(Texts(format, m))
  BY TextOf
<1> HIDE DEF m
<1> DEFINE Whole(k) == FlattenSeq(Texts(format, k))
           S == {k \in Nat : k <= m => Whole(k) \in Seq(Int) /\ Exact(f[k], size, Whole(k))}
<1>3. \A k \in Nat : k <= m => Texts(format, k) \in Pieces(Int, k)
  <2>1. ASSUME NEW k \in Nat, k <= m PROVE Texts(format, k) \in Pieces(Int, k)
    <3>1. \A i \in 1..k : PieceText(format[i]) \in Seq(Int)
      <4>1. ASSUME NEW i \in 1..k PROVE PieceText(format[i]) \in Seq(Int)
        <5>1. i \in 1..m
          BY <1>2, <2>1
        <5> QED
          BY <1>2, <5>1, PieceTextTyped
      <4> QED
        BY <4>1
    <3> QED
      BY <3>1 DEF Texts, Pieces
  <2> QED
    BY <2>1
<1>4. 0 \in S
  <2>1. 0 \in Nat /\ 0 <= m
    BY <1>2
  <2>2. Texts(format, 0) \in [1..0 -> Seq(Int)]
    BY <1>3, <2>1 DEF Pieces
  <2>3. Whole(0) = <<>>
    BY <2>1, <2>2, Joining
  <2>4. Exact(Conv!Started, size, <<>>) /\ <<>> \in Seq(Int)
    BY StartedExact
  <2> QED
    BY <1>1, <2>1, <2>3, <2>4
<1>5. ASSUME NEW k \in S PROVE k + 1 \in S
  <2>1. k \in Nat /\ k + 1 \in Nat /\ (k + 1) - 1 = k
    OBVIOUS
  <2>2. ASSUME k + 1 <= m
        PROVE  Whole(k + 1) \in Seq(Int) /\ Exact(f[k + 1], size, Whole(k + 1))
    <3> DEFINE p == format[k + 1]
               o == f[k]
               u == Texts(format, k)
               v == Texts(format, k + 1)
               t == FlattenSeq(u)
    <3>1. k <= m /\ k \in 0..m /\ k + 1 \in 1..m
      BY <1>2, <2>1, <2>2
    <3>2. t \in Seq(Int) /\ p \in Piece /\ o \in Outs /\ Exact(o, size, t)
      BY <1>1, <1>2, <3>1
    <3>3. f[k + 1] = Conv!PutPiece(size, o, p)
      BY <1>1, <2>1, <3>1
    <3>4. /\ u \in Pieces(Int, k) /\ v \in Pieces(Int, k + 1)
          /\ \A i \in 1..k : v[i] = u[i]
          /\ v[k + 1] = PieceText(p)
      <4>1. u \in Pieces(Int, k) /\ v \in Pieces(Int, k + 1)
        BY <1>3, <2>1, <2>2, <3>1
      <4>2. k + 1 \in 1..k + 1 /\ \A i \in 1..k : i \in 1..k + 1
        BY <2>1
      <4> QED
        BY <4>1, <4>2 DEF Texts
    <3> HIDE DEF u, v, p, o
    <3>5. FlattenSeq(v) = FlattenSeq(u) \o v[k + 1] /\ FlattenSeq(v) \in Seq(Int)
      BY <2>1, <3>4, TextsJoined
    <3>6. Whole(k + 1) = t \o PieceText(p) /\ Whole(k + 1) \in Seq(Int)
      BY <3>4, <3>5 DEF v
    <3> HIDE DEF t, Whole
    <3>7. Exact(Conv!PutPiece(size, o, p), size, t \o PieceText(p))
      BY <3>2, PutPieceExact
    <3> QED
      BY <3>3, <3>6, <3>7
  <2> QED
    BY <2>1, <2>2
<1>6. m \in S
  <2>1. S \in SUBSET Nat
    OBVIOUS
  <2> HIDE DEF S
  <2> QED
    BY <1>2, <1>4, <1>5, <2>1, Induction
<1>7. Whole(m) \in Seq(Int) /\ Exact(f[m], size, Whole(m)) /\ f[m] \in Outs
  BY <1>1, <1>2, <1>6
<1> QED
  BY <1>0, <1>1, <1>7

\* my_vsnprintf returns the length of the text and, if that fits, writes it and
\* its terminator (print.c:109).
LEMMA PrintfRight ==
    ASSUME NEW size \in Nat, NEW format \in Seq(Piece), NEW r, NEW len, NEW text,
           r = Conv!my_vsnprintf(size, format), text = Text(format), len = Len(text)
    PROVE  /\ r.total = len
           /\ len < size =>
                 /\ DOMAIN r.str = 0..len
                 /\ \A k \in 0..len : r.str[k] = IF k < len THEN text[k + 1] ELSE Conv!NUL
<1> DEFINE out == PutOut(size, format)
           end == IF out.i < size THEN out.i ELSE size - 1
<1>1. r = [str |-> IF size # 0 THEN Conv!Write(out.str, end, Conv!NUL) ELSE out.str,
           total |-> out.total]
  BY DEF Conv!my_vsnprintf, PutOut
<1>2. text \in Seq(Int) /\ out \in Outs /\ Exact(out, size, text)
  BY PutOutExact
<1>3. len \in Nat
  BY <1>2, LenProperties
<1>4. out.total = len
  BY <1>2 DEF Exact
<1>5. ASSUME len < size
      PROVE  /\ DOMAIN r.str = 0..len
             /\ \A k \in 0..len : r.str[k] = IF k < len THEN text[k + 1] ELSE Conv!NUL
  <2>1. /\ out.i = len /\ DOMAIN out.str = 0..len - 1
        /\ \A k \in 0..len - 1 : out.str[k] = text[k + 1]
    BY <1>2, <1>5 DEF Exact
  <2>2. size # 0 /\ end = len
    BY <1>3, <1>5, <2>1
  <2>3. r.str = Conv!Write(out.str, len, Conv!NUL)
    BY <1>1, <2>2
  <2> HIDE DEF out, end
  <2>4. r.str = [k \in (0..len - 1) \cup {len} |-> IF k = len THEN Conv!NUL ELSE out.str[k]]
    BY <2>1, <2>3 DEF Conv!Write
  <2>5. (0..len - 1) \cup {len} = 0..len
    BY <1>3
  <2>6. r.str = [k \in 0..len |-> IF k = len THEN Conv!NUL ELSE out.str[k]]
    BY <2>4, <2>5
  <2>7. ASSUME NEW k \in 0..len
        PROVE  r.str[k] = IF k < len THEN text[k + 1] ELSE Conv!NUL
    <3>1. r.str[k] = IF k = len THEN Conv!NUL ELSE out.str[k]
      BY <2>6
    <3>2. k = len <=> ~(k < len)
      BY <1>3
    <3>3. k # len => k \in 0..len - 1
      BY <1>3
    <3> QED
      BY <2>1, <3>1, <3>2, <3>3
  <2> QED
    BY <2>6, <2>7
<1> QED
  BY <1>1, <1>4, <1>5

-----------------------------------------------------------------------------
(* The conversions.                                                          *)

AtoiCalled(str) ==
    given = <<"atoi", str>> /\ answer = <<"int", Conv!my_atoi(str)>>

PrintfCalled(format, size) ==
    /\ given = <<"printf", format, size>>
    /\ answer = <<"out", Conv!my_vsnprintf(size, format)>>

\* A conversion's answer is the one for what it has been given.
ConvInv ==
    \/ given = None
    \/ \E str \in Strings : AtoiCalled(str)
    \/ \E format \in Formats, size \in Sizes : PrintfCalled(format, size)

LEMMA ConvInvariant == Spec => []ConvInv
<1>1. Init => ConvInv
  BY DEF Init, ConvInv
<1>2. ASSUME ConvInv, [Next]_vars PROVE ConvInv'
  <2>1. ASSUME UNCHANGED <<given, answer>> PROVE ConvInv'
    BY <1>2, <2>1 DEF ConvInv, AtoiCalled, PrintfCalled
  <2>2. CASE Routine
    BY <2>1, <2>2 DEF Routine
  <2>3. CASE my_atoi
    BY <2>3 DEF my_atoi, ConvInv, AtoiCalled
  <2>4. CASE my_vsnprintf
    BY <2>4 DEF my_vsnprintf, ConvInv, PrintfCalled
  <2>5. CASE UNCHANGED vars
    BY <2>1, <2>5 DEF vars
  <2> QED
    BY <1>2, <2>2, <2>3, <2>4, <2>5 DEF Next
<1> QED
  BY <1>1, <1>2, PTL DEF Spec

\* What has been given tells which routine has been called.
LEMMA Called ==
    ASSUME ConvInv
    PROVE  /\ given[1] = "atoi" => \E str \in Strings : AtoiCalled(str)
           /\ given[1] = "printf" =>
                 \E format \in Formats, size \in Sizes : PrintfCalled(format, size)
<1>1. CASE given = None
  <2>1. given[1] = "none"
    BY <1>1 DEF None
  <2> QED
    BY <2>1
<1>2. CASE \E str \in Strings : AtoiCalled(str)
  <2>1. given[1] = "atoi"
    BY <1>2 DEF AtoiCalled
  <2> QED
    BY <1>2, <2>1
<1>3. CASE \E format \in Formats, size \in Sizes : PrintfCalled(format, size)
  <2>1. given[1] = "printf"
    BY <1>3 DEF PrintfCalled
  <2> QED
    BY <1>3, <2>1
<1> QED
  BY <1>1, <1>2, <1>3 DEF ConvInv

LEMMA AtoiRightNow == ASSUME ConvInv PROVE AtoiSaturates
<1> SUFFICES ASSUME given[1] = "atoi"
             PROVE  answer[2] = IF Number(given[2]) > IntMax THEN IntMax
                                ELSE IF Number(given[2]) < -IntMax - 1 THEN -IntMax - 1
                                ELSE Number(given[2])
  BY DEF AtoiSaturates
<1>1. PICK str \in Strings : AtoiCalled(str)
  BY Called
<1>2. given[2] = str /\ answer[2] = Conv!my_atoi(str)
  BY <1>1 DEF AtoiCalled
<1>3. str \in Seq(Int)
  BY ConversionsAssumption
<1> QED
  BY <1>2, <1>3, AtoiRight

\* exit's operand keeps its value or becomes the nearest int: whatever the largest
\* int is, and for every string.
THEOREM AtoiAlwaysSaturates == Spec => []AtoiSaturates
BY ConvInvariant, AtoiRightNow, PTL

LEMMA PrintfRightNow == ASSUME ConvInv PROVE PrintfExact
<1> SUFFICES ASSUME given[1] = "printf"
             PROVE  LET text == Text(given[2])
                        len == Len(text)
                    IN  /\ answer[2].total = len
                        /\ len < given[3] =>
                              /\ DOMAIN answer[2].str = 0..len
                              /\ \A k \in 0..len :
                                    answer[2].str[k] = IF k < len THEN text[k + 1]
                                                                  ELSE Conv!NUL
  BY DEF PrintfExact
<1>1. PICK format \in Formats, size \in Sizes : PrintfCalled(format, size)
  BY Called
<1>2. /\ given[2] = format /\ given[3] = size
      /\ answer[2] = Conv!my_vsnprintf(size, format)
  BY <1>1 DEF PrintfCalled
<1>3. format \in Seq(Piece) /\ size \in Nat
  BY ConversionsAssumption
<1> DEFINE r == Conv!my_vsnprintf(size, format)
           text == Text(format)
           len == Len(text)
<1>4. r = Conv!my_vsnprintf(size, format) /\ text = Text(format) /\ len = Len(text)
  OBVIOUS
<1> HIDE DEF r, text, len
<1>5. /\ r.total = len
      /\ len < size =>
            /\ DOMAIN r.str = 0..len
            /\ \A k \in 0..len : r.str[k] = IF k < len THEN text[k + 1] ELSE Conv!NUL
  BY ONLY <1>3, <1>4, PrintfRight
<1>6. answer[2] = r /\ Text(given[2]) = text /\ Len(text) = len /\ given[3] = size
  BY <1>2 DEF r, text, len
<1> QED
  BY <1>5, <1>6

\* What is formatted is written out whole, with its terminator, when there is room
\* for it, and its length is returned in any case: for every format and every size.
THEOREM PrintfAlwaysExact == Spec => []PrintfExact
BY ConvInvariant, PrintfRightNow, PTL

=============================================================================
